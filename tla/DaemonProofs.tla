---------------------------- MODULE DaemonProofs ----------------------------
(***************************************************************************)
(* Theorems about daemons, for every number of jobs, projects, daemons,    *)
(* workers and attempts.                                                   *)
(*                                                                         *)
(* First what holds under every fault, also when several daemons serve one *)
(* queue at the same time ("overlap"): type correctness, and what the      *)
(* records say of executions.                                              *)
(*                                                                         *)
(* Then the safety of daemons that follow one another: slots, project      *)
(* locks and the records of the queue agree over crashes, queue timeouts   *)
(* and failed signals (InductiveInvariant of DaemonInv); the records       *)
(* implement the job lifecycle; and as long as no daemon is killed, or no  *)
(* queue transaction times out, children are waited for, a project has one *)
(* of them, pending cancellations have a worker, and recurring jobs go on. *)
(***************************************************************************)
EXTENDS DaemonInv, TLAPS

-----------------------------------------------------------------------------
(* Types.                                                                  *)

(* Every transaction on the queue keeps the type of its records.           *)
LEMMA QueueOperationsType ==
  ASSUME QueueTypeOK
  PROVE  /\ \A j \in Jobs, ready \in BOOLEAN, from \in Jobs \cup {None} :
              EnqueueJob(j, ready, from) => QueueTypeOK'
         /\ \A j \in Jobs, s \in Status, c \in BOOLEAN : UpdateJob(j, s, c) => QueueTypeOK'
         /\ \A j \in Jobs : MarkRunning(j) => QueueTypeOK'
         /\ \A j \in Jobs, ready \in BOOLEAN : RequestJobRetry(j, ready) => QueueTypeOK'
         /\ \A S \in SUBSET Jobs : PruneTerminal(S) => QueueTypeOK'
         /\ RecoverOrphans => QueueTypeOK'
         /\ UNCHANGED queueVars => QueueTypeOK'
<1>1. ASSUME NEW j \in Jobs, NEW ready \in BOOLEAN, NEW from \in Jobs \cup {None},
             EnqueueJob(j, ready, from)
      PROVE  QueueTypeOK'
  BY <1>1 DEF QueueTypeOK, EnqueueJob, Status
<1>2. ASSUME NEW j \in Jobs, NEW s \in Status, NEW c \in BOOLEAN, UpdateJob(j, s, c)
      PROVE  QueueTypeOK'
  BY <1>2 DEF QueueTypeOK, UpdateJob
<1>3. ASSUME NEW j \in Jobs, MarkRunning(j)
      PROVE  QueueTypeOK'
  BY <1>3 DEF QueueTypeOK, MarkRunning, Status, Active
<1>4. ASSUME NEW j \in Jobs, NEW ready \in BOOLEAN, RequestJobRetry(j, ready)
      PROVE  QueueTypeOK'
  BY <1>4 DEF QueueTypeOK, RequestJobRetry, Status
<1>5. ASSUME NEW S \in SUBSET Jobs, PruneTerminal(S)
      PROVE  QueueTypeOK'
  BY <1>5 DEF QueueTypeOK, PruneTerminal, Status
<1>6. ASSUME RecoverOrphans
      PROVE  QueueTypeOK'
  BY <1>6 DEF QueueTypeOK, RecoverOrphans, Status, Active, Terminal
<1>7. ASSUME UNCHANGED queueVars
      PROVE  QueueTypeOK'
  BY <1>7 DEF QueueTypeOK, queueVars
<1> QED
  BY <1>1, <1>2, <1>3, <1>4, <1>5, <1>6, <1>7

(* A callback in the middle of its work has a run, and with it a job.      *)
LEMMA FocusType ==
  ASSUME FocusIsRun, NEW d \in Daemons, step[d] \notin {"idle", "claiming"}
  PROVE  focus[d] \in Runs /\ focus[d].job \in Jobs
BY DEF FocusIsRun, Runs

(* The lock a daemon writes, removes or keeps is a lock.                   *)
LEMMA LockType ==
  ASSUME DaemonTypeOK, NEW d \in Daemons, NEW j \in Jobs
  PROVE  /\ ProjectOf[j] \in Projects
         /\ [pid |-> d, job |-> j] \in Holders
         /\ Released(ProjectOf[j], d, j) \in [Projects -> Holders \cup {None}]
         /\ LocksAfterClaim(d) \in [Projects -> Holders \cup {None}]
<1>1. ProjectOf[j] \in Projects
  BY DaemonAssumption DEF DaemonAssumption
<1>2. Released(ProjectOf[j], d, j) \in [Projects -> Holders \cup {None}]
  BY DEF DaemonTypeOK, Released
<1>3. LocksAfterClaim(d) \in [Projects -> Holders \cup {None}]
  BY DEF DaemonTypeOK, LocksAfterClaim
<1> QED
  BY <1>1, <1>2, <1>3 DEF Holders

LEMMA TypeInit == Init => TypeInv
BY QueueAssumption, DaemonAssumption
   DEF Init, QueueInit, TypeInv, TypeOK, QueueTypeOK, DaemonTypeOK, FocusIsRun,
       Status, Mode, Step, Runs, Holders

(* Every step leaves the records of the queue well typed.                  *)
LEMMA QueueTypeStep ==
  ASSUME TypeInv, [Next]_vars
  PROVE  QueueTypeOK'
<1>0. QueueTypeOK
  BY DEF TypeInv, TypeOK
<1>1. ASSUME UNCHANGED queueVars
      PROVE  QueueTypeOK'
  BY <1>0, <1>1, QueueOperationsType
<1>2. ASSUME NEW d \in Daemons, Boot(d)
      PROVE  QueueTypeOK'
  BY <1>0, <1>1, <1>2, QueueOperationsType
     DEF Boot, BootCheck, BootAbort, RecoverStaleLocks, RecoverOrphanRunningJobs, WritePid
<1>3. ASSUME NEW d \in Daemons, Claim(d)
      PROVE  QueueTypeOK'
  <2>1. CASE ClaimCommit(d)
    <3>1. focus[d].job \in Jobs
      BY <2>1, FocusType DEF ClaimCommit, TypeInv
    <3> QED
      BY <1>0, <2>1, <3>1, QueueOperationsType DEF ClaimCommit
  <2>2. CASE ~ClaimCommit(d)
    BY <1>1, <1>3, <2>2
       DEF Claim, ClaimSnapshot, SkipCandidate, LockCandidate, ClaimVanished
  <2> QED
    BY <2>1, <2>2
<1>4. ASSUME NEW d \in Daemons, NEW run \in pool[d], Finish(d, run)
      PROVE  QueueTypeOK'
  <2>1. run.job \in Jobs /\ cancelRequested[run.job] \in BOOLEAN
    BY <1>0 DEF TypeInv, TypeOK, DaemonTypeOK, QueueTypeOK, Runs
  <2>2. {"cancelled", "completed", "failed"} \subseteq Status
    BY DEF Status, Terminal
  <2> QED
    BY <1>0, <1>4, <2>1, <2>2, QueueOperationsType
       DEF Finish, FinishCancelled, FinishCompleted, FinishFailed
<1>5. ASSUME NEW d \in Daemons, Execute(d)
      PROVE  QueueTypeOK'
  <2>1. CASE SpawnAborted(d)
    <3>1. focus[d].job \in Jobs
      BY <2>1, FocusType DEF SpawnAborted, TypeInv
    <3> QED
      BY <1>0, <2>1, <3>1, QueueOperationsType DEF SpawnAborted, Status, Terminal
  <2>2. CASE RequeueRecurring(d)
    <3>1. focus[d].job \in Jobs
      BY <2>2, FocusType DEF RequeueRecurring, TypeInv
    <3>2. PICK k \in FreshSuccessors(focus[d].job) : EnqueueJob(k, FALSE, focus[d].job)
      BY <2>2 DEF RequeueRecurring
    <3>3. k \in Jobs
      BY <3>2, QueueAssumption DEF FreshSuccessors, QueueAssumption
    <3> QED
      BY <1>0, <3>1, <3>2, <3>3, QueueOperationsType
  <2>3. CASE \E run \in pool[d] : Finish(d, run)
    BY <1>4, <2>3
  <2>4. CASE /\ ~SpawnAborted(d) /\ ~RequeueRecurring(d)
             /\ ~\E run \in pool[d] : Finish(d, run)
    BY <1>1, <1>5, <2>4
       DEF Execute, Spawn, LockHeartbeat, RequeueSkipped, ReleaseWorker
  <2> QED
    BY <2>1, <2>2, <2>3, <2>4
<1>6. ASSUME NEW d \in Daemons, Fail(d)
      PROVE  QueueTypeOK'
  <2>1. CASE HandleException(d)
    <3>1. focus[d].job \in Jobs
      BY <2>1, FocusType DEF HandleException, TypeInv
    <3>2. cancelRequested[focus[d].job] \in BOOLEAN
      BY <1>0, <3>1 DEF QueueTypeOK
    <3> QED
      BY <1>0, <2>1, <3>1, <3>2, QueueOperationsType DEF HandleException, Status, Terminal
  <2>2. CASE ~HandleException(d)
    BY <1>1, <1>6, <2>2
       DEF Fail, SpawnTimeout, FinishTimeout, LifecycleThrows, UncaughtTimeout, Crash
  <2> QED
    BY <2>1, <2>2
<1>7. ASSUME NEW d \in Daemons, NEW j \in Jobs, Cancel(d, j)
      PROVE  QueueTypeOK'
  BY <1>0, <1>7, QueueOperationsType
     DEF Cancel, CancelPending, CancelRunning, CancelUnsignalled, Status, Terminal, Active
<1>8. ASSUME NEW d \in Daemons, Stop(d)
      PROVE  QueueTypeOK'
  BY <1>1, <1>8 DEF Stop, RequestShutdown, FinishShutdown, StopBegin, StopEnd, StopKill
<1>9. ASSUME Outside
      PROVE  QueueTypeOK'
  <2>1. ASSUME NEW j \in Jobs, BecomeAvailable(j)
        PROVE  QueueTypeOK'
    BY <1>0, <2>1 DEF BecomeAvailable, QueueTypeOK
  <2> QED
    BY <1>0, <1>1, <1>9, <2>1, QueueOperationsType
       DEF Outside, Enqueue, Retry, Prune, ChildExit, DoctorFixSafe
<1> QED
  BY <1>1, <1>2, <1>3, <1>5, <1>6, <1>7, <1>8, <1>9 DEF Next, vars

(* Every step leaves the state of the daemons well typed, and a callback   *)
(* in the middle of its work with a run.                                   *)
DaemonTypeInv == DaemonTypeOK /\ FocusIsRun

LEMMA BootDaemonType ==
  ASSUME TypeInv, NEW d \in Daemons, Boot(d)
  PROVE  DaemonTypeInv'
BY DEF TypeInv, TypeOK, DaemonTypeInv, DaemonTypeOK, FocusIsRun, Mode, Booting, Boot,
       BootCheck, BootAbort, RecoverStaleLocks, WithoutStaleLocks,
       RecoverOrphanRunningJobs, WritePid

LEMMA ClaimDaemonType ==
  ASSUME TypeInv, NEW d \in Daemons, Claim(d)
  PROVE  DaemonTypeInv'
<1> USE DEF TypeInv, TypeOK, DaemonTypeInv, DaemonTypeOK, FocusIsRun, Step
<1>1. CASE ClaimSnapshot(d)
  BY <1>1 DEF ClaimSnapshot, Claimable
<1>2. ASSUME NEW j \in Jobs, SkipCandidate(d, j)
      PROVE  DaemonTypeInv'
  BY <1>2, LockType DEF SkipCandidate, NextCandidate
<1>3. ASSUME NEW j \in Jobs, LockCandidate(d, j)
      PROVE  DaemonTypeInv'
  <2>1. [job |-> j, att |-> attempts[j] + 1] \in Runs
    BY DEF Runs, QueueTypeOK
  <2> QED
    BY <1>3, <2>1, LockType DEF LockCandidate
<1>4. CASE ClaimCommit(d)
  <2>1. focus[d].job \in Jobs
    BY <1>4, FocusType DEF ClaimCommit
  <2>2. [job |-> focus[d].job, att |-> attempts[focus[d].job] + 1] \in Runs
    BY <2>1 DEF Runs, QueueTypeOK
  <2> QED
    BY <1>4, <2>2 DEF ClaimCommit
<1>5. CASE ClaimVanished(d)
  <2>1. focus[d].job \in Jobs
    BY <1>5, FocusType DEF ClaimVanished
  <2> QED
    BY <1>5, <2>1, LockType DEF ClaimVanished, NextCandidate
<1> QED
  BY <1>1, <1>2, <1>3, <1>4, <1>5, Claim(d) DEF Claim

LEMMA ExecuteDaemonType ==
  ASSUME TypeInv, NEW d \in Daemons, Execute(d)
  PROVE  DaemonTypeInv'
<1> USE DEF TypeInv, TypeOK, DaemonTypeInv, DaemonTypeOK, FocusIsRun, Step
<1>1. CASE Spawn(d)
  BY <1>1, FocusType, LockType DEF Spawn, Goto
<1>2. CASE SpawnAborted(d)
  BY <1>2, FocusType, LockType DEF SpawnAborted, Goto
<1>3. ASSUME NEW run \in pool[d], Finish(d, run)
      PROVE  DaemonTypeInv'
  <2>1. run \in Runs
    OBVIOUS
  <2> QED
    BY <1>3, <2>1 DEF Finish, FinishCancelled, FinishCompleted, FinishFailed, Goto
<1>4. ASSUME NEW run \in pool[d], LockHeartbeat(d, run)
      PROVE  DaemonTypeInv'
  BY <1>4, LockType DEF LockHeartbeat, Runs
<1>5. CASE RequeueRecurring(d) \/ RequeueSkipped(d)
  BY <1>5, FocusType DEF RequeueRecurring, RequeueSkipped, Goto
<1>6. CASE ReleaseWorker(d)
  BY <1>6, FocusType, LockType DEF ReleaseWorker, Goto
<1> QED
  BY <1>1, <1>2, <1>3, <1>4, <1>5, <1>6 DEF Execute

LEMMA FailDaemonType ==
  ASSUME TypeInv, NEW d \in Daemons, Fail(d)
  PROVE  DaemonTypeInv'
<1> USE DEF TypeInv, TypeOK, DaemonTypeInv, DaemonTypeOK, FocusIsRun, Step, Mode
<1>1. CASE SpawnTimeout(d)
  BY <1>1, FocusType, LockType DEF SpawnTimeout, LifecycleThrows, Goto
<1>2. ASSUME NEW run \in pool[d], FinishTimeout(d, run)
      PROVE  DaemonTypeInv'
  <2>1. run \in Runs /\ run.job \in Jobs
    BY DEF Runs
  <2> QED
    BY <1>2, <2>1, LockType DEF FinishTimeout, LifecycleThrows, Goto
<1>3. CASE HandleException(d)
  BY <1>3 DEF HandleException, Goto
<1>4. CASE UncaughtTimeout(d)
  BY <1>4, FocusType, LockType DEF UncaughtTimeout, Die, Goto
<1>5. CASE Crash(d)
  BY <1>5 DEF Crash, Die, Goto
<1> QED
  BY <1>1, <1>2, <1>3, <1>4, <1>5 DEF Fail

LEMMA StopDaemonType ==
  ASSUME TypeInv, NEW d \in Daemons, Stop(d)
  PROVE  DaemonTypeInv'
BY DEF TypeInv, TypeOK, DaemonTypeInv, DaemonTypeOK, FocusIsRun, Step, Mode, Die, Goto,
       Stop, RequestShutdown, FinishShutdown, StopBegin, StopEnd, StopKill

LEMMA DaemonTypeStep ==
  ASSUME TypeInv, [Next]_vars
  PROVE  DaemonTypeInv'
<1> USE DEF TypeInv, TypeOK, DaemonTypeInv, DaemonTypeOK, FocusIsRun
<1>1. CASE UNCHANGED daemonVars
  BY <1>1 DEF daemonVars
<1>2. ASSUME NEW d \in Daemons, NEW j \in Jobs, Cancel(d, j)
      PROVE  DaemonTypeInv'
  BY <1>1, <1>2 DEF Cancel, CancelPending, CancelRunning, CancelUnsignalled
<1>3. CASE Outside
  BY <1>1, <1>3
     DEF Outside, Enqueue, Retry, BecomeAvailable, Prune, ChildExit, DoctorFixSafe,
         WithoutStaleLocks, daemonVars
<1> QED
  BY <1>1, <1>2, <1>3, BootDaemonType, ClaimDaemonType, ExecuteDaemonType,
     FailDaemonType, StopDaemonType DEF Next, vars

(* Theorem.  Whatever the daemons, the API, the CLI and the faults do, the *)
(* state keeps its type: no record loses a field, no attempt count goes    *)
(* below zero, no lock or slot is held by anything but a run.              *)
THEOREM TypeCorrect == Spec => []TypeOK
<1>1. TypeInv /\ [Next]_vars => TypeInv'
  BY QueueTypeStep, DaemonTypeStep DEF TypeInv, TypeOK, DaemonTypeInv
<1>2. TypeInv => TypeOK
  BY DEF TypeInv
<1> QED
  BY <1>1, <1>2, TypeInit, PTL DEF Spec

-----------------------------------------------------------------------------
(* Executions of rival daemons.                                            *)

(* Attempts are counted up only, and only by a claim.                      *)
LEMMA AttemptsGrow ==
  ASSUME TypeInv, [Next]_vars, NEW j \in Jobs
  PROVE  attempts'[j] \in Nat /\ attempts[j] \in Nat /\ attempts[j] <= attempts'[j]
<1> USE DEF TypeInv, TypeOK, QueueTypeOK
<1>0. ASSUME attempts' = attempts
      PROVE  attempts'[j] \in Nat /\ attempts[j] \in Nat /\ attempts[j] <= attempts'[j]
  BY <1>0
<1>1. ASSUME NEW d \in Daemons, ClaimCommit(d)
      PROVE  attempts'[j] \in Nat /\ attempts[j] \in Nat /\ attempts[j] <= attempts'[j]
  <2>1. focus[d].job \in Jobs /\ attempts[focus[d].job] \in Nat
    BY <1>1, FocusType DEF ClaimCommit
  <2> QED
    BY <1>1, <2>1 DEF ClaimCommit, MarkRunning
<1>2. ASSUME NEW d \in Daemons, ~ClaimCommit(d), Boot(d) \/ Claim(d) \/ Execute(d)
      PROVE  attempts' = attempts
  BY <1>2 DEF Boot, BootCheck, BootAbort, RecoverStaleLocks, RecoverOrphanRunningJobs,
     RecoverOrphans, WritePid, Claim, ClaimSnapshot, SkipCandidate, LockCandidate, ClaimVanished,
     Execute, Spawn, SpawnAborted, Finish, FinishCancelled, FinishCompleted, FinishFailed,
     UpdateJob, LockHeartbeat, RequeueRecurring, EnqueueJob, RequeueSkipped, ReleaseWorker,
     queueVars
<1>3. ASSUME NEW d \in Daemons, Fail(d) \/ Stop(d)
      PROVE  attempts' = attempts
  BY <1>3 DEF Fail, SpawnTimeout, FinishTimeout, LifecycleThrows, HandleException, UpdateJob,
     UncaughtTimeout, Crash, Stop, RequestShutdown, FinishShutdown, StopBegin, StopEnd,
     StopKill, queueVars
<1>4. ASSUME NEW d \in Daemons, NEW k \in Jobs, Cancel(d, k)
      PROVE  attempts' = attempts
  BY <1>4 DEF Cancel, CancelPending, CancelRunning, CancelUnsignalled, UpdateJob
<1>5. CASE Outside
  BY <1>0, <1>5 DEF Outside, Enqueue, EnqueueJob, Retry, RequestJobRetry, BecomeAvailable, Prune,
                    PruneTerminal, ChildExit, DoctorFixSafe, queueVars
<1>6. CASE UNCHANGED vars
  BY <1>0, <1>6 DEF vars, queueVars
<1> QED
  BY <1>0, <1>1, <1>2, <1>3, <1>4, <1>5, <1>6 DEF Next

(* A claim fills a slot with an attempt nobody has made.                   *)
LEMMA ClaimIsFresh ==
  ASSUME TypeInv, RunsAreCounted, NEW d \in Daemons, ClaimCommit(d)
  PROVE  \E run \in Runs :
           /\ pool' = [pool EXCEPT ![d] = @ \cup {run}]
           /\ focus' = [focus EXCEPT ![d] = run]
           /\ run.att = attempts'[run.job]
           /\ run \notin alive /\ alive' = alive
           /\ \A e \in Daemons : run \notin pool[e]
<1>1. focus[d].job \in Jobs /\ attempts[focus[d].job] \in Nat
  BY FocusType DEF ClaimCommit, TypeInv, TypeOK, QueueTypeOK
<1> DEFINE run == [job |-> focus[d].job, att |-> attempts[focus[d].job] + 1]
<1>2. run \in Runs /\ run.att > attempts[run.job]
  BY <1>1 DEF Runs
<1>3. attempts'[run.job] = run.att
  BY <1>1 DEF ClaimCommit, MarkRunning, TypeInv, TypeOK, QueueTypeOK
<1>4. run \notin alive /\ \A e \in Daemons : run \notin pool[e]
  BY <1>1, <1>2 DEF RunsAreCounted
<1>5. /\ pool' = [pool EXCEPT ![d] = @ \cup {run}]
      /\ focus' = [focus EXCEPT ![d] = run]
      /\ alive' = alive
  BY DEF ClaimCommit
<1> QED
  BY <1>2, <1>3, <1>4, <1>5

(* Any other step only empties slots; what it adds to the children is the  *)
(* run of a daemon that has just claimed and now goes on.                  *)
LEMMA SpawnsOnly ==
  ASSUME TypeInv, [Next]_vars, \A d \in Daemons : ~ClaimCommit(d)
  PROVE  /\ \A d \in Daemons : pool'[d] \subseteq pool[d]
         /\ \A d \in Daemons : step'[d] = "claimed" =>
              step[d] = "claimed" /\ focus'[d] = focus[d] /\ pool'[d] = pool[d]
         /\ \/ alive' \subseteq alive
            \/ \E d \in Daemons :
                 /\ step[d] = "claimed" /\ step'[d] # "claimed"
                 /\ alive' = alive \cup {focus[d]}
<1> USE DEF TypeInv, TypeOK, DaemonTypeOK
<1> DEFINE Goal ==
      /\ \A d \in Daemons : pool'[d] \subseteq pool[d]
      /\ \A d \in Daemons : step'[d] = "claimed" =>
           step[d] = "claimed" /\ focus'[d] = focus[d] /\ pool'[d] = pool[d]
      /\ \/ alive' \subseteq alive
         \/ \E d \in Daemons :
              /\ step[d] = "claimed" /\ step'[d] # "claimed"
              /\ alive' = alive \cup {focus[d]}
<1>1. ASSUME NEW d \in Daemons, Boot(d) \/ Claim(d)
      PROVE  Goal
  BY <1>1 DEF Boot, BootCheck, BootAbort, RecoverStaleLocks, RecoverOrphanRunningJobs, WritePid,
     Claim, ClaimSnapshot, SkipCandidate, LockCandidate, ClaimVanished, NextCandidate
<1>2. ASSUME NEW d \in Daemons, Execute(d)
      PROVE  Goal
  <2>1. CASE Spawn(d)
    BY <2>1 DEF Spawn, Goto
  <2>2. CASE SpawnAborted(d) \/ ReleaseWorker(d) \/ RequeueRecurring(d) \/ RequeueSkipped(d)
    BY ZenonT(40), <2>2 DEF SpawnAborted, ReleaseWorker, RequeueRecurring, RequeueSkipped, Goto
  <2>3. CASE \E run \in pool[d] : Finish(d, run) \/ LockHeartbeat(d, run)
    BY <2>3 DEF Finish, FinishCancelled, FinishCompleted, FinishFailed, LockHeartbeat, Goto
  <2> QED
    BY <1>2, <2>1, <2>2, <2>3 DEF Execute
<1>3. ASSUME NEW d \in Daemons, Fail(d)
      PROVE  Goal
  <2>1. CASE SpawnTimeout(d)
    BY <2>1 DEF SpawnTimeout, LifecycleThrows, Goto
  <2>2. CASE \E run \in pool[d] : FinishTimeout(d, run)
    BY <2>2 DEF FinishTimeout, LifecycleThrows, Goto
  <2>3. CASE HandleException(d) \/ UncaughtTimeout(d) \/ Crash(d)
    BY <2>3 DEF HandleException, UncaughtTimeout, Crash, Die, Goto
  <2> QED
    BY <1>3, <2>1, <2>2, <2>3 DEF Fail
<1>4. ASSUME NEW d \in Daemons, Stop(d)
      PROVE  Goal
  BY <1>4 DEF Stop, RequestShutdown, FinishShutdown, StopBegin, StopEnd, StopKill, Die, Goto
<1>5. ASSUME NEW d \in Daemons, NEW j \in Jobs, Cancel(d, j)
      PROVE  Goal
  BY <1>5 DEF Cancel, CancelPending, CancelRunning, CancelUnsignalled, daemonVars
<1>6. CASE Outside
  BY <1>6 DEF Outside, Enqueue, Retry, BecomeAvailable, Prune, ChildExit, DoctorFixSafe,
              daemonVars
<1>7. CASE UNCHANGED vars
  BY <1>7 DEF vars, daemonVars
<1> QED
  BY <1>1, <1>2, <1>3, <1>4, <1>5, <1>6, <1>7 DEF Next

LEMMA RivalStep ==
  ASSUME RivalInvariant, [Next]_vars
  PROVE  RivalInvariant'
<1>0. TypeInv /\ RunsAreCounted /\ ClaimedHoldsSlot /\ AttemptsTellExecutionsApart
  BY DEF RivalInvariant
<1>1. TypeInv'
  BY <1>0, QueueTypeStep, DaemonTypeStep DEF TypeInv, TypeOK, DaemonTypeInv
<1>2. \A run \in Runs :
        run.job \in Jobs /\ run.att \in Nat /\ attempts[run.job] \in Nat
        /\ attempts'[run.job] \in Nat /\ attempts[run.job] <= attempts'[run.job]
  BY <1>0, AttemptsGrow DEF Runs
<1> DEFINE Rest == RunsAreCounted /\ ClaimedHoldsSlot /\ AttemptsTellExecutionsApart
<1> USE DEF RunsAreCounted, ClaimedHoldsSlot, AttemptsTellExecutionsApart, TypeInv, TypeOK,
            DaemonTypeOK
<1>3. ASSUME NEW d \in Daemons, ClaimCommit(d)
      PROVE  Rest'
  <2>1. PICK run \in Runs :
          /\ pool' = [pool EXCEPT ![d] = @ \cup {run}]
          /\ focus' = [focus EXCEPT ![d] = run]
          /\ run.att = attempts'[run.job]
          /\ run \notin alive /\ alive' = alive
          /\ \A e \in Daemons : run \notin pool[e]
    BY <1>0, <1>3, ClaimIsFresh
  <2>2. step' = [step EXCEPT ![d] = "claimed"]
    BY <1>3 DEF ClaimCommit
  <2>3. RunsAreCounted'
    BY <1>0, <1>2, <2>1
  <2>4. ClaimedHoldsSlot'
    BY <1>0, <2>1, <2>2
  <2>5. AttemptsTellExecutionsApart'
    BY <1>0, <2>1, <2>2
  <2> QED
    BY <2>3, <2>4, <2>5
<1>4. ASSUME \A d \in Daemons : ~ClaimCommit(d)
      PROVE  Rest'
  <2>1. /\ \A d \in Daemons : pool'[d] \subseteq pool[d]
        /\ \A d \in Daemons : step'[d] = "claimed" =>
             step[d] = "claimed" /\ focus'[d] = focus[d] /\ pool'[d] = pool[d]
        /\ \/ alive' \subseteq alive
           \/ \E d \in Daemons :
                /\ step[d] = "claimed" /\ step'[d] # "claimed"
                /\ alive' = alive \cup {focus[d]}
    BY <1>0, <1>4, SpawnsOnly
  <2>2. \A run \in alive' : run \in Runs /\ run.att <= attempts[run.job]
    BY <1>0, <2>1
  <2>3. RunsAreCounted'
    BY <1>0, <1>2, <2>1, <2>2
  <2>4. ClaimedHoldsSlot'
    BY <1>0, <2>1
  <2>5. \A d, e \in Daemons : d # e => pool'[d] \cap pool'[e] = {}
    BY <1>0, <2>1
  <2>6. \A d \in Daemons : step'[d] = "claimed" => focus'[d] \notin alive'
    BY <1>0, <2>1
  <2> QED
    BY <2>3, <2>4, <2>5, <2>6
<1> QED
  BY <1>1, <1>3, <1>4 DEF RivalInvariant

(* Theorem.  However many daemons serve the queue at once, an attempt of a *)
(* job has one slot and one child: the number a claim takes from the queue *)
(* is one that no execution, living or orphaned, was ever given.           *)
THEOREM ExecutionsAreDistinct == Spec => []AttemptsTellExecutionsApart
<1>1. Init => RivalInvariant
  BY TypeInit DEF RivalInvariant, RunsAreCounted, ClaimedHoldsSlot, AttemptsTellExecutionsApart,
                  Init
<1>2. RivalInvariant /\ [Next]_vars => RivalInvariant'
  BY RivalStep
<1>3. RivalInvariant => AttemptsTellExecutionsApart
  BY DEF RivalInvariant
<1> QED
  BY <1>1, <1>2, <1>3, PTL DEF Spec

LEMMA PrunedStep ==
  ASSUME TypeInv, [Next]_vars, NEW j \in Jobs, status[j] = "pruned"
  PROVE  status'[j] = "pruned"
<1> USE DEF TypeInv, TypeOK, QueueTypeOK, InFile, UpdateJob
<1>1. ASSUME NEW d \in Daemons, Boot(d) \/ Claim(d)
      PROVE  status'[j] = "pruned"
  <2>1. ASSUME ClaimCommit(d)
        PROVE  status'[j] = "pruned"
    BY <2>1 DEF ClaimCommit, MarkRunning
  <2> QED
    BY <1>1, <2>1 DEF Boot, BootCheck, BootAbort, RecoverStaleLocks, RecoverOrphanRunningJobs,
       RecoverOrphans, WritePid, Claim, ClaimSnapshot, SkipCandidate, LockCandidate,
       ClaimVanished, queueVars
<1>2. ASSUME NEW d \in Daemons, Execute(d)
      PROVE  status'[j] = "pruned"
  BY <1>2 DEF Execute, Spawn, SpawnAborted, Finish, FinishCancelled, FinishCompleted,
     FinishFailed, LockHeartbeat, RequeueRecurring, EnqueueJob, RequeueSkipped, ReleaseWorker,
     queueVars
<1>3. ASSUME NEW d \in Daemons, Fail(d) \/ Stop(d)
      PROVE  status'[j] = "pruned"
  BY <1>3 DEF Fail, SpawnTimeout, FinishTimeout, LifecycleThrows, HandleException,
     UncaughtTimeout, Crash, Stop, RequestShutdown, FinishShutdown, StopBegin, StopEnd,
     StopKill, queueVars
<1>4. ASSUME NEW d \in Daemons, NEW k \in Jobs, Cancel(d, k)
      PROVE  status'[j] = "pruned"
  BY <1>4 DEF Cancel, CancelPending, CancelRunning, CancelUnsignalled
<1>5. CASE Outside
  BY <1>5 DEF Outside, Enqueue, EnqueueJob, Retry, RequestJobRetry, IsRetryable,
              BecomeAvailable, Prune, PruneTerminal, ChildExit, DoctorFixSafe, queueVars
<1>6. CASE UNCHANGED vars
  BY <1>6 DEF vars, queueVars
<1> QED
  BY <1>1, <1>2, <1>3, <1>4, <1>5, <1>6 DEF Next

(* Theorem.  A record that pruning took out of the file is never written   *)
(* back, by any of the workers, handlers and recoveries that update jobs   *)
(* by their identifier.                                                    *)
THEOREM PrunedRecordsStayAway == Spec => PrunedStaysPruned
<1>1. TypeInv /\ [Next]_vars => TypeInv'
  BY QueueTypeStep, DaemonTypeStep DEF TypeInv, TypeOK, DaemonTypeInv
<1>2. TypeInv /\ [Next]_vars => [\A j \in Jobs : status[j] = "pruned" => status'[j] = "pruned"]_vars
  BY PrunedStep
<1> QED
  BY <1>1, <1>2, TypeInit, PTL DEF Spec, PrunedStaysPruned

-----------------------------------------------------------------------------
(* One daemon at a time, and only it has slots and callbacks.              *)

LEMMA AloneInit == Init => AloneInv
BY DEF Init, AloneInv, OneDaemonAtATime, OnlyServingDaemonsWork, Live, Serving

LEMMA AloneStep ==
  ASSUME "overlap" \notin Faults, TypeInv, AloneInv, [Next]_vars
  PROVE  AloneInv'
<1> USE DEF TypeInv, TypeOK, DaemonTypeOK, AloneInv, OneDaemonAtATime,
            OnlyServingDaemonsWork, Live, Serving
<1>1. CASE UNCHANGED <<mode, step, pool>>
  BY <1>1
<1>2. ASSUME NEW d \in Daemons, Boot(d)
      PROVE  AloneInv'
  BY <1>2 DEF Boot, BootCheck, BootAbort, RecoverStaleLocks, RecoverOrphanRunningJobs,
              WritePid, Booting
<1>3. ASSUME NEW d \in Daemons, Claim(d)
      PROVE  AloneInv'
  BY <1>3 DEF Claim, ClaimSnapshot, SkipCandidate, LockCandidate, ClaimCommit,
              ClaimVanished, NextCandidate, Free
<1>4. ASSUME NEW d \in Daemons, Execute(d)
      PROVE  AloneInv'
  BY ZenonT(40), <1>1, <1>4 DEF Execute, Spawn, SpawnAborted, Finish, FinishCancelled, FinishCompleted,
              FinishFailed, Ended, Free, LockHeartbeat, RequeueRecurring,
              RequeueSkipped, ReleaseWorker, Goto
<1>5. ASSUME NEW d \in Daemons, Fail(d)
      PROVE  AloneInv'
  BY <1>5 DEF Fail, SpawnTimeout, FinishTimeout, Ended, Free, LifecycleThrows,
              HandleException, UncaughtTimeout, Crash, Die, Goto
<1>6. ASSUME NEW d \in Daemons, Stop(d)
      PROVE  AloneInv'
  BY <1>6 DEF Stop, RequestShutdown, FinishShutdown, StopBegin, StopEnd, StopKill,
              Free, Die, Goto
<1>7. ASSUME NEW d \in Daemons, NEW j \in Jobs, Cancel(d, j)
      PROVE  AloneInv'
  BY <1>1, <1>7 DEF Cancel, CancelPending, CancelRunning, CancelUnsignalled, daemonVars
<1>8. CASE Outside
  BY <1>1, <1>8 DEF Outside, Enqueue, Retry, BecomeAvailable, Prune, ChildExit,
                    DoctorFixSafe, daemonVars
<1> QED
  BY <1>1, <1>2, <1>3, <1>4, <1>5, <1>6, <1>7, <1>8 DEF Next, vars, daemonVars

(* When a daemon is alive, no other one is at work; and the daemon that    *)
(* claims, executes, fails or cancels is alive.                            *)
LEMMA OthersIdle ==
  ASSUME AloneInv, NEW d \in Daemons, Live(d), NEW e \in Daemons, e # d
  PROVE  ~Live(e) /\ pool[e] = {} /\ step[e] = "idle"
BY DEF AloneInv, OneDaemonAtATime, OnlyServingDaemonsWork, Live, Serving

LEMMA WorkerAlone ==
  ASSUME TypeInv, AloneInv, NEW d \in Daemons,
         Claim(d) \/ Execute(d) \/ Fail(d) \/ \E j \in Jobs : Cancel(d, j)
  PROVE  Live(d) /\ \A e \in Daemons : e # d => pool[e] = {} /\ step[e] = "idle"
<1> USE DEF TypeInv, TypeOK, DaemonTypeOK, Free, Live, Serving, AloneInv,
            OnlyServingDaemonsWork
<1>1. CASE Claim(d)
  BY <1>1, OthersIdle
     DEF Claim, ClaimSnapshot, SkipCandidate, LockCandidate, ClaimCommit, ClaimVanished
<1>2. CASE Execute(d)
  BY <1>2, OthersIdle
     DEF Execute, Spawn, SpawnAborted, Finish, FinishCancelled, FinishCompleted, FinishFailed,
         Ended, LockHeartbeat, RequeueRecurring, RequeueSkipped, ReleaseWorker
<1>3. CASE Fail(d)
  BY <1>3, OthersIdle
     DEF Fail, SpawnTimeout, FinishTimeout, Ended, HandleException, UncaughtTimeout, Crash
<1>4. CASE \E j \in Jobs : Cancel(d, j)
  BY <1>4, OthersIdle DEF Cancel, CancelPending, CancelRunning, CancelUnsignalled
<1> QED
  BY <1>1, <1>2, <1>3, <1>4

(* Nobody works while a daemon goes through its start-up.                  *)
LEMMA BootAlone ==
  ASSUME AloneInv, NEW d \in Daemons, mode[d] \in Booting
  PROVE  \A e \in Daemons : ~Serving(e) /\ pool[e] = {} /\ step[e] = "idle"
BY OthersIdle DEF AloneInv, OnlyServingDaemonsWork, Booting, Live, Serving

-----------------------------------------------------------------------------
(* The slot invariant.  Each part is kept by every step, given the whole   *)
(* invariant before the step.                                              *)

LEMMA SlotInit == Init => SlotInv
BY QueueAssumption
   DEF Init, QueueInit, SlotInv, RecordsConsistent, CallbackConsistent,
       CandidatesStayClaimable, SlotHoldsLock, OneSlotPerProject, SlotMatchesRecord,
       RunningJobTracked, QueueAssumption

(* The status of a job in a slot while its worker has not settled it.      *)
LEMMA FinishingStatus ==
  ASSUME SlotInv, NEW d \in Daemons, NEW run \in pool[d], Ended(d, run)
  PROVE  /\ status[run.job] \in Active \cup {"failed_cancel", "pruned"}
         /\ attempts[run.job] = run.att
BY DEF SlotInv, SlotMatchesRecord, Ended, Free, Settling

LEMMA RecordsStep ==
  ASSUME TypeInv, SlotInv, [Next]_vars
  PROVE  RecordsConsistent'
<1> USE DEF TypeInv, TypeOK, QueueTypeOK, RecordsConsistent
<1>0. RecordsConsistent
  BY DEF SlotInv
<1>1. CASE UNCHANGED queueVars
  BY <1>0, <1>1 DEF queueVars
<1>2. ASSUME NEW d \in Daemons, Boot(d)
      PROVE  RecordsConsistent'
  BY <1>0, <1>1, <1>2 DEF Boot, BootCheck, BootAbort, RecoverStaleLocks,
     RecoverOrphanRunningJobs, RecoverOrphans, Active, WritePid
<1>3. ASSUME NEW d \in Daemons, Claim(d)
      PROVE  RecordsConsistent'
  <2>1. CASE ClaimCommit(d)
    <3>1. focus[d].job \in Jobs /\ ~cancelRequested[focus[d].job]
      BY <2>1, FocusType DEF ClaimCommit, SlotInv, CandidatesStayClaimable
    <3> QED
      BY <1>0, <2>1, <3>1 DEF ClaimCommit, MarkRunning
  <2>2. CASE ~ClaimCommit(d)
    BY <1>1, <1>3, <2>2
       DEF Claim, ClaimSnapshot, SkipCandidate, LockCandidate, ClaimVanished
  <2> QED
    BY <2>1, <2>2
<1>4. ASSUME NEW d \in Daemons, NEW run \in pool[d], Finish(d, run)
      PROVE  RecordsConsistent'
  <2>1. run.job \in Jobs
    BY DEF DaemonTypeOK, Runs
  <2> QED
    BY <1>0, <1>4, <2>1
       DEF Finish, FinishCancelled, FinishCompleted, FinishFailed, UpdateJob
<1>5. ASSUME NEW d \in Daemons, Execute(d)
      PROVE  RecordsConsistent'
  <2>1. CASE SpawnAborted(d)
    BY <1>0, <2>1, FocusType DEF SpawnAborted, UpdateJob
  <2>2. CASE RequeueRecurring(d)
    <3>1. PICK k \in FreshSuccessors(focus[d].job) : EnqueueJob(k, FALSE, focus[d].job)
      BY <2>2 DEF RequeueRecurring
    <3>2. k \in Jobs
      BY <3>1, QueueAssumption DEF FreshSuccessors, QueueAssumption
    <3> QED
      BY <1>0, <3>1, <3>2, QueueAssumption DEF EnqueueJob, QueueAssumption
  <2>3. CASE \E run \in pool[d] : Finish(d, run)
    BY <1>4, <2>3
  <2>4. CASE /\ ~SpawnAborted(d) /\ ~RequeueRecurring(d)
             /\ ~\E run \in pool[d] : Finish(d, run)
    BY <1>1, <1>5, <2>4
       DEF Execute, Spawn, LockHeartbeat, RequeueSkipped, ReleaseWorker
  <2> QED
    BY <2>1, <2>2, <2>3, <2>4
<1>6. ASSUME NEW d \in Daemons, Fail(d)
      PROVE  RecordsConsistent'
  BY <1>0, <1>1, <1>6, FocusType
     DEF Fail, SpawnTimeout, FinishTimeout, LifecycleThrows, HandleException, UpdateJob,
         UncaughtTimeout, Crash
<1>7. ASSUME NEW d \in Daemons, NEW j \in Jobs, Cancel(d, j)
      PROVE  RecordsConsistent'
  BY <1>0, <1>7 DEF Cancel, CancelPending, CancelRunning, CancelUnsignalled, UpdateJob
<1>8. ASSUME NEW d \in Daemons, Stop(d)
      PROVE  RecordsConsistent'
  BY <1>1, <1>8 DEF Stop, RequestShutdown, FinishShutdown, StopBegin, StopEnd, StopKill
<1>9. CASE Outside
  BY <1>0, <1>1, <1>9, QueueAssumption
     DEF Outside, Enqueue, EnqueueJob, Retry, RequestJobRetry, IsRetryable, BecomeAvailable,
         Prune, PruneTerminal, Prunable, ChildExit, DoctorFixSafe, QueueAssumption
<1> QED
  BY <1>1, <1>2, <1>3, <1>5, <1>6, <1>7, <1>8, <1>9 DEF Next, vars

(* The candidates of a claim stay pending: while the daemon is inside its  *)
(* callback the API cannot run, and what other processes do to a pending   *)
(* job leaves it pending.                                                  *)
LEMMA CandidatesStep ==
  ASSUME TypeInv, AloneInv, SlotInv, [Next]_vars
  PROVE  CandidatesStayClaimable'
<1> USE DEF TypeInv, TypeOK, QueueTypeOK, DaemonTypeOK, CandidatesStayClaimable, Claimable
<1>0. CandidatesStayClaimable /\ RecordsConsistent
  BY DEF SlotInv
<1>1. CASE UNCHANGED <<queueVars, step, snap, focus>>
  BY <1>0, <1>1 DEF queueVars
<1>2. ASSUME NEW d \in Daemons, Boot(d)
      PROVE  CandidatesStayClaimable'
  <2>1. CASE RecoverOrphanRunningJobs(d)
    BY <2>1, BootAlone DEF RecoverOrphanRunningJobs, Booting
  <2>2. CASE ~RecoverOrphanRunningJobs(d)
    BY <1>1, <1>2, <2>2 DEF Boot, BootCheck, BootAbort, RecoverStaleLocks, WritePid
  <2> QED
    BY <2>1, <2>2
<1>3. ASSUME NEW d \in Daemons, Claim(d)
      PROVE  CandidatesStayClaimable'
  <2>1. CASE ClaimSnapshot(d)
    BY <1>0, <2>1 DEF ClaimSnapshot, RecordsConsistent, queueVars
  <2>2. ASSUME NEW j \in Jobs, SkipCandidate(d, j)
        PROVE  CandidatesStayClaimable'
    BY <1>0, <2>2 DEF SkipCandidate, NextCandidate, queueVars
  <2>3. ASSUME NEW j \in Jobs, LockCandidate(d, j)
        PROVE  CandidatesStayClaimable'
    BY <1>0, <2>3 DEF LockCandidate, queueVars
  <2>4. CASE ClaimCommit(d)
    BY <1>3, <2>4, WorkerAlone DEF ClaimCommit
  <2>5. CASE ClaimVanished(d)
    BY <1>0, <2>5 DEF ClaimVanished, NextCandidate, queueVars
  <2> QED
    BY <1>3, <2>1, <2>2, <2>3, <2>4, <2>5 DEF Claim
<1>4. ASSUME NEW d \in Daemons, Execute(d)
      PROVE  CandidatesStayClaimable'
  <2>2. \A e \in Daemons : e # d => step[e] = "idle"
    BY <1>4, WorkerAlone
  <2>3. CASE \E run \in pool[d] : LockHeartbeat(d, run)
    BY <1>1, <2>3 DEF LockHeartbeat
  <2>4. CASE ~\E run \in pool[d] : LockHeartbeat(d, run)
    BY ZenonT(40), <1>4, <2>2, <2>4
       DEF Execute, Spawn, SpawnAborted, Finish, FinishCancelled, FinishCompleted,
           FinishFailed, RequeueRecurring, RequeueSkipped, ReleaseWorker, Goto
  <2> QED
    BY <2>3, <2>4
<1>5. ASSUME NEW d \in Daemons, Fail(d)
      PROVE  CandidatesStayClaimable'
  <2>2. \A e \in Daemons : e # d => step[e] = "idle"
    BY <1>5, WorkerAlone
  <2> QED
    BY <1>5, <2>2 DEF Fail, SpawnTimeout, FinishTimeout, LifecycleThrows, HandleException,
                      UncaughtTimeout, Crash, Die, Goto
<1>6. ASSUME NEW d \in Daemons, NEW j \in Jobs, Cancel(d, j)
      PROVE  CandidatesStayClaimable'
  <2>2. \A e \in Daemons : step[e] = "idle"
    BY <1>6, WorkerAlone DEF Cancel, CancelPending, CancelRunning, CancelUnsignalled, Free
  <2> QED
    BY <1>6, <2>2 DEF Cancel, CancelPending, CancelRunning, CancelUnsignalled, daemonVars
<1>7. ASSUME NEW d \in Daemons, Stop(d)
      PROVE  CandidatesStayClaimable'
  BY <1>0, <1>7 DEF Stop, RequestShutdown, FinishShutdown, StopBegin, StopEnd, StopKill,
                    Die, Goto, queueVars
<1>8. CASE Outside
  BY <1>0, <1>1, <1>8
     DEF Outside, Enqueue, EnqueueJob, Retry, RequestJobRetry, IsRetryable, BecomeAvailable,
         Prune, PruneTerminal, Prunable, Terminal, ChildExit, DoctorFixSafe, daemonVars
<1> QED
  BY <1>1, <1>2, <1>3, <1>4, <1>5, <1>6, <1>7, <1>8 DEF Next, vars, daemonVars

(* A candidate is not a job of a slot, and the only lock of its project    *)
(* that could be renewed for it is one that no slot holds.                 *)
LEMMA CandidateHasNoSlot ==
  ASSUME TypeInv, AloneInv, SlotInv, NEW d \in Daemons, step[d] \in {"claiming", "locked"},
         NEW j \in snap[d], NEW run \in pool[d]
  PROVE  run.job # j
BY DEF SlotInv, SlotMatchesRecord, CandidatesStayClaimable, Claimable, Settling, Active

LEMMA LockedProjectHasNoSlot ==
  ASSUME TypeInv, AloneInv, SlotInv, NEW d \in Daemons, NEW j \in snap[d], NEW run \in pool[d],
         \/ step[d] = "claiming" /\ CanAcquire(ProjectOf[j], d, j)
         \/ step[d] = "locked" /\ focus[d].job = j
  PROVE  ~SameProject(run.job, j)
<1> SUFFICES ASSUME SameProject(run.job, j) PROVE FALSE
  OBVIOUS
<1>1. run.job # j
  BY CandidateHasNoSlot
<1>2. lock[ProjectOf[j]] = [pid |-> d, job |-> run.job]
  BY DEF SlotInv, SlotHoldsLock, SameProject
<1>3. Live(d) /\ d \in Daemons /\ run.job \in Jobs
  BY DEF AloneInv, OnlyServingDaemonsWork, Serving, Live, TypeInv, TypeOK, DaemonTypeOK, Runs
<1>4. CASE step[d] = "claiming" /\ CanAcquire(ProjectOf[j], d, j)
  <2>1. LockHeld(ProjectOf[j])
    BY <1>2, <1>3, DaemonAssumption DEF LockHeld, DaemonAssumption, Holders
  <2> QED
    BY <1>1, <1>2, <1>4, <2>1 DEF CanAcquire
<1>5. CASE step[d] = "locked" /\ focus[d].job = j
  <2>1. lock[ProjectOf[j]] = [pid |-> d, job |-> j]
    BY <1>5 DEF SlotInv, CallbackConsistent
  <2>2. lock[ProjectOf[j]].job = j /\ lock[ProjectOf[j]].job = run.job
    BY ONLY <2>1, <1>2
  <2> QED
    BY <1>1, <2>2
<1> QED
  BY <1>4, <1>5

(* The lock of a live daemon outlives a clean-up of stale locks.           *)
LEMMA StaleLocksOnly ==
  ASSUME NEW d \in Daemons, NEW j \in Jobs, NEW p \in Projects, Live(d),
         lock[p] = [pid |-> d, job |-> j]
  PROVE  WithoutStaleLocks[p] = lock[p]
BY DaemonAssumption DEF WithoutStaleLocks, LockHeld, DaemonAssumption, Holders

(* A run of a slot is a run of a job, in the project of that job.          *)
LEMMA SlotType ==
  ASSUME TypeInv, NEW d \in Daemons, NEW run \in pool[d]
  PROVE  run \in Runs /\ run.job \in Jobs /\ ProjectOf[run.job] \in Projects
BY DaemonAssumption DEF TypeInv, TypeOK, DaemonTypeOK, Runs, DaemonAssumption

(* The end of a claim gives back no lock that a slot works under.          *)
LEMMA ClaimKeepsLocksOfSlots ==
  ASSUME TypeInv, SlotInv, NEW d \in Daemons, NEW e \in Daemons, NEW run \in pool[e]
  PROVE  LocksAfterClaim(d)[ProjectOf[run.job]] = lock[ProjectOf[run.job]]
<1>1. lock[ProjectOf[run.job]] = [pid |-> e, job |-> run.job] /\ ProjectOf[run.job] \in Projects
  BY SlotType DEF SlotInv, SlotHoldsLock
<1>2. lock[ProjectOf[run.job]].pid = e /\ lock[ProjectOf[run.job]].job = run.job
  BY <1>1
<1>3. CASE e # d
  BY <1>1, <1>2, <1>3 DEF LocksAfterClaim
<1>4. CASE e = d
  BY <1>1, <1>2, <1>4 DEF LocksAfterClaim, TakenByClaim, SlotInv, CallbackConsistent
<1> QED
  BY <1>3, <1>4

(* While a lock is taken or given up for one project the locks of the      *)
(* others are untouched.                                                   *)
LEMMA LockFrame ==
  ASSUME TypeInv, NEW d \in Daemons, NEW j \in Jobs, NEW p \in Projects, p # ProjectOf[j]
  PROVE  Released(ProjectOf[j], d, j)[p] = lock[p]
BY DEF Released, TypeInv, TypeOK, DaemonTypeOK

LEMMA SlotHoldsLockStep ==
  ASSUME TypeInv, AloneInv, SlotInv, [Next]_vars
  PROVE  SlotHoldsLock'
<1>0. SlotHoldsLock
  BY DEF SlotInv
<1> USE DEF SlotHoldsLock
<1>1. CASE UNCHANGED <<pool, lock>>
  BY <1>0, <1>1
<1>2. ASSUME NEW d \in Daemons, Boot(d)
      PROVE  SlotHoldsLock'
  <2>1. CASE RecoverStaleLocks(d)
    BY <2>1, BootAlone DEF RecoverStaleLocks, Booting
  <2>2. CASE ~RecoverStaleLocks(d)
    BY <1>1, <1>2, <2>2
       DEF Boot, BootCheck, BootAbort, RecoverOrphanRunningJobs, WritePid
  <2> QED
    BY <2>1, <2>2
<1>3. ASSUME NEW d \in Daemons, Claim(d)
      PROVE  SlotHoldsLock'
  <2>0. \A e \in Daemons : e # d => pool[e] = {}
    BY <1>3, WorkerAlone
  <2>1. ASSUME NEW j \in Jobs, LockCandidate(d, j)
        PROVE  SlotHoldsLock'
    <3>1. \A run \in pool[d] : ProjectOf[run.job] # ProjectOf[j]
      BY <2>1, LockedProjectHasNoSlot DEF LockCandidate, SameProject
    <3>2. /\ pool' = pool
          /\ \A p \in Projects : p # ProjectOf[j] => lock'[p] = lock[p]
      BY <2>1 DEF LockCandidate, TypeInv, TypeOK, DaemonTypeOK
    <3>3. ASSUME NEW e \in Daemons, NEW run \in pool'[e]
          PROVE  lock'[ProjectOf[run.job]] = [pid |-> e, job |-> run.job]
      <4>1. run \in pool[e] /\ ProjectOf[run.job] \in Projects
        BY <3>2, <3>3, SlotType
      <4>2. e = d
        BY <2>0, <4>1
      <4>3. ProjectOf[run.job] # ProjectOf[j]
        BY <3>1, <4>1, <4>2
      <4> QED
        BY <1>0, <3>2, <4>1, <4>3
    <3> QED
      BY <3>3
  <2>2. CASE ClaimCommit(d)
    <3> DEFINE j == focus[d].job
               claimed == [job |-> j, att |-> attempts[j] + 1]
    <3>1. pool' = [pool EXCEPT ![d] = @ \cup {claimed}] /\ lock' = lock
      BY <2>2 DEF ClaimCommit
    <3>2. claimed.job = j /\ lock[ProjectOf[j]] = [pid |-> d, job |-> j]
      BY <2>2 DEF ClaimCommit, SlotInv, CallbackConsistent
    <3>3. \A e \in Daemons : pool'[e] = IF e = d THEN pool[d] \cup {claimed} ELSE pool[e]
      BY <3>1 DEF TypeInv, TypeOK, DaemonTypeOK
    <3> HIDE DEF claimed
    <3> SUFFICES ASSUME NEW e \in Daemons, NEW q \in pool'[e]
                 PROVE  lock[ProjectOf[q.job]] = [pid |-> e, job |-> q.job]
      BY <3>1
    <3>4. CASE q \in pool[e]
      BY <1>0, <3>4
    <3>5. CASE e = d /\ q = claimed
      BY <3>2, <3>5
    <3> QED
      BY <3>3, <3>4, <3>5
  <2>3. CASE ClaimVanished(d)
    BY <2>3 DEF ClaimVanished, InFile, SlotInv, CandidatesStayClaimable, Claimable
  <2>4. CASE ClaimSnapshot(d) \/ \E j \in Jobs : SkipCandidate(d, j)
    <3>1. pool' = pool /\ (lock' = lock \/ lock' = LocksAfterClaim(d))
      BY <2>4 DEF ClaimSnapshot, SkipCandidate, NextCandidate
    <3> SUFFICES ASSUME NEW e \in Daemons, NEW run \in pool[e]
                 PROVE  lock'[ProjectOf[run.job]] = [pid |-> e, job |-> run.job]
      BY <3>1
    <3>2. LocksAfterClaim(d)[ProjectOf[run.job]] = lock[ProjectOf[run.job]]
      BY ClaimKeepsLocksOfSlots
    <3> QED
      BY <1>0, <3>1, <3>2
  <2> QED
    BY <1>3, <2>1, <2>2, <2>3, <2>4 DEF Claim
<1>4. ASSUME NEW d \in Daemons, NEW run \in pool[d],
             lock' = Released(ProjectOf[run.job], d, run.job) \/ lock' = lock,
             pool' = [pool EXCEPT ![d] = @ \ {run}],
             \A e \in Daemons : e # d => pool[e] = {}
      PROVE  SlotHoldsLock'
  <2> SUFFICES ASSUME NEW q \in pool[d], q # run
               PROVE  lock'[ProjectOf[q.job]] = [pid |-> d, job |-> q.job]
    BY <1>4 DEF TypeInv, TypeOK, DaemonTypeOK
  <2>1. ProjectOf[q.job] # ProjectOf[run.job]
    BY DEF SlotInv, OneSlotPerProject, SameProject
  <2> QED
    BY <1>0, <1>4, <2>1, LockFrame, SlotType
<1>5. ASSUME NEW d \in Daemons, Execute(d)
      PROVE  SlotHoldsLock'
  <2>0. \A e \in Daemons : e # d => pool[e] = {}
    BY <1>5, WorkerAlone
  <2>1. CASE Spawn(d)
    <3>1. pool' = pool /\ lock' = LocksAfterClaim(d)
      BY <2>1 DEF Spawn
    <3> SUFFICES ASSUME NEW e \in Daemons, NEW run \in pool[e]
                 PROVE  lock'[ProjectOf[run.job]] = [pid |-> e, job |-> run.job]
      BY <3>1
    <3>2. LocksAfterClaim(d)[ProjectOf[run.job]] = lock[ProjectOf[run.job]]
      BY ClaimKeepsLocksOfSlots
    <3> QED
      BY <1>0, <3>1, <3>2
  <2>2. CASE SpawnAborted(d)
    BY <2>2, FocusType
       DEF SpawnAborted, CancelTone, SlotInv, CallbackConsistent, RecordsConsistent, TypeInv
  <2>3. ASSUME NEW run \in pool[d], LockHeartbeat(d, run)
        PROVE  SlotHoldsLock'
    <3>1. lock' = lock
      BY <1>0, <2>3, SlotType DEF LockHeartbeat, TypeInv, TypeOK, DaemonTypeOK
    <3> QED
      BY <1>1, <2>3, <3>1 DEF LockHeartbeat
  <2>4. CASE ReleaseWorker(d)
    BY <1>4, <2>0, <2>4 DEF ReleaseWorker, SlotInv, CallbackConsistent
  <2>5. CASE \/ \E run \in pool[d] : Finish(d, run)
             \/ RequeueRecurring(d) \/ RequeueSkipped(d)
    BY <1>1, <2>5 DEF Finish, FinishCancelled, FinishCompleted, FinishFailed,
                      RequeueRecurring, RequeueSkipped
  <2> QED
    BY <1>5, <2>1, <2>2, <2>3, <2>4, <2>5 DEF Execute
<1>6. ASSUME NEW d \in Daemons, Fail(d)
      PROVE  SlotHoldsLock'
  <2>0. \A e \in Daemons : e # d => pool[e] = {}
    BY <1>6, WorkerAlone
  <2>1. CASE SpawnTimeout(d)
    BY <1>4, <2>0, <2>1 DEF SpawnTimeout, LifecycleThrows, SlotInv, CallbackConsistent
  <2>2. CASE \E run \in pool[d] : FinishTimeout(d, run)
    BY <1>4, <2>0, <2>2 DEF FinishTimeout, LifecycleThrows
  <2>3. CASE HandleException(d)
    BY <1>1, <2>3 DEF HandleException
  <2>4. CASE UncaughtTimeout(d) \/ Crash(d)
    BY <2>0, <2>4 DEF UncaughtTimeout, Crash, Die, TypeInv, TypeOK, DaemonTypeOK
  <2> QED
    BY <1>6, <2>1, <2>2, <2>3, <2>4 DEF Fail
<1>7. ASSUME NEW d \in Daemons, Stop(d)
      PROVE  SlotHoldsLock'
  BY <1>0, <1>7 DEF Stop, RequestShutdown, FinishShutdown, StopBegin, StopEnd, StopKill, Die,
                    TypeInv, TypeOK, DaemonTypeOK
<1>8. ASSUME NEW d \in Daemons, NEW j \in Jobs, Cancel(d, j)
      PROVE  SlotHoldsLock'
  BY <1>1, <1>8 DEF Cancel, CancelPending, CancelRunning, CancelUnsignalled, daemonVars
<1>9. CASE Outside
  <2>1. CASE DoctorFixSafe
    <3> SUFFICES ASSUME NEW d \in Daemons, NEW run \in pool[d]
                 PROVE  WithoutStaleLocks[ProjectOf[run.job]] = [pid |-> d, job |-> run.job]
      BY <2>1 DEF DoctorFixSafe
    <3>1. Live(d)
      BY DEF AloneInv, OnlyServingDaemonsWork, Serving, Live
    <3> QED
      BY <1>0, <3>1, StaleLocksOnly, SlotType
  <2>2. CASE ~DoctorFixSafe
    BY <1>1, <1>9, <2>2 DEF Outside, Enqueue, Retry, BecomeAvailable, Prune, ChildExit, daemonVars
  <2> QED
    BY <2>1, <2>2
<1> QED
  BY <1>1, <1>2, <1>3, <1>5, <1>6, <1>7, <1>8, <1>9 DEF Next, vars, daemonVars

(* The only step that fills a slot takes a job of a project that has none. *)
LEMMA ClaimFillsFreeProject ==
  ASSUME TypeInv, AloneInv, SlotInv, NEW d \in Daemons, ClaimCommit(d)
  PROVE  LET run == [job |-> focus[d].job, att |-> attempts[focus[d].job] + 1]
         IN  /\ run.job = focus[d].job
             /\ run.job \in Jobs
             /\ run.job \in Claimable
             /\ \A q \in pool[d] : ~SameProject(q.job, run.job)
             /\ \A e \in Daemons :
                  /\ pool'[e] = IF e = d THEN pool[d] \cup {run} ELSE pool[e]
                  /\ e # d => pool[e] = {} /\ step[e] = "idle"
<1>1. focus[d].job \in snap[d] /\ focus[d].job \in Claimable /\ step[d] = "locked"
  BY DEF ClaimCommit, SlotInv, CandidatesStayClaimable
<1>2. \A q \in pool[d] : ~SameProject(q.job, focus[d].job)
  BY <1>1, LockedProjectHasNoSlot
<1>3. \A e \in Daemons : e # d => pool[e] = {} /\ step[e] = "idle"
  BY WorkerAlone DEF Claim
<1> QED
  BY <1>1, <1>2, <1>3 DEF ClaimCommit, TypeInv, TypeOK, DaemonTypeOK, Claimable

LEMMA PoolsShrink ==
  ASSUME TypeInv, [Next]_vars, \A d \in Daemons : ~ClaimCommit(d)
  PROVE  \A d \in Daemons : pool'[d] \subseteq pool[d]
<1> USE DEF TypeInv, TypeOK, DaemonTypeOK
<1>1. ASSUME NEW d \in Daemons, Boot(d) \/ Claim(d)
      PROVE  pool' = pool
  BY <1>1 DEF Boot, BootCheck, BootAbort, RecoverStaleLocks, RecoverOrphanRunningJobs, WritePid,
              Claim, ClaimSnapshot, SkipCandidate, LockCandidate, ClaimVanished
<1>2. ASSUME NEW d \in Daemons, Execute(d)
      PROVE  \A e \in Daemons : pool'[e] \subseteq pool[e]
  BY <1>2 DEF Execute, Spawn, SpawnAborted, Finish, FinishCancelled, FinishCompleted,
     FinishFailed, LockHeartbeat, RequeueRecurring, RequeueSkipped, ReleaseWorker
<1>3. ASSUME NEW d \in Daemons, Fail(d)
      PROVE  \A e \in Daemons : pool'[e] \subseteq pool[e]
  BY <1>3 DEF Fail, SpawnTimeout, FinishTimeout, LifecycleThrows, HandleException,
              UncaughtTimeout, Crash, Die
<1>4. ASSUME NEW d \in Daemons, Stop(d)
      PROVE  \A e \in Daemons : pool'[e] \subseteq pool[e]
  BY <1>4 DEF Stop, RequestShutdown, FinishShutdown, StopBegin, StopEnd, StopKill, Die
<1>5. ASSUME NEW d \in Daemons, NEW j \in Jobs, Cancel(d, j)
      PROVE  pool' = pool
  BY <1>5 DEF Cancel, CancelPending, CancelRunning, CancelUnsignalled, daemonVars
<1>6. CASE Outside
  BY <1>6 DEF Outside, Enqueue, Retry, BecomeAvailable, Prune, ChildExit, DoctorFixSafe,
              daemonVars
<1> QED
  BY <1>1, <1>2, <1>3, <1>4, <1>5, <1>6 DEF Next, vars, daemonVars

LEMMA OneSlotStep ==
  ASSUME TypeInv, AloneInv, SlotInv, [Next]_vars
  PROVE  OneSlotPerProject'
<1>0. OneSlotPerProject
  BY DEF SlotInv
<1>1. ASSUME NEW d \in Daemons, ClaimCommit(d)
      PROVE  OneSlotPerProject'
  <2> DEFINE run == [job |-> focus[d].job, att |-> attempts[focus[d].job] + 1]
  <2>1. /\ \A q \in pool[d] : ~SameProject(q.job, run.job)
        /\ \A e \in Daemons :
             /\ pool'[e] = IF e = d THEN pool[d] \cup {run} ELSE pool[e]
             /\ e # d => pool[e] = {}
    BY <1>1, ClaimFillsFreeProject
  <2> HIDE DEF run
  <2> SUFFICES ASSUME NEW a \in Daemons, NEW b \in Daemons, NEW r \in pool'[a],
                      NEW q \in pool'[b], SameProject(r.job, q.job)
               PROVE  a = b /\ r = q
    BY DEF OneSlotPerProject, SameProject
  <2>2. a = d /\ b = d
    BY <2>1
  <2>3. CASE r = run \/ q = run
    BY <2>1, <2>2, <2>3 DEF SameProject
  <2>4. CASE r \in pool[d] /\ q \in pool[d]
    BY <1>0, <2>2, <2>4 DEF OneSlotPerProject
  <2> QED
    BY <2>1, <2>2, <2>3, <2>4
<1>2. CASE \A d \in Daemons : ~ClaimCommit(d)
  BY <1>0, <1>2, PoolsShrink DEF OneSlotPerProject, SameProject
<1> QED
  BY <1>1, <1>2

(* The callbacks of a daemon that does not take the step, or of one that   *)
(* keeps its step and focus, find the lock and the slot they left.         *)
LEMMA CallbackStep ==
  ASSUME TypeInv, AloneInv, SlotInv, [Next]_vars
  PROVE  CallbackConsistent'
<1>0. CallbackConsistent
  BY DEF SlotInv
<1> USE DEF CallbackConsistent, SameProject
<1>1. CASE UNCHANGED <<status, step, focus, pool, lock>>
  BY <1>0, <1>1
<1>2. ASSUME NEW d \in Daemons, Boot(d)
      PROVE  CallbackConsistent'
  <2>1. CASE RecoverStaleLocks(d) \/ RecoverOrphanRunningJobs(d)
    BY <2>1, BootAlone DEF RecoverStaleLocks, RecoverOrphanRunningJobs, Booting
  <2>2. CASE ~(RecoverStaleLocks(d) \/ RecoverOrphanRunningJobs(d))
    BY <1>1, <1>2, <2>2 DEF Boot, BootCheck, BootAbort, WritePid, queueVars
  <2> QED
    BY <2>1, <2>2
<1>3. ASSUME NEW d \in Daemons, Claim(d)
      PROVE  CallbackConsistent'
  <2> USE DEF TypeInv, TypeOK, DaemonTypeOK, QueueTypeOK
  <2>0. \A e \in Daemons : e # d => step[e] = "idle"
    BY <1>3, WorkerAlone
  <2>1. CASE ClaimSnapshot(d)
    BY <2>0, <2>1 DEF ClaimSnapshot
  <2>2. ASSUME NEW j \in Jobs, SkipCandidate(d, j)
        PROVE  CallbackConsistent'
    BY <2>0, <2>2 DEF SkipCandidate, NextCandidate
  <2>3. ASSUME NEW j \in Jobs, LockCandidate(d, j)
        PROVE  CallbackConsistent'
    BY <2>0, <2>3, LockType DEF LockCandidate
  <2>4. CASE ClaimCommit(d)
    BY <2>0, <2>4, FocusType DEF ClaimCommit, MarkRunning
  <2>5. CASE ClaimVanished(d)
    BY <2>0, <2>5 DEF ClaimVanished, NextCandidate
  <2> QED
    BY <1>3, <2>1, <2>2, <2>3, <2>4, <2>5 DEF Claim
<1>4. ASSUME NEW d \in Daemons, Execute(d)
      PROVE  CallbackConsistent'
  <2> USE DEF TypeInv, TypeOK, DaemonTypeOK, QueueTypeOK
  <2>0. \A e \in Daemons : e # d => step[e] = "idle"
    BY <1>4, WorkerAlone
  <2>1. CASE Spawn(d) \/ ReleaseWorker(d)
    BY <2>0, <2>1 DEF Spawn, ReleaseWorker, Goto
  <2>2. CASE SpawnAborted(d)
    BY <1>0, <2>0, <2>2, FocusType DEF SpawnAborted, UpdateJob, InFile, Goto
  <2>3. ASSUME NEW run \in pool[d], Finish(d, run)
        PROVE  CallbackConsistent'
    BY <2>0, <2>3, SlotType DEF Finish, FinishCancelled, FinishCompleted, FinishFailed,
                                UpdateJob, InFile, Goto
  <2>4. ASSUME NEW run \in pool[d], LockHeartbeat(d, run)
        PROVE  CallbackConsistent'
    BY <2>0, <2>4 DEF LockHeartbeat, Free
  <2>5. CASE RequeueRecurring(d) \/ RequeueSkipped(d)
    BY <1>0, <2>0, <2>5, FocusType
       DEF RequeueRecurring, EnqueueJob, RequeueSkipped, Goto, queueVars
  <2> QED
    BY <1>4, <2>1, <2>2, <2>3, <2>4, <2>5 DEF Execute
<1>5. ASSUME NEW d \in Daemons, Fail(d)
      PROVE  CallbackConsistent'
  <2> USE DEF TypeInv, TypeOK, DaemonTypeOK
  <2>0. \A e \in Daemons : e # d => step[e] = "idle"
    BY <1>5, WorkerAlone
  <2>1. ASSUME NEW run \in pool[d], LifecycleThrows(d, run)
        PROVE  CallbackConsistent'
    <3>1. \A q \in pool[d] \ {run} : ~SameProject(q.job, run.job)
      BY DEF SlotInv, OneSlotPerProject
    <3> QED
      BY <2>0, <2>1, <3>1 DEF LifecycleThrows, Goto
  <2>2. CASE SpawnTimeout(d)
    BY <1>0, <2>1, <2>2 DEF SpawnTimeout
  <2>3. CASE \E run \in pool[d] : FinishTimeout(d, run)
    BY <2>1, <2>3 DEF FinishTimeout
  <2>4. CASE HandleException(d) \/ UncaughtTimeout(d) \/ Crash(d)
    BY <2>0, <2>4 DEF HandleException, UncaughtTimeout, Crash, Die, Goto
  <2> QED
    BY <1>5, <2>2, <2>3, <2>4 DEF Fail
<1>6. ASSUME NEW d \in Daemons, Stop(d)
      PROVE  CallbackConsistent'
  BY <1>0, <1>6 DEF Stop, RequestShutdown, FinishShutdown, StopBegin, StopEnd, StopKill, Die,
                    Goto, TypeInv, TypeOK, DaemonTypeOK, queueVars
<1>7. ASSUME NEW d \in Daemons, NEW j \in Jobs, Cancel(d, j)
      PROVE  CallbackConsistent'
  <2>1. \A e \in Daemons : step[e] = "idle"
    BY <1>7, WorkerAlone DEF Cancel, CancelPending, CancelRunning, CancelUnsignalled, Free
  <2> QED
    BY <1>7, <2>1 DEF Cancel, CancelPending, CancelRunning, CancelUnsignalled, daemonVars
<1>8. CASE Outside
  <2>1. ASSUME UNCHANGED <<step, focus, pool, lock>>,
               \A j \in Jobs : status'[j] = "running" <=> status[j] = "running"
        PROVE  CallbackConsistent'
    BY <1>0, <2>1, FocusType DEF TypeInv
  <2>2. CASE DoctorFixSafe
    <3>1. ASSUME NEW d \in Daemons, step[d] = "locked"
          PROVE  lock'[ProjectOf[focus[d].job]] = [pid |-> d, job |-> focus[d].job]
      <4>1. focus[d].job \in Jobs /\ ProjectOf[focus[d].job] \in Projects
        BY <3>1, FocusType, LockType DEF TypeInv, TypeOK
      <4>2. Live(d)
        BY <3>1 DEF AloneInv, OnlyServingDaemonsWork, Serving, Live
      <4> QED
        BY <1>0, <2>2, <3>1, <4>1, <4>2, StaleLocksOnly DEF DoctorFixSafe
    <3> QED
      BY <1>0, <2>2, <3>1 DEF DoctorFixSafe, queueVars
  <2>3. ASSUME NEW j \in Jobs, NEW ready \in BOOLEAN, Enqueue(j, ready) \/ Retry(j, ready)
        PROVE  CallbackConsistent'
    BY <2>1, <2>3 DEF Enqueue, EnqueueJob, Retry, RequestJobRetry, IsRetryable, daemonVars,
                      TypeInv, TypeOK, QueueTypeOK
  <2>4. ASSUME NEW S \in SUBSET Jobs, Prune(S)
        PROVE  CallbackConsistent'
    BY <2>1, <2>4 DEF Prune, PruneTerminal, Prunable, Terminal, daemonVars
  <2>5. CASE (\E j \in Jobs : BecomeAvailable(j)) \/ \E run \in alive : ChildExit(run)
    BY <1>1, <2>5 DEF BecomeAvailable, ChildExit, daemonVars, queueVars
  <2> QED
    BY <1>8, <2>2, <2>3, <2>4, <2>5 DEF Outside
<1> QED
  BY <1>1, <1>2, <1>3, <1>4, <1>5, <1>6, <1>7, <1>8 DEF Next, vars, queueVars, daemonVars

(* The record of a job in a slot.                                          *)
RunMatches(run) ==
  /\ status[run.job] \in Active \cup {"failed_cancel", "pruned"}
  /\ attempts[run.job] = run.att

LEMMA SlotMatchesStep ==
  ASSUME TypeInv, AloneInv, SlotInv, [Next]_vars
  PROVE  SlotMatchesRecord'
<1>0. SlotMatchesRecord
  BY DEF SlotInv
<1> USE DEF SlotMatchesRecord, Settling
<1>1. CASE UNCHANGED <<status, attempts, step, focus, pool>>
  BY <1>0, <1>1
<1>2. ASSUME NEW d \in Daemons, \A e \in Daemons : e # d => pool'[e] = {},
             \A run \in pool'[d] :
               (step'[d] \in {"requeue", "release"} /\ focus'[d] = run) \/ RunMatches(run)'
      PROVE  SlotMatchesRecord'
  BY <1>2 DEF RunMatches
<1>3. ASSUME NEW d \in Daemons, step[d] \notin {"requeue", "release"}
      PROVE  \A run \in pool[d] : RunMatches(run)
  BY <1>0, <1>3 DEF RunMatches
<1>4. ASSUME NEW d \in Daemons, Boot(d)
      PROVE  SlotMatchesRecord'
  <2>1. CASE RecoverOrphanRunningJobs(d)
    BY <2>1, BootAlone DEF RecoverOrphanRunningJobs, Booting
  <2>2. CASE ~RecoverOrphanRunningJobs(d)
    BY <1>1, <1>4, <2>2 DEF Boot, BootCheck, BootAbort, RecoverStaleLocks, WritePid, queueVars
  <2> QED
    BY <2>1, <2>2
<1> USE DEF TypeInv, TypeOK, DaemonTypeOK, QueueTypeOK
<1>5. ASSUME NEW d \in Daemons, Claim(d)
      PROVE  SlotMatchesRecord'
  <2>0. \A e \in Daemons : e # d => pool[e] = {}
    BY <1>5, WorkerAlone
  <2>1. CASE ClaimCommit(d)
    <3>1. PICK run :
            /\ run.job = focus[d].job /\ run.job \in Jobs /\ run.att = attempts[run.job] + 1
            /\ \A q \in pool[d] : ~SameProject(q.job, run.job)
            /\ \A e \in Daemons : pool'[e] = IF e = d THEN pool[d] \cup {run} ELSE pool[e]
      <4> DEFINE run == [job |-> focus[d].job, att |-> attempts[focus[d].job] + 1]
      <4> WITNESS run
      <4> QED
        BY <2>1, ClaimFillsFreeProject
    <3>2. MarkRunning(run.job)
      BY <2>1, <3>1 DEF ClaimCommit
    <3>3. \A q \in pool[d] : RunMatches(q)
      BY <1>3, <2>1 DEF ClaimCommit
    <3>4. RunMatches(run)'
      BY <3>1, <3>2 DEF MarkRunning, RunMatches, Active
    <3>5. \A q \in pool[d] : RunMatches(q)'
      BY <3>1, <3>2, <3>3, SlotType DEF MarkRunning, RunMatches, SameProject
    <3> QED
      BY <1>2, <2>0, <3>1, <3>4, <3>5
  <2>2. CASE ~ClaimCommit(d)
    <3>1. UNCHANGED <<status, attempts, pool>> /\ step[d] \notin {"requeue", "release"}
      BY <1>5, <2>2 DEF Claim, ClaimSnapshot, SkipCandidate, LockCandidate, ClaimVanished,
                        Free, queueVars
    <3> QED
      BY <1>2, <1>3, <2>0, <3>1 DEF RunMatches
  <2> QED
    BY <2>1, <2>2
<1>6. ASSUME NEW d \in Daemons, NEW run \in pool[d], NEW s \in Status, NEW c \in BOOLEAN,
             UpdateJob(run.job, s, c), step[d] \notin {"requeue", "release"},
             step'[d] \in {"requeue", "release"}, focus'[d] = run, pool' = pool,
             \A e \in Daemons : e # d => pool[e] = {}
      PROVE  SlotMatchesRecord'
  <2> SUFFICES ASSUME NEW q \in pool[d], q # run PROVE RunMatches(q)'
    BY <1>2, <1>6
  <2>1. q.job # run.job
    BY DEF SlotInv, OneSlotPerProject, SameProject
  <2> QED
    BY <1>3, <1>6, <2>1, SlotType DEF UpdateJob, RunMatches
<1>7. ASSUME NEW d \in Daemons, Execute(d)
      PROVE  SlotMatchesRecord'
  <2>0. \A e \in Daemons : e # d => pool[e] = {}
    BY <1>7, WorkerAlone
  <2>1. CASE Spawn(d)
    BY <1>2, <1>3, <2>0, <2>1 DEF Spawn, queueVars, RunMatches
  <2>2. CASE SpawnAborted(d)
    <3>1. focus[d] \in pool[d]
      BY <2>2 DEF SpawnAborted, SlotInv, CallbackConsistent
    <3> QED
      BY <1>6, <2>0, <2>2, <3>1 DEF SpawnAborted, Goto, Status, Terminal
  <2>3. ASSUME NEW run \in pool[d], Finish(d, run)
        PROVE  SlotMatchesRecord'
    <3>1. \E s \in Status, c \in BOOLEAN : UpdateJob(run.job, s, c)
      BY <2>3, SlotType DEF Finish, FinishCancelled, FinishCompleted, FinishFailed, Status,
                            Terminal
    <3>2. /\ step[d] = "idle" /\ pool' = pool
          /\ step'[d] \in {"requeue", "release"} /\ focus'[d] = run
      BY <2>3 DEF Finish, FinishCancelled, FinishCompleted, FinishFailed, Ended, Free, Goto
    <3> QED
      BY <1>6, <2>0, <3>1, <3>2
  <2>4. CASE \E run \in pool[d] : LockHeartbeat(d, run)
    BY <1>1, <2>4 DEF LockHeartbeat, queueVars
  <2>5. CASE RequeueRecurring(d) \/ RequeueSkipped(d)
    <3>1. /\ focus' = focus /\ step'[d] = "release" /\ pool' = pool
          /\ step[d] = "requeue" /\ attempts' = attempts
          /\ \A j \in Jobs : status[j] # "absent" => status'[j] = status[j]
      BY <2>5, FocusType DEF RequeueRecurring, RequeueSkipped, Goto, EnqueueJob, queueVars
    <3>2. \A q \in pool[d] : RunMatches(q) => RunMatches(q)'
      BY <3>1, SlotType DEF RunMatches, Active
    <3> QED
      BY <1>0, <1>2, <2>0, <3>1, <3>2 DEF RunMatches
  <2>6. CASE ReleaseWorker(d)
    BY <1>0, <1>2, <2>0, <2>6 DEF ReleaseWorker, Goto, RunMatches, queueVars
  <2> QED
    BY <1>7, <2>1, <2>2, <2>3, <2>4, <2>5, <2>6 DEF Execute
<1>8. ASSUME NEW d \in Daemons, Fail(d)
      PROVE  SlotMatchesRecord'
  <2>0. \A e \in Daemons : e # d => pool[e] = {}
    BY <1>8, WorkerAlone
  <2>1. CASE SpawnTimeout(d) \/ \E run \in pool[d] : FinishTimeout(d, run)
    BY <1>2, <1>3, <2>0, <2>1
       DEF SpawnTimeout, FinishTimeout, Ended, Free, LifecycleThrows, queueVars, RunMatches
  <2>2. CASE HandleException(d)
    <3>1. \A q \in pool[d] : q.job # focus[d].job
      BY <2>2 DEF HandleException, SlotInv, CallbackConsistent, SameProject
    <3>2. \A q \in pool[d] : RunMatches(q)'
      BY <1>3, <2>2, <3>1, SlotType DEF HandleException, UpdateJob, RunMatches, queueVars
    <3> QED
      BY <1>2, <2>0, <2>2, <3>2 DEF HandleException
  <2>3. CASE UncaughtTimeout(d) \/ Crash(d)
    BY <1>2, <2>0, <2>3 DEF UncaughtTimeout, Crash, Die
  <2> QED
    BY <1>8, <2>1, <2>2, <2>3 DEF Fail
<1>9. ASSUME NEW d \in Daemons, Stop(d)
      PROVE  SlotMatchesRecord'
  BY <1>0, <1>9 DEF Stop, RequestShutdown, FinishShutdown, StopBegin, StopEnd, StopKill, Die,
                    Goto, queueVars
<1>10. ASSUME NEW d \in Daemons, NEW j \in Jobs, Cancel(d, j)
       PROVE  SlotMatchesRecord'
  <2>1. /\ \A e \in Daemons : e # d => pool[e] = {}
        /\ step[d] = "idle"
    BY <1>10, WorkerAlone DEF Cancel, CancelPending, CancelRunning, CancelUnsignalled, Free
  <2>2. \A run \in pool[d] : RunMatches(run)'
    BY <1>3, <1>10, <2>1, SlotType
       DEF Cancel, CancelPending, CancelRunning, CancelUnsignalled, UpdateJob, RunMatches, Active
  <2> QED
    BY <1>2, <1>10, <2>1, <2>2
       DEF Cancel, CancelPending, CancelRunning, CancelUnsignalled, daemonVars
<1>11. CASE Outside
  <2>1. UNCHANGED <<step, focus, pool>>
    BY <1>11 DEF Outside, Enqueue, Retry, BecomeAvailable, Prune, ChildExit, DoctorFixSafe,
                 daemonVars
  <2>2. /\ attempts' = attempts
        /\ \A j \in Jobs : status[j] \in Active \cup {"failed_cancel", "pruned"} =>
                           status'[j] \in Active \cup {"failed_cancel", "pruned"}
    BY <1>11 DEF Outside, Enqueue, EnqueueJob, Retry, RequestJobRetry, IsRetryable,
                 BecomeAvailable, Prune, PruneTerminal, Prunable, Terminal, ChildExit,
                 DoctorFixSafe, queueVars, Active
  <2> QED
    BY <1>0, <2>1, <2>2, SlotType
<1> QED
  BY <1>1, <1>4, <1>5, <1>7, <1>8, <1>9, <1>10, <1>11 DEF Next, vars, queueVars, daemonVars

(* A job that runs was running before the step, unless the step claims it. *)
LEMMA OnlyClaimsStart ==
  ASSUME TypeInv, [Next]_vars, \A d \in Daemons : ~ClaimCommit(d), NEW j \in Jobs,
         status'[j] = "running"
  PROVE  status[j] = "running" /\ attempts'[j] = attempts[j]
<1> USE DEF TypeInv, TypeOK, DaemonTypeOK, QueueTypeOK, queueVars
<1>1. ASSUME NEW d \in Daemons, Boot(d) \/ Claim(d)
      PROVE  status[j] = "running" /\ attempts'[j] = attempts[j]
  BY <1>1 DEF Boot, BootCheck, BootAbort, RecoverStaleLocks, RecoverOrphanRunningJobs,
              RecoverOrphans, WritePid, Claim, ClaimSnapshot, SkipCandidate, LockCandidate,
              ClaimVanished
<1>2. ASSUME NEW d \in Daemons, Execute(d)
      PROVE  status[j] = "running" /\ attempts'[j] = attempts[j]
  BY <1>2 DEF Execute, Spawn, SpawnAborted, Finish, FinishCancelled, FinishCompleted,
     FinishFailed, UpdateJob, LockHeartbeat, RequeueRecurring, EnqueueJob, RequeueSkipped,
     ReleaseWorker
<1>3. ASSUME NEW d \in Daemons, Fail(d) \/ Stop(d)
      PROVE  status[j] = "running" /\ attempts'[j] = attempts[j]
  BY <1>3 DEF Fail, SpawnTimeout, FinishTimeout, LifecycleThrows, HandleException, UpdateJob,
     UncaughtTimeout, Crash, Stop, RequestShutdown, FinishShutdown, StopBegin, StopEnd, StopKill
<1>4. ASSUME NEW d \in Daemons, NEW k \in Jobs, Cancel(d, k)
      PROVE  status[j] = "running" /\ attempts'[j] = attempts[j]
  BY <1>4 DEF Cancel, CancelPending, CancelRunning, CancelUnsignalled, UpdateJob
<1>5. CASE Outside
  BY <1>5 DEF Outside, Enqueue, EnqueueJob, Retry, RequestJobRetry, BecomeAvailable, Prune,
              PruneTerminal, ChildExit, DoctorFixSafe
<1> QED
  BY <1>1, <1>2, <1>3, <1>4, <1>5 DEF Next, vars

(* A running job keeps its slot, whatever becomes of the others.           *)
LEMMA RunningTrackedStep ==
  ASSUME "overlap" \notin Faults, TypeInv, AloneInv, SlotInv, [Next]_vars
  PROVE  RunningJobTracked'
<1>0. RunningJobTracked
  BY DEF SlotInv
<1> USE DEF RunningJobTracked, Serving
<1>1. CASE UNCHANGED <<status, attempts, mode, pool, step, focus>>
  BY <1>0, <1>1
<1>2. ASSUME NEW d \in Daemons, Boot(d)
      PROVE  RunningJobTracked'
  BY <1>0, <1>2 DEF Boot, BootCheck, BootAbort, RecoverStaleLocks, RecoverOrphanRunningJobs,
     RecoverOrphans, WritePid, queueVars, TypeInv, TypeOK, QueueTypeOK, DaemonTypeOK
<1> USE DEF TypeInv, TypeOK, DaemonTypeOK, QueueTypeOK
<1>3. ASSUME NEW d \in Daemons, mode[d] # "pid", Live(d), UNCHANGED mode,
             \A e \in Daemons : e # d => ~Live(e),
             \A j \in Jobs : status'[j] = "running" =>
                 \/ [job |-> j, att |-> attempts'[j]] \in pool'[d]
                 \/ step'[d] = "exception" /\ focus'[d].job = j
      PROVE  RunningJobTracked'
  BY <1>3 DEF Live
<1>4. ASSUME NEW d \in Daemons, Claim(d)
      PROVE  RunningJobTracked'
  <2>0. Live(d) /\ \A e \in Daemons : e # d => ~Live(e)
    BY <1>4, WorkerAlone, OthersIdle
  <2>1. CASE ClaimCommit(d)
    <3>1. step[d] = "locked" /\ Serving(d) /\ UNCHANGED mode
      BY <2>1 DEF ClaimCommit, AloneInv, OnlyServingDaemonsWork
    <3>2. PICK run :
            /\ run = [job |-> focus[d].job, att |-> attempts[focus[d].job] + 1]
            /\ run.job \in Jobs
            /\ pool'[d] = pool[d] \cup {run}
      BY <2>1, ClaimFillsFreeProject
    <3>3. MarkRunning(run.job)
      BY <2>1, <3>2 DEF ClaimCommit
    <3>4. ASSUME NEW j \in Jobs, status'[j] = "running"
          PROVE  [job |-> j, att |-> attempts'[j]] \in pool'[d]
      <4>1. CASE j = run.job
        BY <3>2, <3>3, <4>1 DEF MarkRunning
      <4>2. CASE j # run.job
        BY <1>0, <3>1, <3>2, <3>3, <3>4, <4>2 DEF MarkRunning
      <4> QED
        BY <4>1, <4>2
    <3> QED
      BY <1>3, <2>0, <3>1, <3>4
  <2>2. CASE ~ClaimCommit(d)
    <3>1. UNCHANGED <<queueVars, mode, pool>> /\ step[d] # "exception" /\ Serving(d)
      BY <1>4, <2>2 DEF Claim, ClaimSnapshot, SkipCandidate, LockCandidate, ClaimVanished, Free,
                        AloneInv, OnlyServingDaemonsWork
    <3> QED
      BY <1>0, <1>3, <2>0, <3>1 DEF queueVars
  <2> QED
    BY <2>1, <2>2
<1>5. ASSUME NEW d \in Daemons, Execute(d)
      PROVE  RunningJobTracked'
  <2>0. Live(d) /\ \A e \in Daemons : e # d => ~Live(e)
    BY <1>5, WorkerAlone, OthersIdle
  <2>1. /\ UNCHANGED mode /\ Serving(d) /\ step[d] # "exception"
        /\ \A e \in Daemons : ~ClaimCommit(e)
    BY <1>5 DEF Execute, Spawn, SpawnAborted, Finish, FinishCancelled, FinishCompleted,
       FinishFailed, Ended, Free, LockHeartbeat, RequeueRecurring, RequeueSkipped,
       ReleaseWorker, AloneInv, OnlyServingDaemonsWork, ClaimCommit, Goto
  <2>2. \A j \in Jobs : status'[j] = "running" =>
            status[j] = "running" /\ attempts'[j] = attempts[j]
    BY <2>1, OnlyClaimsStart DEF Next
  <2>3. CASE ReleaseWorker(d)
    <3>1. /\ pool'[d] = pool[d] \ {focus[d]}
          /\ status[focus[d].job] # "running"
      BY <2>3 DEF ReleaseWorker, SlotInv, CallbackConsistent
    <3> QED
      BY <1>0, <1>3, <2>0, <2>1, <2>2, <3>1 DEF Live
  <2>4. CASE ~ReleaseWorker(d)
    <3>1. pool' = pool
      BY <1>5, <2>4 DEF Execute, Spawn, SpawnAborted, Finish, FinishCancelled,
         FinishCompleted, FinishFailed, LockHeartbeat, RequeueRecurring, RequeueSkipped
    <3> QED
      BY <1>0, <1>3, <2>0, <2>1, <2>2, <3>1 DEF Live
  <2> QED
    BY <2>3, <2>4
<1>6. ASSUME NEW d \in Daemons, Fail(d)
      PROVE  RunningJobTracked'
  <2>0. Live(d) /\ \A e \in Daemons : e # d => ~Live(e)
    BY <1>6, WorkerAlone, OthersIdle
  <2>1. ASSUME NEW run \in pool[d], LifecycleThrows(d, run), step[d] # "exception"
        PROVE  RunningJobTracked'
    <3>1. /\ UNCHANGED <<mode, status, attempts>> /\ Serving(d)
          /\ pool'[d] = pool[d] \ {run} /\ step'[d] = "exception" /\ focus'[d] = run
      BY <2>1 DEF LifecycleThrows, Goto, queueVars, AloneInv, OnlyServingDaemonsWork
    <3> QED
      BY <1>0, <1>3, <2>0, <2>1, <3>1
  <2>2. CASE SpawnTimeout(d)
    BY <2>1, <2>2 DEF SpawnTimeout, SlotInv, CallbackConsistent
  <2>3. CASE \E run \in pool[d] : FinishTimeout(d, run)
    BY <2>1, <2>3 DEF FinishTimeout, Ended, Free
  <2>4. CASE HandleException(d)
    <3>1. /\ UNCHANGED <<mode, pool>> /\ Serving(d) /\ focus[d].job \in Jobs
          /\ status'[focus[d].job] # "running"
          /\ \A j \in Jobs : j # focus[d].job => status'[j] = status[j]
          /\ attempts' = attempts
      BY <2>4, FocusType DEF HandleException, UpdateJob, InFile, queueVars,
                             AloneInv, OnlyServingDaemonsWork
    <3> QED
      BY <1>0, <1>3, <2>0, <3>1 DEF Live
  <2>5. CASE UncaughtTimeout(d) \/ Crash(d)
    BY <2>0, <2>5 DEF UncaughtTimeout, Crash, Die, Goto, Live
  <2> QED
    BY <1>6, <2>2, <2>3, <2>4, <2>5 DEF Fail
<1>7. ASSUME NEW d \in Daemons, Stop(d)
      PROVE  RunningJobTracked'
  BY <1>0, <1>7 DEF Stop, RequestShutdown, FinishShutdown, StopBegin, StopEnd, StopKill, Die,
                    Goto, queueVars
<1>8. CASE (\E d \in Daemons, j \in Jobs : Cancel(d, j)) \/ Outside
  <2>1. UNCHANGED <<mode, pool, step, focus>> /\ \A d \in Daemons : ~ClaimCommit(d)
    BY <1>8 DEF Cancel, CancelPending, CancelRunning, CancelUnsignalled, Outside, Enqueue, Retry,
                BecomeAvailable, Prune, ChildExit, DoctorFixSafe, daemonVars, ClaimCommit
  <2>2. \A j \in Jobs : status'[j] = "running" =>
            status[j] = "running" /\ attempts'[j] = attempts[j]
    BY <2>1, OnlyClaimsStart
  <2> QED
    BY <1>0, <2>1, <2>2
<1> QED
  BY <1>1, <1>2, <1>4, <1>5, <1>6, <1>7, <1>8 DEF Next, vars, queueVars, daemonVars

-----------------------------------------------------------------------------
(* The theorems.                                                           *)

LEMMA InductiveStep ==
  ASSUME "overlap" \notin Faults, InductiveInvariant, [Next]_vars
  PROVE  InductiveInvariant'
<1>1. TypeInv'
  BY QueueTypeStep, DaemonTypeStep DEF InductiveInvariant, TypeInv, TypeOK, DaemonTypeInv
<1>2. AloneInv'
  BY AloneStep DEF InductiveInvariant
<1>3. SlotInv'
  BY RecordsStep, CallbackStep, CandidatesStep, SlotHoldsLockStep, OneSlotStep,
     SlotMatchesStep, RunningTrackedStep DEF InductiveInvariant, SlotInv
<1> QED
  BY <1>1, <1>2, <1>3 DEF InductiveInvariant

(* Theorem.  A daemon that runs alone keeps the inductive invariant, over  *)
(* crashes, restarts, queue timeouts and children that get no signal.      *)
THEOREM Invariance ==
  ASSUME "overlap" \notin Faults
  PROVE  Spec => []InductiveInvariant
<1>1. Init => InductiveInvariant
  BY TypeInit, AloneInit, SlotInit DEF InductiveInvariant
<1>2. InductiveInvariant /\ [Next]_vars => InductiveInvariant'
  BY InductiveStep
<1> QED
  BY <1>1, <1>2, PTL DEF Spec

(* Theorem.  The lock of a project is held by the slot that works on it:   *)
(* start-up recovery, doctor and heartbeats never take it away, and no     *)
(* claim gets round it, whatever the limit of slots per project.           *)
THEOREM SlotsHoldTheirLocks ==
  ASSUME "overlap" \notin Faults
  PROVE  Spec => []SlotHoldsLock
<1>1. InductiveInvariant => SlotHoldsLock
  BY DEF InductiveInvariant, SlotInv
<1> QED
  BY <1>1, Invariance, PTL

(* Theorem.  Two slots never work on one project.                          *)
THEOREM ProjectsAreExclusive ==
  ASSUME "overlap" \notin Faults
  PROVE  Spec => []OneSlotPerProject
<1>1. InductiveInvariant => OneSlotPerProject
  BY DEF InductiveInvariant, SlotInv
<1> QED
  BY <1>1, Invariance, PTL

(* Theorem.  The claim transaction, which re-reads nothing it decided on,  *)
(* works on candidates that are still pending, due and not cancelled.      *)
THEOREM ClaimsAreFresh ==
  ASSUME "overlap" \notin Faults
  PROVE  Spec => []CandidatesStayClaimable
<1>1. InductiveInvariant => CandidatesStayClaimable
  BY DEF InductiveInvariant, SlotInv
<1> QED
  BY <1>1, Invariance, PTL

(* Theorem.  The record of a job in a slot is the one its worker expects.  *)
THEOREM RecordsMatchSlots ==
  ASSUME "overlap" \notin Faults
  PROVE  Spec => []SlotMatchesRecord
<1>1. InductiveInvariant => SlotMatchesRecord
  BY DEF InductiveInvariant, SlotInv
<1> QED
  BY <1>1, Invariance, PTL

(* Theorem.  A daemon between two callbacks has a worker for every running *)
(* job: none is forgotten by a crash, a timeout or a failed signal.        *)
THEOREM NoRunningJobForgotten ==
  ASSUME "overlap" \notin Faults
  PROVE  Spec => []RunningJobHasWorker
<1>1. InductiveInvariant => RunningJobHasWorker
  BY DEF InductiveInvariant, SlotInv, RunningJobTracked, RunningJobHasWorker, Free
<1> QED
  BY <1>1, Invariance, PTL

-----------------------------------------------------------------------------
(***************************************************************************)
(* The daemon, and everybody who touches its queue, implement the          *)
(* lifecycle of a job that module JobLifecycle promises, as long as one    *)
(* daemon runs at a time.                                                  *)
(***************************************************************************)

(* What the abstract next-state relation asks of one job.                  *)
JobStep(j) ==
  \/ Lifecycle!Start(j)
  \/ (Lifecycle!Move(j) \/ Lifecycle!Stay(j)) /\ attempts'[j] = attempts[j]

LEMMA LifecycleInit == Init => Lifecycle!Init
BY DEF Init, QueueInit, Lifecycle!Init

(* An update of one record is a step of that job and of no other.          *)
LEMMA UpdateIsStep ==
  ASSUME QueueTypeOK, NEW j \in Jobs, NEW s \in Status, NEW c \in BOOLEAN, UpdateJob(j, s, c),
         \/ ~InFile(j)
         \/ status[j] = s
         \/ status[j] = "pending" /\ s = "cancelled"
         \/ status[j] = "running" /\ s \in {"completed", "failed", "cancelling", "failed_cancel"}
         \/ status[j] \in {"cancelling", "failed_cancel"} /\ s = "cancelled"
  PROVE  \A k \in Jobs : JobStep(k)
BY DEF JobStep, UpdateJob, QueueTypeOK, Lifecycle!Move, Lifecycle!To, Lifecycle!Stay

(* Without a change of a record no job moves.                              *)
LEMMA StayIsStep ==
  ASSUME UNCHANGED <<status, attempts>>
  PROVE  \A k \in Jobs : JobStep(k)
BY DEF JobStep, Lifecycle!Stay

(* The settlement of an execution follows the status its slot allows.      *)
LEMMA FinishIsStep ==
  ASSUME InductiveInvariant, NEW d \in Daemons, NEW run \in pool[d], Finish(d, run)
  PROVE  \A k \in Jobs : JobStep(k)
<1>1. /\ QueueTypeOK /\ run.job \in Jobs /\ cancelRequested[run.job] \in BOOLEAN
      /\ {"cancelled", "completed", "failed"} \subseteq Status
  BY SlotType DEF InductiveInvariant, TypeInv, TypeOK, QueueTypeOK, Status, Terminal
<1>2. status[run.job] \in {"running", "cancelling", "failed_cancel", "pruned"}
  BY FinishingStatus
     DEF InductiveInvariant, Finish, FinishCancelled, FinishCompleted, FinishFailed, Active
<1>3. /\ status[run.job] = "running" => ~CancelTone(run.job)
      /\ status[run.job] \in {"cancelling", "failed_cancel"} => CancelTone(run.job)
  BY <1>1 DEF InductiveInvariant, SlotInv, RecordsConsistent, CancelTone, InFile
<1>4. ~InFile(run.job) <=> status[run.job] \in {"absent", "pruned"}
  BY DEF InFile
<1>5. CASE FinishCancelled(d, run)
  BY <1>1, <1>2, <1>3, <1>4, <1>5, UpdateIsStep DEF FinishCancelled
<1>6. CASE FinishCompleted(d, run)
  BY <1>1, <1>2, <1>3, <1>4, <1>6, UpdateIsStep DEF FinishCompleted
<1>7. CASE FinishFailed(d, run)
  BY <1>1, <1>2, <1>3, <1>4, <1>7, UpdateIsStep DEF FinishFailed
<1> QED
  BY <1>5, <1>6, <1>7 DEF Finish

LEMMA EnqueueIsStep ==
  ASSUME QueueTypeOK, NEW j \in Jobs, NEW ready, NEW from, EnqueueJob(j, ready, from)
  PROVE  \A k \in Jobs : JobStep(k)
BY DEF JobStep, EnqueueJob, QueueTypeOK, Lifecycle!Move, Lifecycle!To, Lifecycle!Stay

LEMMA LifecycleStep ==
  ASSUME InductiveInvariant, [Next]_vars
  PROVE  [Lifecycle!Next]_<<status, attempts>>
<1> SUFFICES \A k \in Jobs : JobStep(k)
  BY DEF Lifecycle!Next, JobStep
<1> USE DEF InductiveInvariant, TypeInv, TypeOK
<1>1. CASE UNCHANGED <<status, attempts>>
  BY <1>1, StayIsStep
<1>2. ASSUME NEW d \in Daemons, Boot(d)
      PROVE  \A k \in Jobs : JobStep(k)
  <2>1. CASE RecoverOrphanRunningJobs(d)
    BY <2>1 DEF RecoverOrphanRunningJobs, RecoverOrphans, QueueTypeOK, JobStep,
                Lifecycle!Move, Lifecycle!To, Lifecycle!Stay
  <2>2. CASE ~RecoverOrphanRunningJobs(d)
    BY <1>1, <1>2, <2>2
       DEF Boot, BootCheck, BootAbort, RecoverStaleLocks, WritePid, queueVars
  <2> QED
    BY <2>1, <2>2
<1>3. ASSUME NEW d \in Daemons, Claim(d)
      PROVE  \A k \in Jobs : JobStep(k)
  <2>1. CASE ClaimCommit(d)
    <3>1. PICK j \in Jobs : MarkRunning(j) /\ status[j] = "pending"
      BY <2>1, ClaimFillsFreeProject DEF ClaimCommit, Claimable
    <3>2. attempts[j] < MaxAttempts
      BY <3>1 DEF SlotInv, RecordsConsistent
    <3> QED
      BY <3>1, <3>2 DEF MarkRunning, QueueTypeOK, JobStep, Lifecycle!Start, Lifecycle!To,
                        Lifecycle!Stay
  <2>2. CASE ~ClaimCommit(d)
    BY <1>1, <1>3, <2>2
       DEF Claim, ClaimSnapshot, SkipCandidate, LockCandidate, ClaimVanished, queueVars
  <2> QED
    BY <2>1, <2>2
<1>4. ASSUME NEW d \in Daemons, Execute(d)
      PROVE  \A k \in Jobs : JobStep(k)
  <2>1. CASE SpawnAborted(d)
    BY <2>1, FocusType
       DEF SpawnAborted, CancelTone, SlotInv, CallbackConsistent, RecordsConsistent
  <2>2. CASE \E run \in pool[d] : Finish(d, run)
    BY <2>2, FinishIsStep
  <2>3. CASE RequeueRecurring(d)
    <3>1. PICK k \in FreshSuccessors(focus[d].job) : EnqueueJob(k, FALSE, focus[d].job)
      BY <2>3 DEF RequeueRecurring
    <3> QED
      BY <3>1, EnqueueIsStep, QueueAssumption DEF FreshSuccessors, QueueAssumption
  <2>4. CASE /\ ~SpawnAborted(d) /\ ~RequeueRecurring(d)
             /\ ~\E run \in pool[d] : Finish(d, run)
    BY <1>1, <1>4, <2>4
       DEF Execute, Spawn, LockHeartbeat, RequeueSkipped, ReleaseWorker, queueVars
  <2> QED
    BY <2>1, <2>2, <2>3, <2>4
<1>5. ASSUME NEW d \in Daemons, Fail(d)
      PROVE  \A k \in Jobs : JobStep(k)
  <2>1. CASE HandleException(d) /\ status[focus[d].job] = "running"
    <3>1. focus[d].job \in Jobs /\ cancelRequested[focus[d].job] \in BOOLEAN
      BY <2>1, FocusType DEF HandleException, QueueTypeOK
    <3> QED
      BY <2>1, <3>1, UpdateIsStep DEF HandleException, Status, Terminal
  <2>2. CASE ~(HandleException(d) /\ status[focus[d].job] = "running")
    BY <1>1, <1>5, <2>2
       DEF Fail, SpawnTimeout, FinishTimeout, LifecycleThrows, HandleException,
           UncaughtTimeout, Crash, queueVars
  <2> QED
    BY <2>1, <2>2
<1>6. ASSUME NEW d \in Daemons, NEW j \in Jobs, Cancel(d, j)
      PROVE  \A k \in Jobs : JobStep(k)
  BY <1>6, UpdateIsStep
     DEF Cancel, CancelPending, CancelRunning, CancelUnsignalled, Status, Terminal, Active
<1>7. ASSUME NEW d \in Daemons, Stop(d)
      PROVE  \A k \in Jobs : JobStep(k)
  BY <1>1, <1>7 DEF Stop, RequestShutdown, FinishShutdown, StopBegin, StopEnd, StopKill,
                    queueVars
<1>8. CASE Outside
  <2>1. ASSUME NEW j \in Jobs, NEW ready \in BOOLEAN, Enqueue(j, ready)
        PROVE  \A k \in Jobs : JobStep(k)
    BY <2>1, EnqueueIsStep DEF Enqueue
  <2>2. ASSUME NEW j \in Jobs, NEW ready \in BOOLEAN, Retry(j, ready)
        PROVE  \A k \in Jobs : JobStep(k)
    BY <2>2 DEF Retry, RequestJobRetry, IsRetryable, QueueTypeOK, JobStep, Lifecycle!Move,
                Lifecycle!Retry, Lifecycle!To, Lifecycle!Stay
  <2>3. ASSUME NEW S \in SUBSET Jobs, Prune(S)
        PROVE  \A k \in Jobs : JobStep(k)
    BY <2>3 DEF Prune, PruneTerminal, Prunable, Terminal, QueueTypeOK, JobStep,
                Lifecycle!Move, Lifecycle!To, Lifecycle!Stay
  <2>4. CASE \/ \E j \in Jobs : BecomeAvailable(j)
             \/ \E run \in alive : ChildExit(run)
             \/ DoctorFixSafe
    BY <1>1, <2>4 DEF BecomeAvailable, ChildExit, DoctorFixSafe, queueVars
  <2> QED
    BY <1>8, <2>1, <2>2, <2>3, <2>4 DEF Outside
<1> QED
  BY <1>1, <1>2, <1>3, <1>4, <1>5, <1>6, <1>7, <1>8 DEF Next, vars, queueVars

(* Theorem.  Every behaviour of the daemon and of the processes around it  *)
(* is one that the lifecycle of a job allows: no job is started without an *)
(* attempt being counted, started again while it runs, retried beyond its  *)
(* attempts, or brought back once it is completed or pruned.               *)
THEOREM LifecycleImplemented ==
  ASSUME "overlap" \notin Faults
  PROVE  Spec => ImplementsLifecycle
<1>1. Init => Lifecycle!Init
  BY LifecycleInit
<1>2. InductiveInvariant /\ [Next]_vars => [Lifecycle!Next]_<<status, attempts>>
  BY LifecycleStep
<1> QED
  BY <1>1, <1>2, Invariance, PTL DEF Spec, ImplementsLifecycle, Lifecycle!Spec

-----------------------------------------------------------------------------
(* Children.                                                               *)

(* The child of an execution that is settled is gone, and only a settled   *)
(* execution gives its slot back.                                          *)
LEMMA SupervisionStep ==
  ASSUME Faults \subseteq {"signal"}, InductiveInvariant, AttemptsTellExecutionsApart,
         Supervision, [Next]_vars
  PROVE  Supervision'
<1> USE DEF Supervision, ChildrenSupervised, SettledChildIsGone, Settling,
            InductiveInvariant, TypeInv, TypeOK, DaemonTypeOK
<1>1. ASSUME alive' \subseteq alive,
             \A d \in Daemons : pool[d] \subseteq pool'[d],
             \A d \in Daemons : Settling(d)' => Settling(d) /\ focus'[d] = focus[d]
      PROVE  Supervision'
  BY <1>1
<1>2. ASSUME NEW d \in Daemons, Boot(d) \/ Claim(d)
      PROVE  Supervision'
  <2>1. CASE Boot(d)
    BY <1>1, <2>1 DEF Boot, BootCheck, BootAbort, RecoverStaleLocks, RecoverOrphanRunningJobs,
       WritePid
  <2>2. CASE ClaimCommit(d)
    BY <1>1, <2>2 DEF ClaimCommit
  <2>3. CASE ClaimVanished(d)
    BY <1>1, <2>3 DEF ClaimVanished, NextCandidate
  <2>4. ASSUME NEW j \in Jobs, SkipCandidate(d, j) \/ LockCandidate(d, j)
        PROVE  Supervision'
    BY <1>1, <2>4 DEF SkipCandidate, LockCandidate, NextCandidate
  <2>5. CASE ClaimSnapshot(d)
    BY <1>1, <2>5 DEF ClaimSnapshot
  <2> QED
    BY <1>2, <2>1, <2>2, <2>3, <2>4, <2>5 DEF Claim
<1>3. ASSUME NEW d \in Daemons, Execute(d)
      PROVE  Supervision'
  <2>0. \A e \in Daemons : e # d => pool[e] = {} /\ step[e] = "idle"
    BY <1>3, WorkerAlone
  <2>1. CASE Spawn(d)
    <3>1. focus[d] \in pool[d]
      BY <2>1 DEF Spawn, SlotInv, CallbackConsistent
    <3> QED
      BY <2>0, <2>1, <3>1 DEF Spawn, Goto
  <2>2. CASE SpawnAborted(d)
    <3>1. focus[d] \notin alive
      BY <2>2 DEF SpawnAborted, AttemptsTellExecutionsApart
    <3> QED
      BY <2>0, <2>2, <3>1 DEF SpawnAborted, Goto
  <2>3. CASE \E run \in pool[d] : Finish(d, run)
    BY ZenonT(40), <2>0, <2>3 DEF Finish, FinishCancelled, FinishCompleted, FinishFailed, Ended, Goto
  <2>4. CASE RequeueRecurring(d) \/ RequeueSkipped(d)
    BY <2>0, <2>4 DEF RequeueRecurring, RequeueSkipped, Goto
  <2>5. CASE ReleaseWorker(d)
    BY <2>0, <2>5 DEF ReleaseWorker, Goto
  <2>6. CASE \E run \in pool[d] : LockHeartbeat(d, run)
    BY <1>1, <2>6 DEF LockHeartbeat
  <2> QED
    BY <1>3, <2>1, <2>2, <2>3, <2>4, <2>5, <2>6 DEF Execute
<1>4. ASSUME NEW d \in Daemons, Fail(d) \/ Stop(d)
      PROVE  Supervision'
  <2>1. CASE HandleException(d)
    BY <1>1, <2>1 DEF HandleException, Goto
  <2>2. CASE FinishShutdown(d)
    BY <1>1, <2>2 DEF FinishShutdown, Die, Goto
  <2> QED
    BY <1>1, <1>4, <2>1, <2>2 DEF Fail, SpawnTimeout, FinishTimeout, LifecycleThrows,
       UncaughtTimeout, Crash, Stop, RequestShutdown, StopBegin, StopEnd, StopKill
<1>5. ASSUME NEW d \in Daemons, NEW j \in Jobs, Cancel(d, j)
      PROVE  Supervision'
  BY <1>1, <1>5 DEF Cancel, CancelPending, CancelRunning, CancelUnsignalled, daemonVars
<1>6. CASE Outside
  BY <1>1, <1>6 DEF Outside, Enqueue, Retry, BecomeAvailable, Prune, ChildExit, DoctorFixSafe,
                    daemonVars
<1>7. CASE UNCHANGED vars
  BY <1>1, <1>7 DEF vars, daemonVars
<1> QED
  BY <1>2, <1>3, <1>4, <1>5, <1>6, <1>7 DEF Next

(* Theorem.  Where daemons follow one another, none is killed and no       *)
(* transaction times out, every child process has a daemon that waits for  *)
(* it, clean restarts included.                                            *)
THEOREM ChildrenAreSupervised ==
  ASSUME Faults \subseteq {"signal"}
  PROVE  Spec => []ChildrenSupervised
<1>0. "overlap" \notin Faults
  OBVIOUS
<1>1. Init => Supervision
  BY DEF Init, Supervision, ChildrenSupervised, SettledChildIsGone, Settling
<1>2. InductiveInvariant /\ AttemptsTellExecutionsApart /\ Supervision /\ [Next]_vars
        => Supervision'
  BY SupervisionStep
<1>3. Supervision => ChildrenSupervised
  BY DEF Supervision
<1>4. Spec => []InductiveInvariant
  BY <1>0, Invariance
<1> QED
  BY <1>1, <1>2, <1>3, <1>4, ExecutionsAreDistinct, PTL DEF Spec

(* Theorem.  Under the same assumptions two pipelines never run on one     *)
(* project, whatever the limit of slots per project: each child has its    *)
(* slot, and the slots of a project exclude one another.                   *)
THEOREM ProjectsHaveOneChild ==
  ASSUME Faults \subseteq {"signal"}
  PROVE  Spec => []OneChildPerProject
<1>0. "overlap" \notin Faults
  OBVIOUS
<1>1. ChildrenSupervised /\ OneSlotPerProject => OneChildPerProject
  BY DEF ChildrenSupervised, OneSlotPerProject, OneChildPerProject
<1>2. Spec => []OneSlotPerProject
  BY <1>0, ProjectsAreExclusive
<1> QED
  BY <1>1, <1>2, ChildrenAreSupervised, PTL

-----------------------------------------------------------------------------
(* Cancellations.                                                          *)

(* A job whose cancellation is pending was so before the step, unless the  *)
(* step is the request.                                                    *)
LEMMA OnlyRequestsCancel ==
  ASSUME TypeInv, [Next]_vars, \A d \in Daemons, k \in Jobs : ~CancelRunning(d, k),
         NEW j \in Jobs, status'[j] = "cancelling"
  PROVE  status[j] = "cancelling" /\ attempts'[j] = attempts[j]
<1> USE DEF TypeInv, TypeOK, DaemonTypeOK, QueueTypeOK, queueVars
<1>0. ASSUME NEW d \in Daemons, ClaimCommit(d)
      PROVE  status[j] = "cancelling" /\ attempts'[j] = attempts[j]
  BY <1>0, FocusType DEF ClaimCommit, MarkRunning
<1>1. ASSUME NEW d \in Daemons, Boot(d) \/ Claim(d)
      PROVE  status[j] = "cancelling" /\ attempts'[j] = attempts[j]
  BY <1>0, <1>1 DEF Boot, BootCheck, BootAbort, RecoverStaleLocks, RecoverOrphanRunningJobs,
     RecoverOrphans, WritePid, Claim, ClaimSnapshot, SkipCandidate, LockCandidate, ClaimVanished
<1>2. ASSUME NEW d \in Daemons, Execute(d)
      PROVE  status[j] = "cancelling" /\ attempts'[j] = attempts[j]
  BY <1>2 DEF Execute, Spawn, SpawnAborted, Finish, FinishCancelled, FinishCompleted,
     FinishFailed, UpdateJob, LockHeartbeat, RequeueRecurring, EnqueueJob, RequeueSkipped,
     ReleaseWorker
<1>3. ASSUME NEW d \in Daemons, Fail(d) \/ Stop(d)
      PROVE  status[j] = "cancelling" /\ attempts'[j] = attempts[j]
  BY <1>3 DEF Fail, SpawnTimeout, FinishTimeout, LifecycleThrows, HandleException, UpdateJob,
     UncaughtTimeout, Crash, Stop, RequestShutdown, FinishShutdown, StopBegin, StopEnd, StopKill
<1>4. ASSUME NEW d \in Daemons, NEW k \in Jobs, Cancel(d, k)
      PROVE  status[j] = "cancelling" /\ attempts'[j] = attempts[j]
  BY <1>4 DEF Cancel, CancelPending, CancelUnsignalled, UpdateJob
<1>5. CASE Outside
  BY <1>5 DEF Outside, Enqueue, EnqueueJob, Retry, RequestJobRetry, BecomeAvailable, Prune,
              PruneTerminal, ChildExit, DoctorFixSafe
<1> QED
  BY <1>1, <1>2, <1>3, <1>4, <1>5 DEF Next, vars

(* A settled execution leaves its job in another status.                   *)
LEMMA SettledIsNotCancelling ==
  ASSUME TypeInv, NEW d \in Daemons,
         SpawnAborted(d) \/ \E run \in pool[d] : Finish(d, run)
  PROVE  status'[focus'[d].job] # "cancelling"
<1> USE DEF TypeInv, TypeOK, DaemonTypeOK, QueueTypeOK, UpdateJob, InFile, Goto
<1>1. CASE SpawnAborted(d)
  BY <1>1, FocusType DEF SpawnAborted
<1>2. ASSUME NEW run \in pool[d], Finish(d, run)
      PROVE  status'[focus'[d].job] # "cancelling"
  <2>1. run.job \in Jobs /\ focus'[d] = run
    BY <1>2 DEF Finish, FinishCancelled, FinishCompleted, FinishFailed, Runs
  <2> QED
    BY <1>2, <2>1 DEF Finish, FinishCancelled, FinishCompleted, FinishFailed
<1> QED
  BY <1>1, <1>2

LEMMA CancellingStep ==
  ASSUME {"overlap", "timeout"} \cap Faults = {}, InductiveInvariant, CancellingJobTracked,
         [Next]_vars
  PROVE  CancellingJobTracked'
<1> USE DEF InductiveInvariant, TypeInv, TypeOK, DaemonTypeOK, CancellingJobTracked, Serving,
            Settling
<1>0. ASSUME NEW d \in Daemons, NEW k \in Jobs, CancelRunning(d, k)
      PROVE  CancellingJobTracked'
  <2>1. Free(d) /\ status[k] = "running" /\ UNCHANGED <<mode, step, focus, pool, attempts>>
    BY <1>0 DEF CancelRunning, UpdateJob, daemonVars
  <2>2. \A j \in Jobs : status'[j] = "cancelling" => status[j] = "cancelling" \/ j = k
    BY <1>0 DEF CancelRunning, UpdateJob, QueueTypeOK
  <2>3. [job |-> k, att |-> attempts[k]] \in pool[d]
    BY <2>1 DEF SlotInv, RunningJobTracked, Free
  <2>4. \A e \in Daemons : e # d => ~Live(e) /\ step[e] = "idle"
    BY <2>1, OthersIdle DEF Free, Live
  <2> QED
    BY <2>1, <2>2, <2>3, <2>4 DEF Free, Live
<1>1. ASSUME NEW d \in Daemons, RecoverOrphanRunningJobs(d)
      PROVE  CancellingJobTracked'
  BY <1>1 DEF RecoverOrphanRunningJobs, RecoverOrphans, QueueTypeOK
<1>2. ASSUME \A d \in Daemons, k \in Jobs : ~CancelRunning(d, k),
             \A d \in Daemons : ~RecoverOrphanRunningJobs(d)
      PROVE  CancellingJobTracked'
  <2>0. \A j \in Jobs : status'[j] = "cancelling" =>
            status[j] = "cancelling" /\ attempts'[j] = attempts[j]
    BY <1>2, OnlyRequestsCancel
  <2>1. ASSUME \A d \in Daemons : mode'[d] = "pid" => mode[d] = "pid",
               \A d \in Daemons :
                 Serving(d)' => mode[d] = "pid" \/ (Serving(d) /\ pool[d] \subseteq pool'[d]),
               \A d \in Daemons : Settling(d)' => Settling(d) /\ focus'[d] = focus[d]
        PROVE  CancellingJobTracked'
    BY <2>0, <2>1
  <2>2. ASSUME NEW d \in Daemons, Boot(d) \/ Claim(d)
        PROVE  CancellingJobTracked'
    <3>1. CASE Boot(d)
      BY <1>2, <2>1, <3>1 DEF Boot, BootCheck, BootAbort, RecoverStaleLocks, WritePid
    <3>2. CASE ClaimCommit(d)
      BY <2>1, <3>2 DEF ClaimCommit
    <3>3. CASE ClaimVanished(d)
      BY <2>1, <3>3 DEF ClaimVanished, NextCandidate
    <3>4. ASSUME NEW j \in Jobs, SkipCandidate(d, j) \/ LockCandidate(d, j)
          PROVE  CancellingJobTracked'
      BY <2>1, <3>4 DEF SkipCandidate, LockCandidate, NextCandidate
    <3>5. CASE ClaimSnapshot(d)
      BY <2>1, <3>5 DEF ClaimSnapshot
    <3> QED
      BY <2>2, <3>1, <3>2, <3>3, <3>4, <3>5 DEF Claim
  <2>3. ASSUME NEW d \in Daemons, Execute(d)
        PROVE  CancellingJobTracked'
    <3>1. CASE SpawnAborted(d) \/ \E run \in pool[d] : Finish(d, run)
      <4>1. status'[focus'[d].job] # "cancelling"
        BY <3>1, SettledIsNotCancelling
      <4>2. /\ UNCHANGED <<mode, pool>>
            /\ \A e \in Daemons : e # d => step'[e] = step[e] /\ focus'[e] = focus[e]
        BY <3>1 DEF SpawnAborted, Finish, FinishCancelled, FinishCompleted, FinishFailed, Goto
      <4> QED
        BY <2>0, <4>1, <4>2
    <3>2. CASE ReleaseWorker(d)
      BY <2>0, <3>2 DEF ReleaseWorker, Goto
    <3>3. CASE Spawn(d) \/ RequeueRecurring(d) \/ RequeueSkipped(d)
      BY ZenonT(40), <2>1, <3>3 DEF Spawn, RequeueRecurring, RequeueSkipped, Goto
    <3>4. CASE \E run \in pool[d] : LockHeartbeat(d, run)
      BY <2>1, <3>4 DEF LockHeartbeat
    <3> QED
      BY <2>3, <3>1, <3>2, <3>3, <3>4 DEF Execute
  <2>4. ASSUME NEW d \in Daemons, Fail(d) \/ Stop(d)
        PROVE  CancellingJobTracked'
    BY <2>1, <2>4 DEF Fail, SpawnTimeout, FinishTimeout, LifecycleThrows, HandleException,
       UncaughtTimeout, Crash, Stop, RequestShutdown, FinishShutdown, StopBegin, StopEnd,
       StopKill, Free, Die, Goto
  <2>5. CASE (\E d \in Daemons, k \in Jobs : Cancel(d, k)) \/ Outside \/ UNCHANGED vars
    BY <2>1, <2>5 DEF Cancel, CancelPending, CancelRunning, CancelUnsignalled, Outside, Enqueue,
       Retry, BecomeAvailable, Prune, ChildExit, DoctorFixSafe, vars, daemonVars
  <2> QED
    BY <2>2, <2>3, <2>4, <2>5 DEF Next
<1> QED
  BY <1>0, <1>1, <1>2

(* Theorem.  Where daemons follow one another and no transaction times     *)
(* out, a job whose cancellation is pending has the worker that will       *)
(* finish it, over crashes, restarts and recoveries.                       *)
THEOREM CancellationsHaveWorkers ==
  ASSUME {"overlap", "timeout"} \cap Faults = {}
  PROVE  Spec => []CancellingJobHasWorker
<1>0. "overlap" \notin Faults
  OBVIOUS
<1>1. Init => CancellingJobTracked
  BY DEF Init, QueueInit, CancellingJobTracked
<1>2. InductiveInvariant /\ CancellingJobTracked /\ [Next]_vars => CancellingJobTracked'
  BY CancellingStep
<1>3. CancellingJobTracked => CancellingJobHasWorker
  BY DEF CancellingJobTracked, CancellingJobHasWorker, Free
<1>4. Spec => []InductiveInvariant
  BY <1>0, Invariance
<1> QED
  BY <1>1, <1>2, <1>3, <1>4, PTL DEF Spec

-----------------------------------------------------------------------------
(* Recurring jobs.                                                         *)

LEMMA RecurrenceStep ==
  ASSUME {"crash", "timeout"} \cap Faults = {}, TypeInv, Recurrence, [Next]_vars
  PROVE  Recurrence'
<1> USE DEF Recurrence, RecurrenceContinues, AbsentHasNoOrigin, FreshSuccessors, SameProject,
            TypeInv, TypeOK, DaemonTypeOK, QueueTypeOK
<1>a. Recurring \subseteq Jobs /\ None \notin Jobs
  BY QueueAssumption DEF QueueAssumption
<1>1. ASSUME \A j \in Jobs : status'[j] = "completed" => status[j] = "completed",
             \A k \in Jobs : status'[k] = "absent" => status[k] = "absent",
             UNCHANGED derivedFrom,
             \A d \in Daemons : step[d] = "requeue" => step'[d] = "requeue" /\ focus'[d] = focus[d]
      PROVE  Recurrence'
  BY <1>1, <1>a
<1>2. ASSUME NEW d \in Daemons, Boot(d) \/ Claim(d)
      PROVE  Recurrence'
  <2>1. CASE ClaimCommit(d)
    BY <1>1, <2>1 DEF ClaimCommit, MarkRunning
  <2>2. CASE RecoverOrphanRunningJobs(d)
    BY <1>1, <2>2 DEF RecoverOrphanRunningJobs, RecoverOrphans
  <2> QED
    BY ZenonT(40), <1>1, <1>2, <2>1, <2>2 DEF Boot, BootCheck, BootAbort, RecoverStaleLocks, WritePid,
       Claim, ClaimSnapshot, SkipCandidate, LockCandidate, ClaimVanished, NextCandidate,
       Free, queueVars
<1>3. ASSUME NEW d \in Daemons, Execute(d)
      PROVE  Recurrence'
  <2>1. CASE Spawn(d) \/ ReleaseWorker(d)
    BY <1>1, <2>1 DEF Spawn, ReleaseWorker, Goto, queueVars
  <2>2. CASE SpawnAborted(d)
    BY <1>1, <2>2 DEF SpawnAborted, UpdateJob, InFile, Goto
  <2>3. ASSUME NEW run \in pool[d], FinishCancelled(d, run) \/ FinishFailed(d, run)
        PROVE  Recurrence'
    BY <1>1, <2>3 DEF FinishCancelled, FinishFailed, UpdateJob, InFile, Ended, Free, Goto
  <2>4. ASSUME NEW run \in pool[d], FinishCompleted(d, run)
        PROVE  Recurrence'
    <3>1. run.job \in Jobs /\ step[d] = "idle" /\ UNCHANGED derivedFrom
      BY <2>4 DEF FinishCompleted, UpdateJob, Ended, Free, Runs
    <3>2. CASE run.job \in Recurring /\ InFile(run.job)
      <4>1. /\ step'[d] = "requeue" /\ focus'[d] = run
            /\ \A e \in Daemons : e # d => step'[e] = step[e] /\ focus'[e] = focus[e]
            /\ status' = [status EXCEPT ![run.job] = "completed"]
        BY <2>4, <3>2 DEF FinishCompleted, UpdateJob, Goto
      <4> QED
        BY <1>a, <3>1, <4>1
    <3>3. CASE ~(run.job \in Recurring /\ InFile(run.job))
      <4>1. /\ \A e \in Daemons : e # d => step'[e] = step[e] /\ focus'[e] = focus[e]
            /\ \A j \in Recurring : status'[j] = status[j]
            /\ \A j \in Jobs : status'[j] = "absent" => status[j] = "absent"
        BY <1>a, <2>4, <3>3 DEF FinishCompleted, UpdateJob, Goto
      <4> QED
        BY <1>a, <3>1, <4>1
    <3> QED
      BY <3>2, <3>3
  <2>5. CASE RequeueRecurring(d)
    <3>1. PICK k \in FreshSuccessors(focus[d].job) : EnqueueJob(k, FALSE, focus[d].job)
      BY <2>5 DEF RequeueRecurring
    <3>2. /\ k \in Jobs /\ derivedFrom' = [derivedFrom EXCEPT ![k] = focus[d].job]
          /\ status[k] = "absent" /\ status' = [status EXCEPT ![k] = "pending"]
      BY <1>a, <3>1 DEF EnqueueJob
    <3>3. \A e \in Daemons : e # d => step'[e] = step[e] /\ focus'[e] = focus[e]
      BY <2>5 DEF RequeueRecurring, Goto
    <3>4. AbsentHasNoOrigin'
      BY <3>2
    <3>5. ASSUME NEW j \in Recurring, status'[j] = "completed"
          PROVE  \/ \E i \in Jobs : derivedFrom'[i] = j
                 \/ \E e \in Daemons : step'[e] = "requeue" /\ focus'[e].job = j
                 \/ FreshSuccessors(j)' = {}
      <4>1. status[j] = "completed" /\ j \in Jobs
        BY <1>a, <3>2, <3>5
      <4>2. CASE focus[d].job = j
        BY <3>2, <4>2
      <4>3. CASE focus[d].job # j
        <5>1. CASE \E i \in Jobs : derivedFrom[i] = j
          BY <1>a, <3>2, <4>1, <5>1
        <5>2. CASE \E e \in Daemons : step[e] = "requeue" /\ focus[e].job = j
          BY <3>3, <4>3, <5>2
        <5>3. CASE FreshSuccessors(j) = {}
          BY <1>a, <3>2, <5>3
        <5> QED
          BY <4>1, <5>1, <5>2, <5>3
      <4> QED
        BY <4>2, <4>3
    <3> QED
      BY <3>4, <3>5
  <2>6. CASE RequeueSkipped(d)
    <3>1. ~InFile(focus[d].job) \/ FreshSuccessors(focus[d].job) = {}
      BY <2>6 DEF RequeueSkipped
    <3>2. /\ UNCHANGED <<status, derivedFrom>>
          /\ \A e \in Daemons : e # d => step'[e] = step[e] /\ focus'[e] = focus[e]
      BY <2>6 DEF RequeueSkipped, Goto, queueVars
    <3> QED
      BY <3>1, <3>2 DEF InFile
  <2>7. CASE \E run \in pool[d] : LockHeartbeat(d, run)
    BY <1>1, <2>7 DEF LockHeartbeat, queueVars
  <2> QED
    BY <1>3, <2>1, <2>2, <2>3, <2>4, <2>5, <2>6, <2>7 DEF Execute, Finish
<1>4. ASSUME NEW d \in Daemons, Fail(d) \/ Stop(d)
      PROVE  Recurrence'
  <2>1. CASE HandleException(d)
    BY <1>1, <2>1 DEF HandleException, UpdateJob, InFile, Goto, queueVars
  <2>2. CASE FinishShutdown(d)
    BY <1>1, <2>2 DEF FinishShutdown, Free, Die, Goto, queueVars
  <2> QED
    BY <1>1, <1>4, <2>1, <2>2 DEF Fail, SpawnTimeout, FinishTimeout, LifecycleThrows,
       UncaughtTimeout, Crash, Stop, RequestShutdown, StopBegin, StopEnd, StopKill, queueVars
<1>5. ASSUME NEW d \in Daemons, NEW j \in Jobs, Cancel(d, j)
      PROVE  Recurrence'
  BY <1>1, <1>5 DEF Cancel, CancelPending, CancelRunning, CancelUnsignalled, UpdateJob, InFile,
                    daemonVars
<1>6. CASE Outside
  <2>1. ASSUME NEW j \in Jobs, NEW ready \in BOOLEAN, Enqueue(j, ready)
        PROVE  Recurrence'
    <3>1. /\ status[j] = "absent" /\ status' = [status EXCEPT ![j] = "pending"]
          /\ derivedFrom' = [derivedFrom EXCEPT ![j] = None] /\ UNCHANGED <<step, focus>>
      BY <2>1 DEF Enqueue, EnqueueJob, daemonVars
    <3>2. derivedFrom' = derivedFrom
      BY <3>1
    <3> QED
      BY <1>1, <3>1, <3>2
  <2>2. ASSUME NEW j \in Jobs, NEW ready \in BOOLEAN, Retry(j, ready)
        PROVE  Recurrence'
    BY <1>1, <2>2 DEF Retry, RequestJobRetry, daemonVars
  <2>3. ASSUME NEW S \in SUBSET Jobs, Prune(S)
        PROVE  Recurrence'
    BY <1>1, <2>3 DEF Prune, PruneTerminal, daemonVars
  <2>4. ASSUME NEW j \in Jobs, BecomeAvailable(j)
        PROVE  Recurrence'
    BY <1>1, <2>4 DEF BecomeAvailable, daemonVars
  <2>5. ASSUME NEW run \in alive, ChildExit(run)
        PROVE  Recurrence'
    BY <1>1, <2>5 DEF ChildExit, queueVars
  <2>6. CASE DoctorFixSafe
    BY <1>1, <2>6 DEF DoctorFixSafe, queueVars
  <2> QED
    BY <1>6, <2>1, <2>2, <2>3, <2>4, <2>5, <2>6 DEF Outside
<1>7. CASE UNCHANGED vars
  BY <1>1, <1>7 DEF vars, queueVars, daemonVars
<1> QED
  BY <1>2, <1>3, <1>4, <1>5, <1>6, <1>7 DEF Next

(* Theorem.  Where no daemon is killed and no transaction times out, a     *)
(* completed recurring job has its successor, whoever retries, prunes or   *)
(* enqueues meanwhile and however many daemons there are.                  *)
THEOREM RecurringJobsContinue ==
  ASSUME {"crash", "timeout"} \cap Faults = {}
  PROVE  Spec => []RecurrenceContinues
<1>1. Init => Recurrence
  BY QueueAssumption DEF Init, QueueInit, Recurrence, RecurrenceContinues, AbsentHasNoOrigin
<1>2. TypeInv /\ Recurrence /\ [Next]_vars => Recurrence'
  BY RecurrenceStep
<1>3. Recurrence => RecurrenceContinues
  BY DEF Recurrence
<1>4. TypeInv /\ [Next]_vars => TypeInv'
  BY QueueTypeStep, DaemonTypeStep DEF TypeInv, TypeOK, DaemonTypeInv
<1> QED
  BY <1>1, <1>2, <1>3, <1>4, TypeInit, PTL DEF Spec
=============================================================================
