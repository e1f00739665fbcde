-------------------------- MODULE ProjectLockProofs --------------------------
(***************************************************************************)
(* The project lock excludes as long as no live lock is overwritten unread *)
(* and a process that lets go of a project never leaves its lock behind:   *)
(* for every set of processes and any crashes.                             *)
(***************************************************************************)
EXTENDS ProjectLock, TLAPS

(* Every step keeps the types.                                             *)
LEMMA LockTypeStep == TypeOK /\ [Next]_lockVars => TypeOK'
<1> SUFFICES ASSUME TypeOK, [Next]_lockVars PROVE TypeOK'
  OBVIOUS
<1> USE DEF TypeOK, Place, Holding, Goto
<1>1. CASE UNCHANGED lockVars
  BY <1>1 DEF lockVars
<1>2. ASSUME NEW p \in Procs, AcquireRead(p) PROVE TypeOK'
  BY <1>2 DEF AcquireRead, Read
<1>3. ASSUME NEW p \in Procs, AcquireDecide(p) PROVE TypeOK'
  BY <1>3 DEF AcquireDecide
<1>4. ASSUME NEW p \in Procs, AcquireWrite(p) PROVE TypeOK'
  BY <1>4 DEF AcquireWrite, Replace
<1>5. ASSUME NEW p \in Procs, HeartbeatRead(p) PROVE TypeOK'
  BY <1>5 DEF HeartbeatRead, Read
<1>6. ASSUME NEW p \in Procs, HeartbeatWrite(p) PROVE TypeOK'
  BY <1>6 DEF HeartbeatWrite, Replace
<1>7. ASSUME NEW p \in Procs, ReleaseRead(p) PROVE TypeOK'
  BY <1>7 DEF ReleaseRead, Read
<1>8. ASSUME NEW p \in Procs, ReleaseUnlink(p) PROVE TypeOK'
  BY <1>8 DEF ReleaseUnlink, Replace
<1>9. ASSUME NEW p \in Procs, SweepRead(p) PROVE TypeOK'
  BY <1>9 DEF SweepRead, Read
<1>10. ASSUME NEW p \in Procs, SweepUnlink(p) PROVE TypeOK'
  BY <1>10 DEF SweepUnlink, Replace
<1>11. ASSUME NEW p \in Procs, Crash(p) PROVE TypeOK'
  BY <1>11 DEF Crash
<1> QED
  BY <1>1, <1>2, <1>3, <1>4, <1>5, <1>6, <1>7, <1>8, <1>9, <1>10, <1>11
     DEF Next, Acquire, Heartbeat, Release, Sweep

(* The state is always well typed.                                         *)
THEOREM LockTypeCorrect == Spec => []TypeOK
<1>1. Init => TypeOK
  BY DEF Init, TypeOK, Place
<1> QED
  BY <1>1, LockTypeStep, PTL DEF Spec

-----------------------------------------------------------------------------
(* A holder that decided to unlink its lock is still in the file, unless   *)
(* another process has put its own there.                                  *)
LEMMA NoLeakStep == TypeOK /\ NoLockLeaks /\ [Next]_lockVars => NoLockLeaks'
<1> SUFFICES ASSUME TypeOK, NoLockLeaks, [Next]_lockVars PROVE NoLockLeaks'
  OBVIOUS
<1> USE LockAssumption DEF TypeOK, NoLockLeaks, Holding, Alive, Goto
<1>1. CASE UNCHANGED lockVars
  BY <1>1 DEF lockVars
<1>2. ASSUME NEW p \in Procs, AcquireRead(p) PROVE NoLockLeaks'
  BY <1>2 DEF AcquireRead, Read
<1>3. ASSUME NEW p \in Procs, AcquireDecide(p) PROVE NoLockLeaks'
  BY <1>3 DEF AcquireDecide
<1>4. ASSUME NEW p \in Procs, AcquireWrite(p) PROVE NoLockLeaks'
  BY <1>4 DEF AcquireWrite, Replace
<1>5. ASSUME NEW p \in Procs, HeartbeatRead(p) PROVE NoLockLeaks'
  BY <1>5 DEF HeartbeatRead, Read
<1>6. ASSUME NEW p \in Procs, HeartbeatWrite(p) PROVE NoLockLeaks'
  BY <1>6 DEF HeartbeatWrite, Replace
<1>7. ASSUME NEW p \in Procs, ReleaseRead(p) PROVE NoLockLeaks'
  BY <1>7 DEF ReleaseRead, Read
<1>8. ASSUME NEW p \in Procs, ReleaseUnlink(p) PROVE NoLockLeaks'
  BY <1>8 DEF ReleaseUnlink, Replace
<1>9. ASSUME NEW p \in Procs, SweepRead(p) PROVE NoLockLeaks'
  BY <1>9 DEF SweepRead, Read
<1>10. ASSUME NEW p \in Procs, SweepUnlink(p) PROVE NoLockLeaks'
  BY <1>10 DEF SweepUnlink, Replace
<1>11. ASSUME NEW p \in Procs, Crash(p) PROVE NoLockLeaks'
  BY <1>11 DEF Crash
<1> QED
  BY <1>1, <1>2, <1>3, <1>4, <1>5, <1>6, <1>7, <1>8, <1>9, <1>10, <1>11
     DEF Next, Acquire, Heartbeat, Release, Sweep

(* Only a crash leaves a lock without its holder.                          *)
THEOREM LocksNeverLeak == Spec => []NoLockLeaks
<1>1. Init => NoLockLeaks
  BY DEF Init, NoLockLeaks
<1> QED
  BY <1>1, NoLeakStep, LockTypeCorrect, PTL DEF Spec

-----------------------------------------------------------------------------
(* Why the lock excludes as long as nothing raced: the file names whoever  *)
(* works on the project.                                                   *)
HolderIsInFile == ~raced => \A p \in Procs : pc[p] \in Holding => file = p

(* A write, or a removal, that is not flagged leaves nobody behind.        *)
LEMMA ReplaceStep ==
  ASSUME TypeOK, HolderIsInFile, ~raced', NEW p \in Procs, NEW content, Replace(p, content),
         file # None => file = p \/ IsStale(seen[p])
  PROVE  ~raced /\ \A q \in Procs : q # p => pc[q] \notin Holding
<1>1. file # None /\ file # p /\ Alive(file) /\ file # seen[p] => raced'
  BY DEF Replace
<1>2. ~raced
  BY <1>1 DEF Replace
<1>3. file = None \/ file = p \/ ~Alive(file)
  <2>1. file # None /\ file # p /\ Alive(file) => file = seen[p]
    BY <1>1
  <2> QED
    BY <2>1 DEF IsStale
<1> QED
  BY <1>2, <1>3, LockAssumption DEF HolderIsInFile, Alive, Holding

(* A process that is about to take the lock has read no live one.          *)
MayReplace == \A p \in Procs : pc[p] = "write" => IsStale(seen[p])

LEMMA MayReplaceStep == TypeOK /\ MayReplace /\ [Next]_lockVars => MayReplace'
<1> SUFFICES ASSUME TypeOK, MayReplace, [Next]_lockVars PROVE MayReplace'
  OBVIOUS
<1> USE LockAssumption DEF TypeOK, MayReplace, IsStale, Alive, Goto
<1>1. CASE UNCHANGED lockVars
  BY <1>1 DEF lockVars
<1>2. ASSUME NEW p \in Procs, AcquireRead(p) PROVE MayReplace'
  BY <1>2 DEF AcquireRead, Read
<1>3. ASSUME NEW p \in Procs, AcquireDecide(p) PROVE MayReplace'
  BY <1>3 DEF AcquireDecide
<1>4. ASSUME NEW p \in Procs, AcquireWrite(p) PROVE MayReplace'
  BY <1>4 DEF AcquireWrite, Replace
<1>5. ASSUME NEW p \in Procs, HeartbeatRead(p) PROVE MayReplace'
  BY <1>5 DEF HeartbeatRead, Read
<1>6. ASSUME NEW p \in Procs, HeartbeatWrite(p) PROVE MayReplace'
  BY <1>6 DEF HeartbeatWrite, Replace
<1>7. ASSUME NEW p \in Procs, ReleaseRead(p) PROVE MayReplace'
  BY <1>7 DEF ReleaseRead, Read
<1>8. ASSUME NEW p \in Procs, ReleaseUnlink(p) PROVE MayReplace'
  BY <1>8 DEF ReleaseUnlink, Replace
<1>9. ASSUME NEW p \in Procs, SweepRead(p) PROVE MayReplace'
  BY <1>9 DEF SweepRead, Read
<1>10. ASSUME NEW p \in Procs, SweepUnlink(p) PROVE MayReplace'
  BY <1>10 DEF SweepUnlink, Replace
<1>11. ASSUME NEW p \in Procs, Crash(p) PROVE MayReplace'
  BY <1>11 DEF Crash
<1> QED
  BY <1>1, <1>2, <1>3, <1>4, <1>5, <1>6, <1>7, <1>8, <1>9, <1>10, <1>11
     DEF Next, Acquire, Heartbeat, Release, Sweep

LEMMA HolderStep ==
  TypeOK /\ MayReplace /\ HolderIsInFile /\ [Next]_lockVars => HolderIsInFile'
<1> SUFFICES ASSUME TypeOK, MayReplace, HolderIsInFile, [Next]_lockVars, ~raced'
             PROVE  \A q \in Procs : pc'[q] \in Holding => file' = q
  BY DEF HolderIsInFile
<1> DEFINE Goal == \A q \in Procs : pc'[q] \in Holding => file' = q
<1> USE DEF Goto
<1>1. CASE UNCHANGED lockVars
  BY <1>1 DEF lockVars, HolderIsInFile
<1>2. ASSUME NEW p \in Procs, AcquireRead(p) PROVE Goal
  BY <1>2 DEF AcquireRead, Read, TypeOK, HolderIsInFile, Holding
<1>3. ASSUME NEW p \in Procs, AcquireDecide(p) PROVE Goal
  BY <1>3 DEF AcquireDecide, TypeOK, HolderIsInFile, Holding
<1>4. ASSUME NEW p \in Procs, AcquireWrite(p) PROVE Goal
  <2>1. Replace(p, p)
    BY <1>4 DEF AcquireWrite
  <2>2. file # None => file = p \/ IsStale(seen[p])
    BY <1>4 DEF AcquireWrite, MayReplace
  <2>3. \A q \in Procs : q # p => pc[q] \notin Holding
    BY <2>1, <2>2, ReplaceStep
  <2> QED
    BY <1>4, <2>1, <2>3 DEF AcquireWrite, Replace, TypeOK, Holding
<1>5. ASSUME NEW p \in Procs, HeartbeatRead(p) PROVE Goal
  BY <1>5 DEF HeartbeatRead, Read, TypeOK, HolderIsInFile, Holding
<1>6. ASSUME NEW p \in Procs, HeartbeatWrite(p) PROVE Goal
  <2>1. Replace(p, p)
    BY <1>6 DEF HeartbeatWrite
  <2>2. file # None => file = p \/ IsStale(seen[p])
    <3>1. ~raced => file = p
      BY <1>6 DEF HeartbeatWrite, HolderIsInFile, Holding
    <3>2. raced => raced'
      BY <2>1 DEF Replace
    <3> QED
      BY <3>1, <3>2
  <2>3. \A q \in Procs : q # p => pc[q] \notin Holding
    BY <2>1, <2>2, ReplaceStep
  <2> QED
    BY <1>6, <2>1, <2>3 DEF HeartbeatWrite, Replace, TypeOK, Holding
<1>7. ASSUME NEW p \in Procs, ReleaseRead(p) PROVE Goal
  BY <1>7 DEF ReleaseRead, Read, TypeOK, HolderIsInFile, Holding
<1>8. ASSUME NEW p \in Procs, ReleaseUnlink(p) PROVE Goal
  <2>1. Replace(p, None)
    BY <1>8 DEF ReleaseUnlink
  <2>2. file # None => file = p \/ IsStale(seen[p])
    <3>1. ~raced => file = p
      BY <1>8 DEF ReleaseUnlink, HolderIsInFile, Holding
    <3>2. raced => raced'
      BY <2>1 DEF Replace
    <3> QED
      BY <3>1, <3>2
  <2>3. \A q \in Procs : q # p => pc[q] \notin Holding
    BY <2>1, <2>2, ReplaceStep
  <2> QED
    BY <1>8, <2>1, <2>3 DEF ReleaseUnlink, Replace, TypeOK, Holding
<1>9. ASSUME NEW p \in Procs, SweepRead(p) PROVE Goal
  BY <1>9 DEF SweepRead, Read, TypeOK, HolderIsInFile, Holding
<1>10. ASSUME NEW p \in Procs, SweepUnlink(p) PROVE Goal
  <2>1. CASE IsStale(seen[p])
    <3>1. Replace(p, None) /\ \A q \in Procs : q # p => pc[q] \notin Holding
      BY <1>10, <2>1, ReplaceStep DEF SweepUnlink
    <3> QED
      BY <1>10, <3>1 DEF SweepUnlink, TypeOK, Holding
  <2>2. CASE ~IsStale(seen[p])
    BY <1>10, <2>2 DEF SweepUnlink, TypeOK, HolderIsInFile, Holding
  <2> QED
    BY <2>1, <2>2
<1>11. ASSUME NEW p \in Procs, Crash(p) PROVE Goal
  BY <1>11 DEF Crash, TypeOK, HolderIsInFile, Holding
<1> QED
  BY <1>1, <1>2, <1>3, <1>4, <1>5, <1>6, <1>7, <1>8, <1>9, <1>10, <1>11
     DEF Next, Acquire, Heartbeat, Release, Sweep

(* Exclusion can only be lost by overwriting a live lock unread.           *)
THEOREM LockExcludes == Spec => []ExclusiveUnlessRaced
<1>1. Init => MayReplace /\ HolderIsInFile
  BY DEF Init, MayReplace, HolderIsInFile, Holding
<1>2. HolderIsInFile => ExclusiveUnlessRaced
  BY DEF HolderIsInFile, ExclusiveUnlessRaced, Exclusive
<1> QED
  BY <1>1, <1>2, LockTypeCorrect, MayReplaceStep, HolderStep, PTL DEF Spec

=============================================================================
