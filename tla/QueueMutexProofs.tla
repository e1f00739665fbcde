-------------------------- MODULE QueueMutexProofs --------------------------
(***************************************************************************)
(* The queue mutex excludes, and loses no update, as long as no lock is    *)
(* stolen: for every set of processes and any number of transactions and   *)
(* crashes.                                                                *)
(***************************************************************************)
EXTENDS QueueMutexInv, TLAPS

(* Every step keeps the types.                                             *)
LEMMA TypeStep == TypeOK /\ [Next]_mutexVars => TypeOK'
<1> SUFFICES ASSUME TypeOK, [Next]_mutexVars PROVE TypeOK'
  OBVIOUS
<1> USE DEF TypeOK, Place, Polling, Inside, LockFiles, Goto
<1>1. CASE UNCHANGED mutexVars
  BY <1>1 DEF mutexVars
<1>2. ASSUME NEW p \in Procs, Begin(p) PROVE TypeOK'
  BY <1>2 DEF Begin
<1>3. ASSUME NEW p \in Procs, GiveUp(p) PROVE TypeOK'
  BY <1>3 DEF GiveUp
<1>4. ASSUME NEW p \in Procs, ReadLock(p) PROVE TypeOK'
  BY <1>4 DEF ReadLock
<1>5. ASSUME NEW p \in Procs, CheckLock(p) PROVE TypeOK'
  BY <1>5 DEF CheckLock
<1>6. ASSUME NEW p \in Procs, RemoveStale(p) PROVE TypeOK'
  BY <1>6 DEF RemoveStale
<1>7. ASSUME NEW p \in Procs, CreateLock(p) PROVE TypeOK'
  <2>1. file' \in LockFiles \cup {None}
    <3>1. [owner |-> p, body |-> FALSE] \in LockFiles
      BY DEF LockFiles
    <3>2. file' = [owner |-> p, body |-> FALSE] \/ file' = file
      BY <1>7 DEF CreateLock
    <3> QED
      BY <3>1, <3>2
  <2>2. pc' \in [Procs -> Place]
    BY <1>7 DEF CreateLock
  <2> QED
    BY <1>7, <2>1, <2>2 DEF CreateLock
<1>8. ASSUME NEW p \in Procs, WriteBody(p) PROVE TypeOK'
  BY <1>8 DEF WriteBody
<1>9. ASSUME NEW p \in Procs, LoadQueue(p) PROVE TypeOK'
  BY <1>9 DEF LoadQueue
<1>10. ASSUME NEW p \in Procs, SaveQueue(p) PROVE TypeOK'
  BY <1>10 DEF SaveQueue, Transactions
<1>11. ASSUME NEW p \in Procs, ReleaseLock(p) PROVE TypeOK'
  BY <1>11 DEF ReleaseLock
<1>12. ASSUME NEW p \in Procs, Crash(p) PROVE TypeOK'
  BY <1>12 DEF Crash
<1> QED
  BY <1>1, <1>2, <1>3, <1>4, <1>5, <1>6, <1>7, <1>8, <1>9, <1>10, <1>11, <1>12
     DEF Next, Transact

(* The state is always well typed.                                         *)
THEOREM MutexTypeCorrect == Spec => []TypeOK
<1>1. Init => TypeOK
  <2> SUFFICES ASSUME Init PROVE TypeOK
    OBVIOUS
  <2>1. pc \in [Procs -> Place] /\ tx \in [Procs -> Nat]
    BY DEF Init, Place
  <2>2. payload \in [Procs -> Procs \cup {None}] /\ file \in LockFiles \cup {None}
    BY DEF Init
  <2>3. queue \in SUBSET Transactions /\ committed \in SUBSET Transactions
    BY DEF Init
  <2>4. local \in [Procs -> SUBSET Transactions]
    BY DEF Init
  <2>5. stolen \in BOOLEAN
    BY DEF Init
  <2> QED
    BY <2>1, <2>2, <2>3, <2>4, <2>5 DEF TypeOK
<1> QED
  BY <1>1, TypeStep, PTL DEF Spec

(* Two processes never are inside at once when the insiders own the file.  *)
LEMMA OwnersExclude == InsiderOwnsFile => ExclusiveUnlessStolen
  BY DEF InsiderOwnsFile, ExclusiveUnlessStolen, Exclusive

(* A lock is only removed from a dead process, from a process outside, or  *)
(* is stolen.                                                              *)
LEMMA RemovalStep ==
  ASSUME InductiveInvariant, NEW p \in Procs, RemoveStale(p), ~stolen', file' # file
  PROVE  file' = None /\ \A q \in Procs : pc[q] \notin Inside
<1>1. file # None /\ IsStale(payload[p]) /\ file' = None
  BY DEF RemoveStale
<1>2. payload[p] # file.owner /\ Alive(file.owner) => stolen'
  BY <1>1 DEF RemoveStale
<1>3. ~stolen /\ (payload[p] = file.owner \/ ~Alive(file.owner))
  BY <1>1, <1>2 DEF RemoveStale
<1>4. file.owner \in Procs
  BY <1>1 DEF InductiveInvariant, TypeOK, LockFiles
<1>5. ~Alive(file.owner)
  BY <1>1, <1>3, <1>4, MutexAssumption DEF IsStale
<1>6. \A q \in Procs : pc[q] \in Inside => file.owner = q
  BY <1>3 DEF InductiveInvariant, InsiderOwnsFile
<1>7. pc[file.owner] \notin Inside
  BY <1>5 DEF Alive, Inside
<1> QED
  BY <1>1, <1>6, <1>7

(* Every step keeps the inductive invariant.                               *)
LEMMA InductiveStep == InductiveInvariant /\ [Next]_mutexVars => InductiveInvariant'
<1> SUFFICES ASSUME InductiveInvariant, [Next]_mutexVars PROVE InductiveInvariant'
  OBVIOUS
<1>0. TypeOK'
  BY TypeStep DEF InductiveInvariant
<1>a. SUFFICES ASSUME ~stolen'
               PROVE  /\ \A q \in Procs : pc'[q] \in Inside => file' # None /\ file'.owner = q
                      /\ \A q \in Procs : pc'[q] = "save" => local'[q] = queue'
                      /\ committed' \subseteq queue'
  BY <1>0 DEF InductiveInvariant, InsiderOwnsFile, LoadedIsCurrent, UpdatesSurviveUnlessStolen
<1> DEFINE Goal == /\ \A q \in Procs : pc'[q] \in Inside => file' # None /\ file'.owner = q
                   /\ \A q \in Procs : pc'[q] = "save" => local'[q] = queue'
                   /\ committed' \subseteq queue'
<1>b. ~stolen
  <2>1. ASSUME NEW p \in Procs, RemoveStale(p) PROVE ~stolen
    BY <1>a, <2>1 DEF RemoveStale
  <2>2. (\A p \in Procs : ~RemoveStale(p)) => stolen' = stolen
    BY DEF mutexVars, Next, Transact, Begin, GiveUp, ReadLock, CheckLock, CreateLock, WriteBody,
           LoadQueue, SaveQueue, ReleaseLock, Crash
  <2> QED
    BY <1>a, <2>1, <2>2
<1>c. /\ pc \in [Procs -> Place]
      /\ local \in [Procs -> SUBSET Transactions]
      /\ file = None \/ file \in LockFiles
      /\ \A q \in Procs : pc[q] \in Inside => file # None /\ file.owner = q
      /\ \A q \in Procs : pc[q] = "save" => local[q] = queue
      /\ committed \subseteq queue
  BY <1>b DEF InductiveInvariant, TypeOK, InsiderOwnsFile, LoadedIsCurrent,
              UpdatesSurviveUnlessStolen
<1> USE <1>c DEF Goto, Inside
<1>1. CASE UNCHANGED mutexVars
  BY <1>1 DEF mutexVars
<1>2. ASSUME NEW p \in Procs, Begin(p) PROVE Goal
  BY <1>2 DEF Begin
<1>3. ASSUME NEW p \in Procs, GiveUp(p) PROVE Goal
  BY <1>3 DEF GiveUp
<1>4. ASSUME NEW p \in Procs, ReadLock(p) PROVE Goal
  BY <1>4 DEF ReadLock
<1>5. ASSUME NEW p \in Procs, CheckLock(p) PROVE Goal
  BY <1>5 DEF CheckLock
<1>6. ASSUME NEW p \in Procs, RemoveStale(p) PROVE Goal
  <2>1. CASE file' = file
    BY <1>6, <2>1 DEF RemoveStale
  <2>2. CASE file' # file
    BY <1>6, <2>2, <1>a, RemovalStep DEF RemoveStale
  <2> QED
    BY <2>1, <2>2
<1>7. ASSUME NEW p \in Procs, CreateLock(p) PROVE Goal
  <2>1. CASE file = None
    <3>1. file' = [owner |-> p, body |-> FALSE] /\ pc' = [pc EXCEPT ![p] = "write"]
      BY <1>7, <2>1 DEF CreateLock
    <3>2. file' # None /\ file'.owner = p
      <4>1. [owner |-> p, body |-> FALSE] \in LockFiles
        BY DEF LockFiles
      <4> QED
        BY <3>1, <4>1, MutexAssumption
    <3>3. \A q \in Procs : pc[q] \notin Inside
      BY <2>1
    <3> QED
      BY <1>7, <3>1, <3>2, <3>3 DEF CreateLock
  <2>2. CASE file # None
    BY <1>7, <2>2 DEF CreateLock
  <2> QED
    BY <2>1, <2>2
<1>8. ASSUME NEW p \in Procs, WriteBody(p) PROVE Goal
  <2>1. file # None /\ file.owner = p /\ file' = [file EXCEPT !.body = TRUE]
    BY <1>8 DEF WriteBody
  <2>2. file \in LockFiles
    BY <2>1
  <2>3. file'.owner = p /\ file' # None
    BY <2>1, <2>2, MutexAssumption DEF LockFiles
  <2>4. \A q \in Procs : pc[q] \in Inside => q = p
    BY <2>1
  <2> QED
    BY <1>8, <2>3, <2>4 DEF WriteBody
<1>9. ASSUME NEW p \in Procs, LoadQueue(p) PROVE Goal
  BY <1>9 DEF LoadQueue
<1>10. ASSUME NEW p \in Procs, SaveQueue(p) PROVE Goal
  BY <1>10 DEF SaveQueue
<1>11. ASSUME NEW p \in Procs, ReleaseLock(p) PROVE Goal
  BY <1>11 DEF ReleaseLock
<1>12. ASSUME NEW p \in Procs, Crash(p) PROVE Goal
  BY <1>12 DEF Crash
<1> QED
  BY <1>1, <1>2, <1>3, <1>4, <1>5, <1>6, <1>7, <1>8, <1>9, <1>10, <1>11, <1>12
     DEF Next, Transact

LEMMA MutexInvariance == Spec => []InductiveInvariant
<1>1. Init /\ TypeOK => InductiveInvariant
  BY DEF Init, InductiveInvariant, Inside, InsiderOwnsFile, LoadedIsCurrent,
         UpdatesSurviveUnlessStolen
<1> QED
  BY <1>1, InductiveStep, MutexTypeCorrect, PTL DEF Spec

(* Exclusion can only be lost through a stolen lock.                       *)
THEOREM MutexExcludes == Spec => []ExclusiveUnlessStolen
<1>1. InductiveInvariant => ExclusiveUnlessStolen
  BY OwnersExclude DEF InductiveInvariant
<1> QED
  BY <1>1, MutexInvariance, PTL

(* Updates can only be lost through a stolen lock.                         *)
THEOREM MutexKeepsUpdates == Spec => []UpdatesSurviveUnlessStolen
<1>1. InductiveInvariant => UpdatesSurviveUnlessStolen
  BY DEF InductiveInvariant
<1> QED
  BY <1>1, MutexInvariance, PTL

=============================================================================
