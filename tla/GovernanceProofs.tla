-------------------------- MODULE GovernanceProofs --------------------------
(***************************************************************************)
(* The governance of a run: its approval, with any number of passes,       *)
(* changes and kills (module Approval), and before it the decision whether *)
(* the run may start (PolicyStopsWhatItNames of module RunPolicy), for any *)
(* task, project, policy file, environment and command line.               *)
(***************************************************************************)
EXTENDS Approval, RunPolicy, SequenceTheorems, FiniteSetTheorems, TLAPS

-----------------------------------------------------------------------------
(* The approval.                                                           *)
LEMMA LifecycleType ==
  ASSUME NEW m
  PROVE  Lifecycle(m) \in {"CLEAR", "BLOCKED", "AWAITING_APPROVAL"}
BY DEF Lifecycle

LEMMA FreshType == FreshManifest \in Manifest
BY DEF FreshManifest, NoEvaluations, Manifest, Evaluations

LEMMA SavedType ==
  ASSUME NEW m \in Manifest
  PROVE  /\ Saved(m) \in Manifest
         /\ Saved(m).evals = m.evals
         /\ Saved(m).awaiting = m.awaiting
         /\ Saved(m).hitl = m.hitl
         /\ Saved(m).life = Lifecycle(m)
BY LifecycleType DEF Saved, Manifest

LEMMA EvaluatedType ==
  ASSUME NEW m \in Manifest, NEW kind \in {"plain", "block", "asked"}
  PROVE  /\ Evaluated(m, kind) \in Manifest
         /\ Evaluated(m, kind).evals.block >= m.evals.block
         /\ kind = "block" => Evaluated(m, kind).evals.block > 0
         /\ Evaluated(m, kind).awaiting = m.awaiting
         /\ Evaluated(m, kind).hitl = m.hitl
BY DEF Evaluated, Manifest, Evaluations

(* A saved manifest with blockers is clear only if a grant cleared them.   *)
LEMMA ClearByGrant ==
  ASSUME NEW m \in Manifest, Lifecycle(m) = "CLEAR", m.evals.block > 0
  PROVE  m.hitl \in Granting
BY DEF Lifecycle, Blocking

(* m is sound after the step.                                              *)
NextSound(m) ==
  /\ m.awaiting => approval' # None
  /\ m.hitl # "none" => approval' # None
  /\ m.hitl \in Granting => granted' # {}
  /\ stopped' => m.evals.block > 0

(* A copy stays sound with more evaluations, after any step that keeps the *)
(* approval and the grants.                                                *)
LEMMA CopyKept ==
  ASSUME NEW m \in Manifest, NEW n \in Manifest, CopySound(m),
         n.awaiting = m.awaiting, n.hitl = m.hitl, n.evals.block >= m.evals.block,
         approval # None => approval' # None,
         granted # {} => granted' # {},
         stopped' => stopped \/ n.evals.block > 0
  PROVE  NextSound(n)
BY DEF CopySound, NextSound, Manifest, Evaluations

LEMMA LoadedSound ==
  ASSUME TypeOK, ManifestSound, stopped => gr # None
  PROVE  Loaded \in Manifest /\ CopySound(Loaded)
BY FreshType DEF Loaded, TypeOK, ManifestSound, DiskSound, CopySound, FreshManifest, NoEvaluations, Granting,
                 Resolutions

LEMMA RequestType ==
  ASSUME TypeOK
  PROVE  /\ Fingerprint(gr) \in Fingerprints
         /\ [status |-> "PENDING", bound |-> Fingerprint(gr)] \in Request
         /\ [status |-> "PENDING", bound |-> Fingerprint(gr)] # None
<1>1. Fingerprint(gr) \in Fingerprints
  BY DEF TypeOK, Fingerprints, Fingerprint, EvaluationsOf, NoEvaluations, Manifest, Evaluations
<1>2. [status |-> "PENDING", bound |-> Fingerprint(gr)] \in Request
  BY <1>1 DEF Request
<1> QED
  BY <1>1, <1>2, NoneAssumption

LEMMA TypeStep ==
  ASSUME TypeOK, ManifestSound, [Next]_vars
  PROVE  TypeOK'
<1> USE DEF TypeOK, Points
<1>1. CASE Execute
  <2>1. gr' \in Manifest
    BY <1>1, SavedType, EvaluatedType, FreshType DEF Execute, Loaded
  <2>2. budget' \in [passes : 0..MaxPasses, drift : 0..MaxDrift, kills : 0..MaxKills]
    BY <1>1, ApprovalAssumption DEF Execute
  <2>3. run' \in [executed : BOOLEAN, reviewed : BOOLEAN, concluded : BOOLEAN]
    BY <1>1 DEF Execute
  <2>4. proc' \in [at : Points, mem : Manifest \cup {None}]
    BY <1>1 DEF Execute
  <2>5. artifacts' \in Nat /\ critical' \in BOOLEAN
    BY <1>1 DEF Execute
  <2> QED
    BY <1>1, <2>1, <2>2, <2>3, <2>4, <2>5 DEF Execute
<1>2. ASSUME NEW policy \in {"report", "block", "approval"}, Decide(policy) PROVE TypeOK'
  <2>1. Evaluated(Loaded, "plain") \in Manifest
    BY EvaluatedType, FreshType DEF Loaded
  <2>2. Evaluated(Evaluated(Loaded, "plain"), "block") \in Manifest
    BY <2>1, EvaluatedType
  <2>3. CASE critical
    BY <1>2, <2>2, <2>3, SavedType DEF Decide
  <2>4. CASE ~critical
    BY <1>2, <2>1, <2>4, SavedType DEF Decide
  <2> QED
    BY <2>3, <2>4
<1>3. CASE ReportOnly
  BY <1>3, SavedType DEF ReportOnly, ManifestSound, MemorySound, WorkedOn
<1>4. CASE Enforce
  BY <1>4 DEF Enforce, files, Idle
<1>5. CASE RequestApproval
  BY <1>5, RequestType DEF RequestApproval
<1>6. CASE Pause
  <2>1. [proc.mem EXCEPT !.awaiting = TRUE] \in Manifest
    BY <1>6 DEF Pause, ManifestSound, MemorySound, WorkedOn, Manifest
  <2> QED
    BY <1>6, <2>1, SavedType, EvaluatedType DEF Pause, Idle
<1>7. CASE AnalyzeRisk
  BY <1>7, SavedType, EvaluatedType, FreshType DEF AnalyzeRisk, Loaded
<1>8. CASE Review
  <2>1. PICK approved \in BOOLEAN :
          /\ run' = [run EXCEPT !.reviewed = TRUE, !.concluded = approved]
          /\ proc' = IF approved THEN Idle ELSE [at |-> "execute", mem |-> None]
    BY <1>8 DEF Review
  <2>2. run' \in [executed : BOOLEAN, reviewed : BOOLEAN, concluded : BOOLEAN]
    BY <2>1
  <2>3. proc' \in [at : Points, mem : Manifest \cup {None}]
    BY <2>1 DEF Idle
  <2> QED
    BY <1>8, <2>2, <2>3 DEF Review
<1>9. CASE Assess
  BY <1>9 DEF Assess, files
<1>10. CASE SyncManifest
  BY <1>10, SavedType DEF SyncManifest, ManifestSound, MemorySound, WorkedOn
<1>11. CASE SyncApproval
  BY <1>11 DEF SyncApproval, Request, Resolutions, Granting
<1>12. CASE RefreshManifest
  BY <1>12, SavedType DEF RefreshManifest
<1>13. CASE Resume \/ Replay \/ ReplayStage
  BY <1>13 DEF Resume, Replay, ReplayStage, NextPhase, files, Idle
<1>14. ASSUME NEW resolution \in Resolutions, Resolve(resolution) PROVE TypeOK'
  BY <1>14, RequestType DEF Resolve, Request
<1>15. CASE ApplyResolution
  <2>1. CASE gr # None
    <3>1. [gr EXCEPT !.awaiting = FALSE, !.hitl = op] \in Manifest
      BY <1>15, <2>1 DEF ApplyResolution, Manifest
    <3> QED
      BY <1>15, <2>1, <3>1, SavedType DEF ApplyResolution
  <2> QED
    BY <1>15, <2>1 DEF ApplyResolution
<1>16. CASE Kill
  BY <1>16, ApprovalAssumption DEF Kill, files, Idle
<1>17. CASE Drift
  BY <1>17, ApprovalAssumption DEF Drift
<1>18. CASE UNCHANGED vars
  BY <1>18 DEF vars, files
<1> QED
  BY <1>1, <1>2, <1>3, <1>4, <1>5, <1>6, <1>7, <1>8, <1>9, <1>10, <1>11, <1>12, <1>13, <1>14,
     <1>15, <1>16, <1>17, <1>18 DEF Next

(* One step keeps the grants on record.                                    *)
LEMMA GrantStep ==
  ASSUME TypeOK, GrantsOnRecord, [Next]_vars
  PROVE  GrantsOnRecord'
<1> USE NoneAssumption DEF GrantsOnRecord, Granting, Resolutions
<1>1. CASE UNCHANGED <<approval, op, granted>>
  BY <1>1
<1>2. CASE RequestApproval
  BY <1>2, RequestType DEF RequestApproval
<1>3. CASE SyncApproval
  BY <1>3 DEF SyncApproval, TypeOK, Request
<1>4. ASSUME NEW resolution \in Resolutions, Resolve(resolution) PROVE GrantsOnRecord'
  BY <1>4 DEF Resolve, TypeOK, Request
<1>5. CASE ApplyResolution \/ Kill
  BY <1>5 DEF ApplyResolution, Kill, files, TypeOK
<1> QED
  BY <1>1, <1>2, <1>3, <1>4, <1>5
  DEF Next, vars, files, Execute, Decide, ReportOnly, Enforce, Pause, AnalyzeRisk, Review, Assess,
      SyncManifest, RefreshManifest, Resume, Replay, ReplayStage, Drift

(* The approval is never taken back, nor are the grants.                   *)
LEMMA NothingTakenBack ==
  ASSUME TypeOK, [Next]_vars
  PROVE  /\ approval # None => approval' # None
         /\ granted # {} => granted' # {}
<1>1. CASE UNCHANGED <<approval, granted>>
  BY <1>1
<1>2. CASE RequestApproval
  BY <1>2, RequestType DEF RequestApproval
<1>3. CASE SyncApproval
  BY <1>3, NoneAssumption DEF SyncApproval, TypeOK, Request
<1>4. ASSUME NEW resolution \in Resolutions, Resolve(resolution)
      PROVE  approval' # None /\ (granted # {} => granted' # {})
  BY <1>4, NoneAssumption DEF Resolve, TypeOK, Request
<1> QED
  BY <1>1, <1>2, <1>3, <1>4
  DEF Next, vars, files, Execute, Decide, ReportOnly, Enforce, Pause, AnalyzeRisk, Review, Assess,
      SyncManifest, RefreshManifest, Resume, Replay, ReplayStage, Drift, ApplyResolution, Kill

(* A manifest that is saved from a sound copy is sound on disk.            *)
LEMMA SavedSound ==
  ASSUME NEW m \in Manifest, NextSound(m), gr' = Saved(m)
  PROVE  DiskSound'
<1>1. /\ gr' \in Manifest /\ gr'.evals = m.evals /\ gr'.awaiting = m.awaiting
      /\ gr'.hitl = m.hitl /\ gr'.life = Lifecycle(m)
  BY SavedType
<1>2. CopySound(gr)'
  BY <1>1 DEF CopySound, NextSound
<1> QED
  BY <1>1, <1>2, ClearByGrant, NoneAssumption DEF DiskSound

(* A manifest that is not saved stays as sound as it was.                  *)
LEMMA DiskKept ==
  ASSUME DiskSound, gr' = gr, stopped' = stopped,
         approval # None => approval' # None,
         granted # {} => granted' # {}
  PROVE  DiskSound'
BY DEF DiskSound, CopySound

(* So does the copy in memory of a command that keeps it.                  *)
LEMMA MemoryKept ==
  ASSUME MemorySound, proc' = proc, stopped' = stopped,
         approval # None => approval' # None,
         granted # {} => granted' # {}
  PROVE  MemorySound'
BY DEF MemorySound, CopySound

(* A command that is not at work on a manifest has nothing to keep.        *)
LEMMA MemoryFree ==
  ASSUME proc'.at \notin WorkedOn
  PROVE  MemorySound'
BY DEF MemorySound, WorkedOn

(* A command that goes on with the same manifest.                          *)
LEMMA MemoryPassedOn ==
  ASSUME TypeOK, MemorySound, proc.at \in WorkedOn, NEW point \in Points,
         proc' = [proc EXCEPT !.at = point], stopped' = stopped,
         approval # None => approval' # None,
         granted # {} => granted' # {},
         point = "pause" => approval' # None
  PROVE  MemorySound'
<1>1. proc'.at = point /\ proc'.mem = proc.mem
  BY DEF TypeOK
<1> QED
  BY <1>1 DEF MemorySound, CopySound

(* The manifest that a hook saves.                                         *)
LEMMA HookSaves ==
  ASSUME TypeOK, ManifestSound, NEW kind \in {"plain", "block"},
         approval # None => approval' # None,
         granted # {} => granted' # {},
         stopped' => stopped \/ kind = "block"
  PROVE  /\ Evaluated(Loaded, kind) \in Manifest
         /\ NextSound(Evaluated(Loaded, kind))
<1>1. Loaded \in Manifest /\ CopySound(Loaded)
  BY LoadedSound DEF ManifestSound, DiskSound
<1>2. /\ Evaluated(Loaded, kind) \in Manifest
      /\ Evaluated(Loaded, kind).evals.block >= Loaded.evals.block
      /\ kind = "block" => Evaluated(Loaded, kind).evals.block > 0
      /\ Evaluated(Loaded, kind).awaiting = Loaded.awaiting
      /\ Evaluated(Loaded, kind).hitl = Loaded.hitl
  BY <1>1, EvaluatedType
<1> HIDE DEF Loaded
<1> QED
  BY <1>1, <1>2, CopyKept

(* One step keeps the manifest on disk, and the copy in memory, sound.     *)
LEMMA ManifestStep ==
  ASSUME TypeOK, GrantsOnRecord, ManifestSound, [Next]_vars
  PROVE  ManifestSound'
<1> USE DEF ManifestSound
<1>0. (approval # None => approval' # None) /\ (granted # {} => granted' # {})
  BY NothingTakenBack
<1>1. CASE Execute
  <2>1. DiskSound'
    BY <1>0, <1>1, HookSaves, SavedSound DEF Execute
  <2>2. MemorySound'
    BY <1>1, MemoryFree DEF Execute, TypeOK, WorkedOn
  <2> QED
    BY <2>1, <2>2
<1>2. ASSUME NEW policy \in {"report", "block", "approval"}, Decide(policy) PROVE ManifestSound'
  <2> DEFINE m == Evaluated(Loaded, "plain")
             n == Evaluated(m, "block")
  <2>1. m \in Manifest /\ CopySound(m)
    <3>1. Loaded \in Manifest /\ CopySound(Loaded)
      BY LoadedSound DEF DiskSound
    <3> QED
      BY <3>1, EvaluatedType DEF CopySound, Manifest, Evaluations
  <2>2. CASE critical
    <3>1. gr' = Saved(n) /\ proc' = [at |-> policy, mem |-> n] /\ policy # "pause"
      BY <1>2, <2>2 DEF Decide
    <3>2. n \in Manifest /\ n.evals.block > 0 /\ n.awaiting = m.awaiting /\ n.hitl = m.hitl
      BY <2>1, EvaluatedType
    <3> HIDE DEF m, n
    <3>3. NextSound(n)
      BY <1>0, <2>1, <3>2 DEF CopySound, NextSound
    <3>4. MemorySound'
      BY <3>1, <3>2, <3>3, NoneAssumption DEF MemorySound, CopySound, NextSound
    <3> QED
      BY <3>1, <3>2, <3>3, <3>4, SavedSound
  <2>3. CASE ~critical
    <3>1. gr' = Saved(m) /\ proc'.at = "risk" /\ stopped' = stopped
      BY <1>2, <2>3 DEF Decide, TypeOK
    <3> HIDE DEF m
    <3>2. NextSound(m)
      BY <1>0, <2>1, <3>1 DEF CopySound, NextSound
    <3>3. MemorySound'
      BY <3>1, MemoryFree DEF WorkedOn
    <3> QED
      BY <2>1, <3>1, <3>2, <3>3, SavedSound
  <2> QED
    BY <2>2, <2>3
<1>3. CASE ReportOnly
  <2>1. proc.mem \in Manifest /\ NextSound(proc.mem)
    BY <1>0, <1>3 DEF ReportOnly, MemorySound, WorkedOn, CopySound, NextSound, TypeOK
  <2> QED
    BY <1>3, <2>1, SavedSound, MemoryFree DEF ReportOnly, WorkedOn
<1>4. CASE Enforce \/ Assess \/ Resume \/ Replay \/ ReplayStage \/ Review
  <2>1. gr' = gr /\ stopped' = stopped
    BY <1>4 DEF Enforce, Assess, Resume, Replay, ReplayStage, Review, files
  <2>2. DiskSound'
    BY <1>0, <2>1, DiskKept
  <2>3. CASE Assess
    BY <1>0, <2>1, <2>2, <2>3 DEF Assess, MemorySound, DiskSound, CopySound, WorkedOn
  <2>4. CASE Enforce \/ Resume \/ Replay \/ ReplayStage \/ Review
    <3>1. proc'.at \notin WorkedOn
      <4>1. proc' = Idle \/ proc'.at \in {"review", "execute", "replay"}
        <5>1. CASE Enforce \/ ReplayStage
          BY <5>1 DEF Enforce, ReplayStage
        <5>2. CASE Resume
          BY <5>2 DEF Resume, NextPhase
        <5>3. CASE Replay
          BY <5>3 DEF Replay
        <5>4. CASE Review
          BY <5>4 DEF Review
        <5> QED
          BY <2>4, <5>1, <5>2, <5>3, <5>4
      <4> QED
        BY <4>1 DEF Idle, WorkedOn
    <3> QED
      BY <2>2, <3>1, MemoryFree
  <2> QED
    BY <1>4, <2>3, <2>4
<1>5. CASE RequestApproval
  <2>1. gr' = gr /\ stopped' = stopped /\ approval' # None /\ proc.at \in WorkedOn
        /\ proc' = [proc EXCEPT !.at = "pause"]
    BY <1>5, RequestType DEF RequestApproval, WorkedOn
  <2>2. MemorySound'
    BY <1>0, <2>1, MemoryPassedOn DEF Points
  <2> QED
    BY <1>0, <2>1, <2>2, DiskKept
<1>6. CASE Pause
  <2> DEFINE m == [proc.mem EXCEPT !.awaiting = TRUE]
             n == Evaluated(m, "asked")
  <2>1. proc.mem \in Manifest /\ CopySound(proc.mem) /\ approval # None
    BY <1>6 DEF Pause, MemorySound, WorkedOn, TypeOK
  <2>2. m \in Manifest /\ m.hitl = proc.mem.hitl /\ m.evals = proc.mem.evals
    BY <2>1 DEF Manifest
  <2>3. gr' = Saved(n) /\ proc' = Idle /\ stopped' = stopped
    BY <1>6 DEF Pause
  <2> HIDE DEF m
  <2>4. n \in Manifest /\ n.hitl = m.hitl /\ n.evals.block >= m.evals.block
    BY <2>2, EvaluatedType
  <2> HIDE DEF n
  <2>5. NextSound(n)
    BY <1>0, <2>1, <2>2, <2>3, <2>4 DEF CopySound, NextSound, Manifest, Evaluations
  <2> QED
    BY <2>3, <2>4, <2>5, SavedSound, MemoryFree DEF Idle, WorkedOn
<1>7. CASE AnalyzeRisk
  <2>1. DiskSound'
    BY <1>0, <1>7, HookSaves, SavedSound DEF AnalyzeRisk
  <2>2. MemorySound'
    BY <1>7, MemoryFree DEF AnalyzeRisk, TypeOK, WorkedOn
  <2> QED
    BY <2>1, <2>2
<1>8. CASE SyncManifest
  <2>1. proc.mem \in Manifest /\ NextSound(proc.mem)
    BY <1>0, <1>8 DEF SyncManifest, MemorySound, WorkedOn, CopySound, NextSound, TypeOK
  <2>2. proc.at \in WorkedOn /\ proc' = [proc EXCEPT !.at = "stale"] /\ stopped' = stopped
    BY <1>8 DEF SyncManifest, WorkedOn
  <2>3. MemorySound'
    BY <1>0, <2>2, MemoryPassedOn DEF Points
  <2> QED
    BY <1>8, <2>1, <2>3, SavedSound DEF SyncManifest
<1>9. CASE SyncApproval
  <2>1. gr' = gr /\ stopped' = stopped /\ proc.at \in WorkedOn
    BY <1>9 DEF SyncApproval, WorkedOn
  <2>2. PICK point \in {"refresh", "gate"} : proc' = [proc EXCEPT !.at = point]
    BY <1>9 DEF SyncApproval
  <2>3. MemorySound'
    BY <1>0, <2>1, <2>2, MemoryPassedOn DEF Points
  <2> QED
    BY <1>0, <2>1, <2>3, DiskKept
<1>10. CASE RefreshManifest
  <2>1. proc'.at = "gate" /\ stopped' = stopped
    BY <1>10 DEF RefreshManifest, TypeOK
  <2>2. CASE gr = None
    BY <1>0, <1>10, <2>1, <2>2, DiskKept, MemoryFree DEF RefreshManifest, WorkedOn
  <2>3. CASE gr # None
    <3>1. gr \in Manifest /\ gr' = Saved(gr)
      BY <1>10, <2>3 DEF RefreshManifest, TypeOK
    <3>2. /\ gr' \in Manifest /\ gr'.evals = gr.evals /\ gr'.awaiting = gr.awaiting
          /\ gr'.hitl = gr.hitl /\ gr'.life = Lifecycle(gr)
      BY <3>1, SavedType
    <3>3. DiskSound'
      BY <1>0, <2>1, <2>3, <3>1, <3>2, ClearByGrant, NoneAssumption DEF DiskSound, CopySound
    <3> QED
      BY <2>1, <3>3, MemoryFree DEF WorkedOn
  <2> QED
    BY <2>2, <2>3
<1>11. ASSUME NEW resolution \in Resolutions, Resolve(resolution) PROVE ManifestSound'
  BY <1>0, <1>11, DiskKept, MemoryKept DEF Resolve
<1>12. CASE ApplyResolution
  <2>1. stopped' = stopped /\ proc' = proc
    BY <1>12 DEF ApplyResolution
  <2>2. CASE gr = None
    BY <1>0, <1>12, <2>1, <2>2, DiskKept, MemoryKept DEF ApplyResolution
  <2>3. CASE gr # None
    <3> DEFINE m == [gr EXCEPT !.awaiting = FALSE, !.hitl = op]
    <3>1. op \in Resolutions /\ approval # None /\ (op \in Granting => granted # {})
      BY <1>12 DEF ApplyResolution, TypeOK, GrantsOnRecord
    <3>2. m \in Manifest /\ ~m.awaiting /\ m.hitl = op /\ m.evals = gr.evals /\ CopySound(gr)
      BY <2>3, <3>1 DEF Manifest, TypeOK, DiskSound
    <3>3. gr' = Saved(m)
      BY <1>12, <2>3 DEF ApplyResolution
    <3> HIDE DEF m
    <3>4. NextSound(m)
      BY <1>0, <2>1, <3>1, <3>2 DEF CopySound, NextSound
    <3> QED
      BY <1>0, <2>1, <3>2, <3>3, <3>4, SavedSound, MemoryKept
  <2> QED
    BY <2>2, <2>3
<1>13. CASE Kill
  <2>1. gr' = gr /\ stopped' = stopped /\ (proc' = Idle \/ proc' = proc)
    BY <1>13 DEF Kill, files
  <2>2. MemorySound'
    BY <1>0, <2>1, MemoryKept, MemoryFree DEF Idle, WorkedOn
  <2> QED
    BY <1>0, <2>1, <2>2, DiskKept
<1>14. CASE Drift \/ UNCHANGED vars
  BY <1>0, <1>14, DiskKept, MemoryKept DEF Drift, vars, files
<1> QED
  BY <1>1, <1>2, <1>3, <1>4, <1>5, <1>6, <1>7, <1>8, <1>9, <1>10, <1>11, <1>12, <1>13, <1>14
  DEF Next

LEMMA ApprovalInit == Init => ApprovalInvariant
<1> SUFFICES ASSUME Init PROVE ApprovalInvariant
  OBVIOUS
<1>1. TypeOK
  <2>1. budget \in [passes : 0..MaxPasses, drift : 0..MaxDrift, kills : 0..MaxKills]
    BY ApprovalAssumption DEF Init
  <2>2. /\ run \in [executed : BOOLEAN, reviewed : BOOLEAN, concluded : BOOLEAN]
        /\ proc \in [at : Points, mem : Manifest \cup {None}]
    BY DEF Init, Points
  <2> QED
    BY <2>1, <2>2 DEF Init, TypeOK
<1>2. GrantsOnRecord
  BY NoneAssumption DEF Init, GrantsOnRecord, Granting, Resolutions
<1>3. ManifestSound
  BY DEF Init, ManifestSound, MemorySound, DiskSound, WorkedOn
<1> QED
  BY <1>1, <1>2, <1>3 DEF ApprovalInvariant

LEMMA ApprovalStep == ApprovalInvariant /\ [Next]_vars => ApprovalInvariant'
BY TypeStep, GrantStep, ManifestStep DEF ApprovalInvariant

(* At every moment, in every copy of the manifest, a resolution is one an  *)
(* operator gave, and a stopped run has its blockers on record             *)
(* (governance-runtime-manifest.js, governance-approval-runtime.js).       *)
THEOREM ApprovalInvariantHolds == Spec => []ApprovalInvariant
BY ApprovalInit, ApprovalStep, PTL DEF Spec

(* A run that waits for an approval has a request an operator can find     *)
(* (governance-validation-enforcement.js saves it before the flag).        *)
THEOREM WaitingRunsHaveRequests == Spec => []WaitingHasRequest
<1>1. ApprovalInvariant => WaitingHasRequest
  BY DEF ApprovalInvariant, ManifestSound, DiskSound, CopySound, WaitingHasRequest
<1> QED
  BY <1>1, ApprovalInvariantHolds, PTL

(* A run that enforcement stopped goes on only as an operator granted it,  *)
(* but for the half-saved rejection of a later request                     *)
(* (governance-state-validator.js, replay/resume-engine.js).               *)
THEOREM StoppedRunsNeedGrants == Spec => StoppedNeedsGrant
<1>1. ApprovalInvariant /\ [Next]_vars =>
        [GoesOn /\ stopped =>
           /\ gr # None
           /\ \/ Fingerprint(gr) \in granted
              \/ approval.status = "REJECTED" /\ gr.hitl \in Granting /\ granted # {}]_vars
  <2> SUFFICES ASSUME ApprovalInvariant, Next, GoesOn, stopped
               PROVE  /\ gr # None
                      /\ \/ Fingerprint(gr) \in granted
                         \/ approval.status = "REJECTED" /\ gr.hitl \in Granting /\ granted # {}
    BY DEF vars, files
  <2> USE DEF ApprovalInvariant
  <2>1. GatePasses
    <3>1. proc.at = "gate" /\ proc' # proc /\ proc' # Idle
      BY DEF GoesOn, Idle
    <3>2. ~(Resolve("APPROVED") \/ Resolve("OVERRIDDEN") \/ Resolve("REJECTED"))
          /\ ~ApplyResolution /\ ~Drift /\ ~Kill
      BY <3>1 DEF Resolve, ApplyResolution, Drift, Kill
    <3>3. ~(Execute \/ ReportOnly \/ Enforce \/ RequestApproval \/ Pause \/ AnalyzeRisk \/ Review)
          /\ \A policy \in {"report", "block", "approval"} : ~Decide(policy)
      BY <3>1 DEF Execute, Decide, ReportOnly, Enforce, RequestApproval, Pause, AnalyzeRisk, Review
    <3>4. ~(Assess \/ SyncManifest \/ SyncApproval \/ RefreshManifest \/ ReplayStage)
      BY <3>1 DEF Assess, SyncManifest, SyncApproval, RefreshManifest, ReplayStage
    <3>5. Resume \/ Replay
      BY <3>2, <3>3, <3>4 DEF Next, Resolutions, Granting
    <3> QED
      BY <3>1, <3>5 DEF Resume, Replay
  <2>2. gr # None /\ gr.evals.block > 0 /\ CopySound(gr)
    BY DEF ManifestSound, DiskSound, CopySound
  <2>3. gr.life = "CLEAR"
    BY <2>1, <2>2 DEF GatePasses, RuntimeStateOK
  <2>4. gr.hitl \in Granting /\ granted # {} /\ approval # None
    BY <2>2, <2>3 DEF ManifestSound, DiskSound, CopySound, Granting
  <2>5. approval.status \in Granting \/ approval.status = "REJECTED"
    BY <2>1, <2>4 DEF GatePasses, ApprovalStateOK, TypeOK, Request, Resolutions, Granting
  <2>6. CASE approval.status \in Granting
    BY <2>1, <2>2, <2>4, <2>6 DEF GatePasses, ContinuityOK, GrantsOnRecord
  <2> QED
    BY <2>2, <2>4, <2>5, <2>6
<1> QED
  BY <1>1, ApprovalInvariantHolds, PTL DEF Spec, StoppedNeedsGrant

-----------------------------------------------------------------------------
(* The analysis of a task in plain arithmetic.                             *)
Least(a, b) == IF a <= b THEN a ELSE b
Most(a, b) == IF a >= b THEN a ELSE b

LEMMA LeastIs ==
  ASSUME NEW a \in Int, NEW b \in Int
  PROVE  P!Min({a, b}) = Least(a, b)
<1>1. Least(a, b) \in {a, b} /\ \A y \in {a, b} : Least(a, b) <= y
  BY DEF Least
<1>2. P!Min({a, b}) \in {a, b} /\ \A y \in {a, b} : P!Min({a, b}) <= y
  BY <1>1 DEF P!Min
<1> QED
  BY <1>1, <1>2

LEMMA MostIs ==
  ASSUME NEW a \in Int, NEW b \in Int
  PROVE  P!Max({a, b}) = Most(a, b)
<1>1. Most(a, b) \in {a, b} /\ \A y \in {a, b} : Most(a, b) >= y
  BY DEF Most
<1>2. P!Max({a, b}) \in {a, b} /\ \A y \in {a, b} : P!Max({a, b}) >= y
  BY <1>1 DEF P!Max
<1> QED
  BY <1>1, <1>2

LEMMA RoundedType ==
  ASSUME NEW a \in Int, NEW b \in Nat \ {0}
  PROVE  P!Rounded(a, b) \in Int
  BY DEF P!Rounded

(* The range of files in plain arithmetic, of the sums that the task       *)
(* gives and the mean h of earlier runs.                                   *)
Before(h) == Most(1, P!Rounded(h * 65, 100))

After(h) == Most(Before(h) + 1, P!Rounded(h * 135, 100))

Averaged(n, m, h) == IF h > 0 THEN P!Rounded(n + m, 2) ELSE n

Fewest(lo, h) == Most(1, Least(40, Averaged(lo, Before(h), h)))

Highest(lo, hi, h) ==
  Most(Fewest(lo, h) + 1, Least(48, Most(Averaged(hi, After(h), h), Fewest(lo, h) + 1)))

Spread(lo, hi, h) == [min |-> Fewest(lo, h), max |-> Highest(lo, hi, h)]

LEMMA ClampIs ==
  ASSUME NEW n \in Int, NEW lo \in Int, NEW hi \in Int
  PROVE  P!Clamp(n, lo, hi) = Most(lo, Least(hi, n))
<1>1. P!Min({hi, n}) = Least(hi, n) /\ Least(hi, n) \in Int
  BY LeastIs DEF Least
<1> QED
  BY <1>1, MostIs DEF P!Clamp

LEMMA SumsType ==
  ASSUME NEW task, NEW project, NEW b, NEW n \in Int
  PROVE  /\ P!Points(b, n) \in Int
         /\ P!FewestFiles(task, project) \in Int
         /\ P!MostFiles(task, project) \in Int
  BY DEF P!Points, P!FewestFiles, P!MostFiles

LEMMA RangeIs ==
  ASSUME NEW task \in Tasks, NEW project \in Projects, NEW history \in Histories,
         NEW lo, lo = IF "docs" \in task.words THEN Least(P!FewestFiles(task, project), 2)
                      ELSE P!FewestFiles(task, project),
         NEW hi, hi = IF "docs" \in task.words THEN Least(P!MostFiles(task, project), 4)
                      ELSE P!MostFiles(task, project)
  PROVE  /\ P!EstimateFileRange(task, project, history) = Spread(lo, hi, history.files)
         /\ lo \in Int /\ hi \in Int
<1> DEFINE low == P!FewestFiles(task, project)
           high == P!MostFiles(task, project)
           h == history.files
<1>1. low \in Int /\ high \in Int /\ h \in Nat
  BY SumsType DEF Histories
<1>2. /\ (IF "docs" \in task.words THEN P!Min({low, 2}) ELSE low) = lo
      /\ (IF "docs" \in task.words THEN P!Min({high, 4}) ELSE high) = hi
      /\ lo \in Int /\ hi \in Int
  BY <1>1, LeastIs DEF Least
<1>3. P!Rounded(h * 65, 100) \in Int /\ P!Rounded(h * 135, 100) \in Int
  BY <1>1 DEF P!Rounded
<1>4. P!Max({1, P!Rounded(h * 65, 100)}) = Before(h) /\ Before(h) \in Int
  BY <1>3, MostIs DEF Before, Most
<1>5. P!Max({Before(h) + 1, P!Rounded(h * 135, 100)}) = After(h) /\ After(h) \in Int
  BY <1>3, <1>4, MostIs DEF Most, After
<1>6. /\ P!Blend(lo, Before(h), history) = Averaged(lo, Before(h), h)
      /\ P!Blend(hi, After(h), history) = Averaged(hi, After(h), h)
  BY DEF P!Blend, Averaged
<1>7. Averaged(lo, Before(h), h) \in Int /\ Averaged(hi, After(h), h) \in Int
  BY <1>1, <1>2, <1>4, <1>5 DEF Averaged, P!Rounded
<1>8. P!Clamp(Averaged(lo, Before(h), h), 1, 40) = Fewest(lo, h) /\ Fewest(lo, h) \in Int
  BY <1>7, ClampIs DEF Fewest, Most, Least
<1>9. /\ P!Max({Averaged(hi, After(h), h), Fewest(lo, h) + 1}) =
           Most(Averaged(hi, After(h), h), Fewest(lo, h) + 1)
      /\ Most(Averaged(hi, After(h), h), Fewest(lo, h) + 1) \in Int
  BY <1>7, <1>8, MostIs DEF Most
<1>10. P!Clamp(Most(Averaged(hi, After(h), h), Fewest(lo, h) + 1), Fewest(lo, h) + 1, 48) =
         Highest(lo, hi, h)
  BY <1>8, <1>9, ClampIs DEF Highest
<1> HIDE DEF low, high, h
<1>11. /\ P!Clamp(P!Blend(lo, Before(h), history), 1, 40) = Fewest(lo, h)
       /\ P!Clamp(P!Max({P!Blend(hi, After(h), history), Fewest(lo, h) + 1}),
                  Fewest(lo, h) + 1, 48) = Highest(lo, hi, h)
  <2>1. P!Clamp(P!Blend(lo, Before(h), history), 1, 40) = Fewest(lo, h)
    BY <1>6, <1>8, Zenon
  <2>2. P!Max({P!Blend(hi, After(h), history), Fewest(lo, h) + 1}) =
          Most(Averaged(hi, After(h), h), Fewest(lo, h) + 1)
    BY <1>6, <1>9, Zenon
  <2> QED
    BY <2>1, <2>2, <1>10, Zenon
<1>12. /\ (IF "docs" \in task.words THEN P!Min({low, 2}) ELSE low) = lo
       /\ (IF "docs" \in task.words THEN P!Min({high, 4}) ELSE high) = hi
       /\ P!Max({1, P!Rounded(h * 65, 100)}) = Before(h)
       /\ P!Max({Before(h) + 1, P!Rounded(h * 135, 100)}) = After(h)
  BY <1>2, <1>4, <1>5
<1>13. P!EstimateFileRange(task, project, history) =
         [min |-> Fewest(lo, h), max |-> Highest(lo, hi, h)]
  <2>1. P!EstimateFileRange(task, project, history) =
          [min |-> P!Clamp(P!Blend(lo, Before(h), history), 1, 40),
           max |-> P!Clamp(P!Max({P!Blend(hi, After(h), history),
                                  P!Clamp(P!Blend(lo, Before(h), history), 1, 40) + 1}),
                           P!Clamp(P!Blend(lo, Before(h), history), 1, 40) + 1, 48)]
    BY <1>12, Zenon DEF P!EstimateFileRange, low, high, h
  <2> QED
    BY <2>1, <1>11, Zenon
<1> QED
  BY <1>2, <1>13 DEF h, Spread

(* The points of a task, without those for its range of files.             *)
RiskSum(task, project, history) ==
  P!Points(P!CrossLayer(task), 3) + P!Points(P!RuntimeCore(task), 4)
  + P!Points("secret" \in task.names \/ "security" \in task.words, 3)
  + P!Points("integration" \in task.words, 2) + P!Points("refactor" \in task.words, 2)
  + P!Points(project.hasRuntime /\ P!RuntimeCore(task), 2)
  + (CASE history.corrections >= 200 -> 3 [] history.corrections \in 130..199 -> 2 [] OTHER -> 0)
  + (CASE history.errors >= 10 -> 3 [] history.errors \in 4..9 -> 2 [] OTHER -> 0)
  + P!Points(history.inflation > 72, 2)

TextSum(task) == P!SizePoints(task) + P!WordPoints(task)

(* A task t says more than another: the sums it may change.                *)
SaysMore(task, t, project, history) ==
  /\ "docs" \in t.words <=> "docs" \in task.words
  /\ P!FewestFiles(task, project) <= P!FewestFiles(t, project)
  /\ P!FewestFiles(t, project) <= P!FewestFiles(task, project) + 3
  /\ P!MostFiles(task, project) <= P!MostFiles(t, project)
  /\ RiskSum(task, project, history) <= RiskSum(t, project, history)
  /\ TextSum(task) <= TextSum(t)
  /\ P!FewestFiles(task, project) < P!FewestFiles(t, project) =>
       TextSum(task) < TextSum(t)
  /\ P!CrossLayer(task) => P!CrossLayer(t)
  /\ P!TouchesRuntime(task) => P!TouchesRuntime(t)
  /\ P!ChangeTypes(task) \subseteq P!ChangeTypes(t)
  /\ P!SensitiveText(task) => P!SensitiveText(t)

(* One word more.                                                          *)
LEMMA WordSaysMore ==
  ASSUME NEW task \in Tasks, NEW project \in Projects, NEW history \in Histories,
         NEW w \in {"integration", "frontend", "backend", "database", "security",
                    "orchestration", "refactor"},
         NEW t, t = [task EXCEPT !.words = @ \cup {w}]
  PROVE  SaysMore(task, t, project, history)
<1>1. /\ t.words = task.words \cup {w} /\ t.names = task.names
      /\ t.chars = task.chars /\ t.lines = task.lines
      /\ task.chars \in Nat /\ task.lines \in Nat
  BY DEF Tasks
<1>2. P!CrossLayer(task) => P!CrossLayer(t)
  BY <1>1 DEF P!CrossLayer
<1>3. w \notin {"frontend", "backend", "database", "orchestration"} => P!CrossLayer(t) = P!CrossLayer(task)
  BY <1>1 DEF P!CrossLayer
<1>4. P!RuntimeCore(t) = P!RuntimeCore(task)
  BY <1>1 DEF P!RuntimeCore
<1>5. P!Wide(task) => P!Wide(t)
  BY <1>1 DEF P!Wide
<1>6. w \notin {"integration", "refactor"} => P!Wide(t) = P!Wide(task)
  BY <1>1 DEF P!Wide
<1>7. P!TouchesRuntime(task) => P!TouchesRuntime(t)
  BY <1>1, <1>4 DEF P!TouchesRuntime
<1>8. P!ChangeTypes(task) \subseteq P!ChangeTypes(t) /\ P!SensitiveText(task) = P!SensitiveText(t)
  BY <1>1 DEF P!ChangeTypes, P!SensitiveText
<1>9. /\ P!FewestFiles(task, project) <= P!FewestFiles(t, project)
      /\ P!FewestFiles(t, project) <= P!FewestFiles(task, project) + 3
      /\ P!MostFiles(task, project) <= P!MostFiles(t, project)
  BY <1>1, <1>2, <1>4, <1>5 DEF P!FewestFiles, P!MostFiles, P!Points
<1>10. RiskSum(task, project, history) <= RiskSum(t, project, history)
  BY <1>1, <1>2, <1>4 DEF RiskSum, P!Points
<1>11. TextSum(task) <= TextSum(t)
  BY <1>1, <1>2, <1>4 DEF TextSum, P!SizePoints, P!WordPoints, P!Points
<1>12. P!FewestFiles(task, project) < P!FewestFiles(t, project) =>
         TextSum(task) < TextSum(t)
  <2>1. CASE w \in task.words
    <3>1. t = task
      BY <2>1 DEF Tasks
    <3> QED
      BY <3>1, SumsType
  <2>2. CASE w = "security"
    <3>1. P!FewestFiles(t, project) = P!FewestFiles(task, project)
      BY <1>1, <1>3, <1>4, <1>6, <2>2 DEF P!FewestFiles
    <3> QED
      BY <3>1, SumsType
  <2>3. CASE w \notin task.words /\ w \in {"integration", "refactor"}
    BY <1>1, <1>3, <1>4, <2>3 DEF TextSum, P!SizePoints, P!WordPoints, P!Points, P!FewestFiles
  <2>4. CASE w \in {"frontend", "backend", "database", "orchestration"}
    <3>1. CASE P!CrossLayer(task)
      <4>1. P!FewestFiles(t, project) = P!FewestFiles(task, project)
        BY <1>1, <1>2, <1>4, <1>6, <2>4, <3>1 DEF P!FewestFiles, P!Points
      <4> QED
        BY <4>1, SumsType
    <3>2. CASE ~P!CrossLayer(t)
      <4>1. P!FewestFiles(t, project) = P!FewestFiles(task, project)
        BY <1>1, <1>2, <1>4, <1>6, <2>4, <3>2 DEF P!FewestFiles, P!Points
      <4> QED
        BY <4>1, SumsType
    <3>3. CASE ~P!CrossLayer(task) /\ P!CrossLayer(t)
      BY <1>1, <1>4, <2>4, <3>3 DEF TextSum, P!SizePoints, P!WordPoints, P!Points
    <3> QED
      BY <1>2, <3>1, <3>2, <3>3
  <2> QED
    BY <2>1, <2>2, <2>3, <2>4
<1> QED
  BY <1>1, <1>2, <1>7, <1>8, <1>9, <1>10, <1>11, <1>12 DEF SaysMore

(* One kind of paths more.                                                 *)
LEMMA NameSaysMore ==
  ASSUME NEW task \in Tasks, NEW project \in Projects, NEW history \in Histories,
         NEW n \in {"runtime", "review", "replay", "secret"},
         NEW t, t = [task EXCEPT !.names = @ \cup {n}]
  PROVE  SaysMore(task, t, project, history)
<1>1. /\ t.names = task.names \cup {n} /\ t.words = task.words
      /\ t.chars = task.chars /\ t.lines = task.lines
      /\ task.chars \in Nat /\ task.lines \in Nat
  BY DEF Tasks
<1>2. /\ P!CrossLayer(task) = P!CrossLayer(t) /\ P!Wide(task) = P!Wide(t)
      /\ P!ChangeTypes(task) = P!ChangeTypes(t)
  BY <1>1 DEF P!CrossLayer, P!Wide, P!ChangeTypes
<1>3. P!RuntimeCore(task) => P!RuntimeCore(t)
  BY <1>1 DEF P!RuntimeCore
<1>4. /\ P!TouchesRuntime(task) => P!TouchesRuntime(t)
      /\ P!SensitiveText(task) => P!SensitiveText(t)
  BY <1>1, <1>3 DEF P!TouchesRuntime, P!SensitiveText
<1>5. /\ P!FewestFiles(task, project) <= P!FewestFiles(t, project)
      /\ P!FewestFiles(t, project) <= P!FewestFiles(task, project) + 3
      /\ P!MostFiles(task, project) <= P!MostFiles(t, project)
  BY <1>1, <1>2, <1>3 DEF P!FewestFiles, P!MostFiles, P!Points
<1>6. RiskSum(task, project, history) <= RiskSum(t, project, history)
  BY <1>1, <1>2, <1>3 DEF RiskSum, P!Points
<1>7. TextSum(task) <= TextSum(t)
  BY <1>1, <1>2, <1>3 DEF TextSum, P!SizePoints, P!WordPoints, P!Points
<1>8. P!FewestFiles(task, project) < P!FewestFiles(t, project) =>
         TextSum(task) < TextSum(t)
  BY <1>1, <1>2, <1>3 DEF TextSum, P!SizePoints, P!WordPoints, P!FewestFiles, P!Points
<1> QED
  BY <1>1, <1>2, <1>4, <1>5, <1>6, <1>7, <1>8 DEF SaysMore

(* A longer text.                                                          *)
LEMMA LengthSaysMore ==
  ASSUME NEW task \in Tasks, NEW project \in Projects, NEW history \in Histories,
         NEW t, t = [task EXCEPT !.chars = 13000] \/ t = [task EXCEPT !.lines = 200]
  PROVE  SaysMore(task, t, project, history)
<1>1. /\ t.names = task.names /\ t.words = task.words
      /\ \/ t.chars = 13000 /\ t.lines = task.lines
         \/ t.chars = task.chars /\ t.lines = 200
      /\ task.chars \in Nat /\ task.lines \in Nat
  BY DEF Tasks
<1>2. /\ P!CrossLayer(task) = P!CrossLayer(t) /\ P!Wide(task) = P!Wide(t)
      /\ P!ChangeTypes(task) = P!ChangeTypes(t) /\ P!RuntimeCore(task) = P!RuntimeCore(t)
      /\ P!TouchesRuntime(task) = P!TouchesRuntime(t) /\ P!SensitiveText(task) = P!SensitiveText(t)
  BY <1>1 DEF P!CrossLayer, P!Wide, P!ChangeTypes, P!RuntimeCore, P!TouchesRuntime, P!SensitiveText
<1>3. /\ P!FewestFiles(task, project) <= P!FewestFiles(t, project)
      /\ P!FewestFiles(t, project) <= P!FewestFiles(task, project) + 3
      /\ P!MostFiles(task, project) <= P!MostFiles(t, project)
  BY <1>1, <1>2 DEF P!FewestFiles, P!MostFiles, P!Points
<1>4. RiskSum(task, project, history) <= RiskSum(t, project, history)
  BY <1>1, <1>2 DEF RiskSum, P!Points
<1>5. P!WordPoints(t) = P!WordPoints(task) /\ P!WordPoints(task) \in Int
  BY <1>1, <1>2 DEF P!WordPoints, P!Points
<1>6. P!SizePoints(task) \in Int /\ P!SizePoints(t) \in Int /\ P!SizePoints(task) <= P!SizePoints(t)
  BY <1>1 DEF P!SizePoints, P!Points
<1>7. P!FewestFiles(task, project) < P!FewestFiles(t, project) => P!SizePoints(task) < P!SizePoints(t)
  BY <1>1, <1>2 DEF P!SizePoints, P!FewestFiles, P!Points
<1> QED
  BY <1>1, <1>2, <1>3, <1>4, <1>5, <1>6, <1>7 DEF SaysMore, TextSum

(* More to change is never taken for less, and the span between the least  *)
(* and the most falls by no more than the least has grown.                 *)
LEMMA RangeGrows ==
  ASSUME NEW lo \in Int, NEW lo2 \in Int, NEW hi \in Int, NEW hi2 \in Int, NEW h \in Nat,
         lo <= lo2, lo2 <= lo + 3, hi <= hi2
  PROVE  /\ Fewest(lo, h) \in Int /\ Fewest(lo2, h) \in Int
         /\ Highest(lo, hi, h) \in Int /\ Highest(lo2, hi2, h) \in Int
         /\ Fewest(lo, h) <= Fewest(lo2, h) /\ Fewest(lo2, h) <= Fewest(lo, h) + 3
         /\ lo = lo2 => Fewest(lo, h) = Fewest(lo2, h)
         /\ Highest(lo, hi, h) <= Highest(lo2, hi2, h)
<1>1. Before(h) \in Int /\ After(h) \in Int
  BY DEF Before, After, Most, P!Rounded
<1>2. /\ Averaged(lo, Before(h), h) \in Int /\ Averaged(lo2, Before(h), h) \in Int
      /\ Averaged(lo, Before(h), h) <= Averaged(lo2, Before(h), h)
      /\ Averaged(lo2, Before(h), h) <= Averaged(lo, Before(h), h) + 3
  BY <1>1 DEF Averaged, P!Rounded
<1>3. /\ Averaged(hi, After(h), h) \in Int /\ Averaged(hi2, After(h), h) \in Int
      /\ Averaged(hi, After(h), h) <= Averaged(hi2, After(h), h)
  BY <1>1 DEF Averaged, P!Rounded
<1>4. /\ Fewest(lo, h) \in Int /\ Fewest(lo2, h) \in Int
      /\ Fewest(lo, h) <= 40 /\ Fewest(lo2, h) <= 40
      /\ Fewest(lo, h) <= Fewest(lo2, h) /\ Fewest(lo2, h) <= Fewest(lo, h) + 3
  BY <1>2 DEF Fewest, Most, Least
<1>5. /\ Highest(lo, hi, h) \in Int /\ Highest(lo2, hi2, h) \in Int
      /\ Highest(lo, hi, h) <= Highest(lo2, hi2, h)
  BY <1>3, <1>4 DEF Highest, Most, Least
<1> QED
  BY <1>4, <1>5

(* The complexity counts the span, so it could fall when the least grows;  *)
(* what makes the least grow counts for more.                              *)
LEMMA SpanHolds ==
  ASSUME NEW lo \in Int, NEW lo2 \in Int, NEW hi \in Int, NEW hi2 \in Int, NEW h \in Nat,
         lo <= lo2, lo2 <= lo + 3, hi <= hi2
  PROVE  /\ P!RangePoints(Spread(lo, hi, h)) \in Int /\ P!RangePoints(Spread(lo2, hi2, h)) \in Int
         /\ P!RangePoints(Spread(lo, hi, h)) <=
              P!RangePoints(Spread(lo2, hi2, h)) + (IF lo = lo2 THEN 0 ELSE 1)
<1> DEFINE a == Fewest(lo, h)
           b == Fewest(lo2, h)
           c == Highest(lo, hi, h)
           d == Highest(lo2, hi2, h)
<1>1. /\ a \in Int /\ b \in Int /\ c \in Int /\ d \in Int
      /\ a <= b /\ b <= a + 3 /\ (lo = lo2 => a = b) /\ c <= d
  BY RangeGrows
<1>0. /\ Spread(lo, hi, h).min = a /\ Spread(lo, hi, h).max = c
      /\ Spread(lo2, hi2, h).min = b /\ Spread(lo2, hi2, h).max = d
  BY DEF Spread
<1> HIDE DEF a, b, c, d
<1>2. /\ P!Rounded(c - a, 3) \in Int /\ P!Rounded(d - b, 3) \in Int
      /\ P!Rounded(c - a, 3) <= P!Rounded(d - b, 3) + (IF lo = lo2 THEN 0 ELSE 1)
  BY <1>1 DEF P!Rounded
<1>3. P!Rounded(c, 5) \in Int /\ P!Rounded(d, 5) \in Int /\ P!Rounded(c, 5) <= P!Rounded(d, 5)
  BY <1>1 DEF P!Rounded
<1>4. /\ P!Min({6, P!Rounded(c - a, 3)}) = Least(6, P!Rounded(c - a, 3))
      /\ P!Min({6, P!Rounded(d - b, 3)}) = Least(6, P!Rounded(d - b, 3))
      /\ P!Min({5, P!Rounded(c, 5)}) = Least(5, P!Rounded(c, 5))
      /\ P!Min({5, P!Rounded(d, 5)}) = Least(5, P!Rounded(d, 5))
  BY <1>2, <1>3, LeastIs
<1>5. /\ P!RangePoints(Spread(lo, hi, h)) = Least(6, P!Rounded(c - a, 3)) + Least(5, P!Rounded(c, 5))
      /\ P!RangePoints(Spread(lo2, hi2, h)) = Least(6, P!Rounded(d - b, 3)) + Least(5, P!Rounded(d, 5))
  BY <1>0, <1>4 DEF P!RangePoints
<1> QED
  BY <1>2, <1>3, <1>5 DEF Least


LEMMA TiersGrow ==
  ASSUME NEW a \in Int, NEW b \in Int, a <= b
  PROVE  /\ P!RiskTier(a) \in {"LOW", "MEDIUM", "HIGH", "CRITICAL"}
         /\ P!RiskTier(b) \in {"LOW", "MEDIUM", "HIGH", "CRITICAL"}
         /\ P!Level[P!RiskTier(a)] <= P!Level[P!RiskTier(b)]
         /\ P!RiskTier(a) \in {"HIGH", "CRITICAL"} => P!RiskTier(b) \in {"HIGH", "CRITICAL"}
         /\ P!ComplexityTier(a) \in {"LOW", "MEDIUM", "HIGH", "EXTREME"}
         /\ P!ComplexityTier(b) \in {"LOW", "MEDIUM", "HIGH", "EXTREME"}
         /\ P!Level[P!ComplexityTier(a)] <= P!Level[P!ComplexityTier(b)]
         /\ P!ComplexityTier(a) \in {"HIGH", "EXTREME"} => P!ComplexityTier(b) \in {"HIGH", "EXTREME"}
<1>1. /\ P!RiskTier(a) = IF a <= 5 THEN "LOW" ELSE IF a <= 10 THEN "MEDIUM" ELSE IF a <= 16 THEN "HIGH" ELSE "CRITICAL"
      /\ P!RiskTier(b) = IF b <= 5 THEN "LOW" ELSE IF b <= 10 THEN "MEDIUM" ELSE IF b <= 16 THEN "HIGH" ELSE "CRITICAL"
  BY DEF P!RiskTier
<1>2. /\ P!ComplexityTier(a) = IF a <= 6 THEN "LOW" ELSE IF a <= 12 THEN "MEDIUM" ELSE IF a <= 20 THEN "HIGH" ELSE "EXTREME"
      /\ P!ComplexityTier(b) = IF b <= 6 THEN "LOW" ELSE IF b <= 12 THEN "MEDIUM" ELSE IF b <= 20 THEN "HIGH" ELSE "EXTREME"
  BY DEF P!ComplexityTier
<1>3. /\ P!Level["LOW"] = 0 /\ P!Level["MEDIUM"] = 1 /\ P!Level["HIGH"] = 2
      /\ P!Level["EXTREME"] = 3 /\ P!Level["CRITICAL"] = 3
  BY DEF P!Level
<1> QED
  BY <1>1, <1>2, <1>3

LEMMA RiskGrows ==
  ASSUME NEW task, NEW t, NEW project, NEW history, NEW n \in Int, NEW m \in Int, n <= m,
         RiskSum(task, project, history) <= RiskSum(t, project, history)
  PROVE  /\ P!RiskPoints(task, project, history, n) \in Int
         /\ P!RiskPoints(t, project, history, m) \in Int
         /\ P!RiskPoints(task, project, history, n) <= P!RiskPoints(t, project, history, m)
<1> DEFINE Wide(k) == CASE k >= 14 -> 4 [] k \in 9..13 -> 3 [] k \in 6..8 -> 2 [] OTHER -> 0
<1>1. Wide(n) \in Int /\ Wide(m) \in Int /\ Wide(n) <= Wide(m)
  OBVIOUS
<1>2. RiskSum(task, project, history) \in Int /\ RiskSum(t, project, history) \in Int
  BY DEF RiskSum, P!Points
<1>3. /\ P!RiskPoints(task, project, history, n) = Wide(n) + RiskSum(task, project, history)
      /\ P!RiskPoints(t, project, history, m) = Wide(m) + RiskSum(t, project, history)
  BY DEF P!RiskPoints, RiskSum, P!Points
<1> HIDE DEF Wide
<1> QED
  BY <1>1, <1>2, <1>3

LEMMA ComplexityGrows ==
  ASSUME NEW task, NEW t, NEW project, NEW history,
         "docs" \in t.words <=> "docs" \in task.words,
         NEW r, P!RangePoints(r) \in Int, NEW q, P!RangePoints(q) \in Int,
         TextSum(task) + P!RangePoints(r) <= TextSum(t) + P!RangePoints(q)
  PROVE  /\ P!ComplexityScore(task, project, history, r) \in Int
         /\ P!ComplexityScore(t, project, history, q) \in Int
         /\ P!ComplexityScore(task, project, history, r) <= P!ComplexityScore(t, project, history, q)
<1> DEFINE a == P!SizePoints(task) + P!WordPoints(task) + P!ContextPoints(project, history) + P!RangePoints(r)
           b == P!SizePoints(t) + P!WordPoints(t) + P!ContextPoints(project, history) + P!RangePoints(q)
<1>1. /\ P!SizePoints(task) \in Int /\ P!WordPoints(task) \in Int
      /\ P!SizePoints(t) \in Int /\ P!WordPoints(t) \in Int
      /\ P!ContextPoints(project, history) \in Int
  BY DEF P!SizePoints, P!WordPoints, P!ContextPoints, P!Points
<1>2. a \in Int /\ b \in Int /\ a <= b
  BY <1>1 DEF TextSum
<1>3. /\ P!ComplexityScore(task, project, history, r) = IF "docs" \in task.words THEN P!Max({0, a - 5}) ELSE a
      /\ P!ComplexityScore(t, project, history, q) = IF "docs" \in t.words THEN P!Max({0, b - 5}) ELSE b
  BY DEF P!ComplexityScore
<1> HIDE DEF a, b
<1>4. P!Max({0, a - 5}) = Most(0, a - 5) /\ P!Max({0, b - 5}) = Most(0, b - 5)
  BY <1>2, MostIs
<1> QED
  BY <1>2, <1>3, <1>4 DEF Most

LEMMA ReportGrows ==
  ASSUME NEW task \in Tasks, NEW t \in Tasks, NEW project \in Projects, NEW history \in Histories,
         SaysMore(task, t, project, history)
  PROVE  LET report == P!Analyze(task, project, history)
             other == P!Analyze(t, project, history)
         IN  /\ other.files >= report.files /\ other.severity >= report.severity
             /\ P!Level[other.risk] >= P!Level[report.risk]
             /\ P!Signals(task, report) \subseteq P!Signals(t, other)
<1> DEFINE report == P!Analyze(task, project, history)
           other == P!Analyze(t, project, history)
           h == history.files
           lo == IF "docs" \in task.words THEN Least(P!FewestFiles(task, project), 2)
                 ELSE P!FewestFiles(task, project)
           hi == IF "docs" \in task.words THEN Least(P!MostFiles(task, project), 4)
                 ELSE P!MostFiles(task, project)
           lo2 == IF "docs" \in t.words THEN Least(P!FewestFiles(t, project), 2)
                  ELSE P!FewestFiles(t, project)
           hi2 == IF "docs" \in t.words THEN Least(P!MostFiles(t, project), 4)
                  ELSE P!MostFiles(t, project)
           r == Spread(lo, hi, h)
           q == Spread(lo2, hi2, h)
<1>1. /\ P!EstimateFileRange(task, project, history) = r /\ lo \in Int /\ hi \in Int
      /\ P!EstimateFileRange(t, project, history) = q /\ lo2 \in Int /\ hi2 \in Int
  BY RangeIs
<1>2. /\ lo <= lo2 /\ lo2 <= lo + 3 /\ hi <= hi2 /\ h \in Nat
      /\ lo # lo2 => P!FewestFiles(task, project) < P!FewestFiles(t, project)
  BY SumsType DEF SaysMore, Least, Histories
<1> HIDE DEF lo, hi, lo2, hi2, h
<1>3. r.max \in Int /\ q.max \in Int /\ r.max <= q.max
  BY <1>1, <1>2, RangeGrows DEF Spread
<1> DEFINE x == P!RiskPoints(task, project, history, r.max)
           y == P!RiskPoints(t, project, history, q.max)
           c == P!ComplexityScore(task, project, history, r)
           d == P!ComplexityScore(t, project, history, q)
<1>4. x \in Int /\ y \in Int /\ x <= y
  BY <1>3, RiskGrows DEF SaysMore
<1>5. /\ P!RangePoints(r) \in Int /\ P!RangePoints(q) \in Int
      /\ P!RangePoints(r) <= P!RangePoints(q) + (IF lo = lo2 THEN 0 ELSE 1)
  BY <1>1, <1>2, SpanHolds
<1>6. /\ TextSum(task) \in Int /\ TextSum(t) \in Int
      /\ TextSum(task) <= TextSum(t) /\ (lo # lo2 => TextSum(task) < TextSum(t))
  BY <1>2 DEF SaysMore, TextSum, P!SizePoints, P!WordPoints, P!Points
<1>7. c \in Int /\ d \in Int /\ c <= d
  <2>1. TextSum(task) + P!RangePoints(r) <= TextSum(t) + P!RangePoints(q)
    BY <1>5, <1>6
  <2> QED
    BY <1>5, <2>1, ComplexityGrows DEF SaysMore
<1>8. /\ report = [risk |-> P!RiskTier(x), complexity |-> P!ComplexityTier(c), files |-> r.max,
                   severity |-> P!Max({P!Level[P!ComplexityTier(c)], P!Level[P!RiskTier(x)]}),
                   touchesRuntime |-> P!TouchesRuntime(task), kinds |-> P!ChangeTypes(task)]
      /\ other = [risk |-> P!RiskTier(y), complexity |-> P!ComplexityTier(d), files |-> q.max,
                  severity |-> P!Max({P!Level[P!ComplexityTier(d)], P!Level[P!RiskTier(y)]}),
                  touchesRuntime |-> P!TouchesRuntime(t), kinds |-> P!ChangeTypes(t)]
  BY <1>1, Zenon DEF P!Analyze
<1> HIDE DEF r, q, x, y, c, d, report, other
<1>9. /\ P!Level[P!RiskTier(x)] <= P!Level[P!RiskTier(y)]
      /\ P!Level[P!ComplexityTier(c)] <= P!Level[P!ComplexityTier(d)]
      /\ P!RiskTier(x) \in {"HIGH", "CRITICAL"} => P!RiskTier(y) \in {"HIGH", "CRITICAL"}
      /\ P!ComplexityTier(c) \in {"HIGH", "EXTREME"} => P!ComplexityTier(d) \in {"HIGH", "EXTREME"}
      /\ {P!Level[P!RiskTier(x)], P!Level[P!RiskTier(y)],
          P!Level[P!ComplexityTier(c)], P!Level[P!ComplexityTier(d)]} \subseteq 0..3
  <2>1. \A tier \in {"LOW", "MEDIUM", "HIGH", "EXTREME", "CRITICAL"} : P!Level[tier] \in 0..3
    BY DEF P!Level
  <2> QED
    BY <1>4, <1>7, <2>1, TiersGrow
<1>10. other.severity >= report.severity
  <2>1. /\ report.severity = Most(P!Level[P!ComplexityTier(c)], P!Level[P!RiskTier(x)])
        /\ other.severity = Most(P!Level[P!ComplexityTier(d)], P!Level[P!RiskTier(y)])
    BY <1>8, <1>9, MostIs
  <2> QED
    BY <1>9, <2>1 DEF Most
<1>11. P!Signals(task, report) \subseteq P!Signals(t, other)
  BY <1>8, <1>9 DEF P!Signals, SaysMore
<1> QED
  BY <1>3, <1>8, <1>9, <1>10, <1>11 DEF report, other

LEMMA AnalysisIsSound ==
  ASSUME NEW task \in Tasks, NEW project \in Projects, NEW history \in Histories
  PROVE  P!AnalysisSound(task, project, history)
<1> DEFINE More ==
      {[task EXCEPT !.words = @ \cup {w}] :
         w \in {"integration", "frontend", "backend", "database", "security",
                "orchestration", "refactor"}}
      \cup {[task EXCEPT !.names = @ \cup {n}] : n \in {"runtime", "review", "replay", "secret"}}
      \cup {[task EXCEPT !.chars = 13000], [task EXCEPT !.lines = 200]}
<1>1. ASSUME NEW t \in More
      PROVE  t \in Tasks /\ SaysMore(task, t, project, history)
  <2>1. ASSUME NEW w \in {"integration", "frontend", "backend", "database", "security",
                          "orchestration", "refactor"}, t = [task EXCEPT !.words = @ \cup {w}]
        PROVE  t \in Tasks /\ SaysMore(task, t, project, history)
    <3>1. t \in Tasks
      BY <2>1 DEF Tasks, Words
    <3> QED
      BY <2>1, <3>1, WordSaysMore
  <2>2. ASSUME NEW n \in {"runtime", "review", "replay", "secret"},
               t = [task EXCEPT !.names = @ \cup {n}]
        PROVE  t \in Tasks /\ SaysMore(task, t, project, history)
    <3>1. t \in Tasks
      BY <2>2 DEF Tasks, Words
    <3> QED
      BY <2>2, <3>1, NameSaysMore
  <2>3. ASSUME t = [task EXCEPT !.chars = 13000] \/ t = [task EXCEPT !.lines = 200]
        PROVE  t \in Tasks /\ SaysMore(task, t, project, history)
    <3>1. t \in Tasks
      BY <2>3 DEF Tasks, Words
    <3> QED
      BY <2>3, LengthSaysMore, <3>1
  <2> QED
    BY <1>1, <2>1, <2>2, <2>3
<1>2. ASSUME NEW t \in More
      PROVE  LET report == P!Analyze(task, project, history)
                 other == P!Analyze(t, project, history)
             IN  /\ other.files >= report.files /\ other.severity >= report.severity
                 /\ P!Level[other.risk] >= P!Level[report.risk]
                 /\ P!Signals(task, report) \subseteq P!Signals(t, other)
  BY <1>1, <1>2, ReportGrows
<1> QED
  BY <1>2 DEF P!AnalysisSound

-----------------------------------------------------------------------------
(* The first value that is set, of the few that are asked for.             *)
LEMMA PickIs ==
  ASSUME NEW n \in Nat, NEW values, DOMAIN values = 1 .. n
  PROVE  /\ (\A i \in 1 .. n : values[i] = Null) => P!Pick(values) = Null
         /\ \A i \in 1 .. n : values[i] # Null /\ (\A j \in 1 .. (i - 1) : values[j] = Null)
              => P!Pick(values) = values[i]
<1>1. (\A i \in 1 .. n : values[i] = Null) => P!Pick(values) = Null
  BY DEF P!Pick
<1>2. ASSUME NEW i \in 1 .. n, values[i] # Null, \A j \in 1 .. (i - 1) : values[j] = Null
      PROVE  P!Pick(values) = values[i]
  <2> DEFINE there == {k \in DOMAIN values : values[k] # Null}
  <2>1. i \in there /\ there \subseteq Int /\ values[i] # Null /\ \A k \in there : i <= k
    BY <1>2
  <2>2. P!Pick(values) = IF there = {} THEN Null ELSE values[P!Min(there)]
    BY Zenon DEF P!Pick
  <2> HIDE DEF there
  <2>3. P!Min(there) = i
    <3>1. P!Min(there) \in there /\ \A k \in there : P!Min(there) <= k
      BY <2>1 DEF P!Min
    <3> DEFINE m == P!Min(there)
    <3>2. m \in there /\ \A k \in there : m <= k
      BY <3>1
    <3> HIDE DEF m
    <3>3. m = i
      BY <2>1, <3>2
    <3> QED
      BY <3>3 DEF m
  <2> QED
    BY <2>1, <2>2, <2>3
<1> QED
  BY <1>1, <1>2

LEMMA PickOfFew ==
  ASSUME NEW v
  PROVE  /\ DOMAIN v = 1 .. 1 => P!Pick(v) = v[1]
         /\ DOMAIN v = 1 .. 2 => P!Pick(v) = IF v[1] # Null THEN v[1] ELSE v[2]
         /\ DOMAIN v = 1 .. 3 =>
              P!Pick(v) = IF v[1] # Null THEN v[1] ELSE IF v[2] # Null THEN v[2] ELSE v[3]
         /\ DOMAIN v = 1 .. 4 =>
              P!Pick(v) = IF v[1] # Null THEN v[1] ELSE IF v[2] # Null THEN v[2]
                          ELSE IF v[3] # Null THEN v[3] ELSE v[4]
<1>1. ASSUME DOMAIN v = 1 .. 1
     PROVE  P!Pick(v) = v[1]
  <2>1. /\ (\A i \in 1 .. 1 : v[i] = Null) => P!Pick(v) = Null
        /\ \A i \in 1 .. 1 : v[i] # Null /\ (\A j \in 1 .. (i - 1) : v[j] = Null) => P!Pick(v) = v[i]
    BY <1>1, PickIs
  <2> QED
    BY <2>1
<1>2. ASSUME DOMAIN v = 1 .. 2
     PROVE  P!Pick(v) = IF v[1] # Null THEN v[1] ELSE v[2]
  <2>1. /\ (\A i \in 1 .. 2 : v[i] = Null) => P!Pick(v) = Null
        /\ \A i \in 1 .. 2 : v[i] # Null /\ (\A j \in 1 .. (i - 1) : v[j] = Null) => P!Pick(v) = v[i]
    BY <1>2, PickIs
  <2> QED
    BY <2>1
<1>3. ASSUME DOMAIN v = 1 .. 3
     PROVE  P!Pick(v) = IF v[1] # Null THEN v[1] ELSE IF v[2] # Null THEN v[2] ELSE v[3]
  <2>1. /\ (\A i \in 1 .. 3 : v[i] = Null) => P!Pick(v) = Null
        /\ \A i \in 1 .. 3 : v[i] # Null /\ (\A j \in 1 .. (i - 1) : v[j] = Null) => P!Pick(v) = v[i]
    BY <1>3, PickIs
  <2> QED
    BY <2>1
<1>4. ASSUME DOMAIN v = 1 .. 4
     PROVE  P!Pick(v) = IF v[1] # Null THEN v[1] ELSE IF v[2] # Null THEN v[2] ELSE IF v[3] # Null THEN v[3] ELSE v[4]
  <2>1. /\ (\A i \in 1 .. 4 : v[i] = Null) => P!Pick(v) = Null
        /\ \A i \in 1 .. 4 : v[i] # Null /\ (\A j \in 1 .. (i - 1) : v[j] = Null) => P!Pick(v) = v[i]
    BY <1>4, PickIs
  <2> QED
    BY <2>1
<1> QED
  BY <1>1, <1>2, <1>3, <1>4

LEMMA PickOfPair ==
  ASSUME NEW a, NEW b
  PROVE  P!Pick(<<a, b>>) = IF a # Null THEN a ELSE b
<1> DEFINE v == <<a, b>>
<1>1. DOMAIN v = 1 .. 2 /\ v[1] = a /\ v[2] = b
  OBVIOUS
<1> HIDE DEF v
<1>2. P!Pick(v) = IF a # Null THEN a ELSE b
  BY <1>1, PickOfFew
<1> QED
  BY <1>2 DEF v

LEMMA PickOfThree ==
  ASSUME NEW a, NEW b, NEW c
  PROVE  P!Pick(<<a, b, c>>) = IF a # Null THEN a ELSE IF b # Null THEN b ELSE c
<1> DEFINE v == <<a, b, c>>
<1>1. DOMAIN v = 1 .. 3 /\ v[1] = a /\ v[2] = b /\ v[3] = c
  OBVIOUS
<1> HIDE DEF v
<1>2. P!Pick(v) = IF a # Null THEN a ELSE IF b # Null THEN b ELSE c
  BY <1>1, PickOfFew
<1> QED
  BY <1>2 DEF v

LEMMA ExplicitIs ==
  ASSUME NEW file, NEW f \in DOMAIN P!Names
  PROVE  \/ \E a : P!Explicit(file, f) = <<a>> /\ f \notin {"files", "prompt"}
         \/ \E a, b : P!Explicit(file, f) = <<a, b>>
<1>1. \A x : P!Get(file, x) = P!Get(file, x)
  OBVIOUS
<1>2. /\ P!Names["cost"] = <<"cost">> /\ P!Names["ratio"] = <<"ratio">>
      /\ P!Names["inflation"] = <<"inflation">>
      /\ P!Names["files"] = <<"files", "files_estimate">>
      /\ P!Names["prompt"] = <<"prompt", "prompt_estimate">>
      /\ P!Names["corrections"] = <<"corrections_cap", "corrections">>
      /\ P!Names["mode"] = <<"mode">> /\ P!Names["resolution"] = <<"resolution">>
      /\ f \in {"cost", "ratio", "inflation", "files", "prompt", "corrections", "mode", "resolution"}
  BY DEF P!Names
<1>3. ASSUME NEW x, P!Names[f] = <<x>>
      PROVE  P!Explicit(file, f) = <<P!Get(file, x)>>
  BY <1>3 DEF P!Explicit
<1>4. ASSUME NEW x, NEW y, P!Names[f] = <<x, y>>
      PROVE  P!Explicit(file, f) = <<P!Get(file, x), P!Get(file, y)>>
  BY <1>4 DEF P!Explicit
<1> QED
  BY <1>2, <1>3, <1>4

-----------------------------------------------------------------------------
(* The value of one limit: of the environment, of the file, of the         *)
(* profile.                                                                *)
GivenBy(file, f) == P!Pick(P!Explicit(file, f))

Value(file, env, f, default) ==
  IF f \in DOMAIN env.limits THEN env.limits[f]
  ELSE IF GivenBy(file, f) # Null THEN GivenBy(file, f) ELSE default

LEMMA PicksAreValues ==
  ASSUME NEW file, NEW f \in DOMAIN P!Names
  PROVE  LET e == P!Explicit(file, f)
             found == GivenBy(file, f)
         IN  /\ \A b : P!Pick(Append(e, b)) = IF found # Null THEN found ELSE b
             /\ \A b, m : P!Pick(e \o <<b, m>>) =
                          IF found # Null THEN found ELSE IF b # Null THEN b ELSE m
             /\ \A b : P!Pick(<<>> \o e \o <<b>>) = IF found # Null THEN found ELSE b
             /\ \A b, g : P!Pick(<<g>> \o e \o <<b>>) =
                          IF g # Null THEN g ELSE IF found # Null THEN found ELSE b
             /\ P!Pick(<<>> \o e) = found
             /\ \A g : P!Pick(<<g>> \o e) = IF g # Null THEN g ELSE found
<1>1. CASE \E x : P!Explicit(file, f) = <<x>> /\ f \notin {"files", "prompt"}
  <2>0. PICK x : P!Explicit(file, f) = <<x>>
    BY <1>1
  <2>1. ASSUME NEW b
       PROVE  P!Pick(Append(<<x>>, b)) = IF x # Null THEN x ELSE b
    <3> DEFINE v == Append(<<x>>, b)
    <3>1. DOMAIN v = 1 .. 2 /\ v[1] = x /\ v[2] = b
      OBVIOUS
    <3> HIDE DEF v
    <3>2. P!Pick(v) = IF x # Null THEN x ELSE b
      BY <3>1, PickOfFew
    <3> QED
      BY <3>2 DEF v
  <2>2. ASSUME NEW b, NEW m
       PROVE  P!Pick(<<x>> \o <<b, m>>) = IF x # Null THEN x ELSE IF b # Null THEN b ELSE m
    <3> DEFINE v == <<x>> \o <<b, m>>
    <3>1. DOMAIN v = 1 .. 3 /\ v[1] = x /\ v[2] = b /\ v[3] = m
      OBVIOUS
    <3> HIDE DEF v
    <3>2. P!Pick(v) = IF x # Null THEN x ELSE IF b # Null THEN b ELSE m
      BY <3>1, PickOfFew
    <3> QED
      BY <3>2 DEF v
  <2>3. ASSUME NEW b
       PROVE  P!Pick(<<>> \o <<x>> \o <<b>>) = IF x # Null THEN x ELSE b
    <3> DEFINE v == <<>> \o <<x>> \o <<b>>
    <3>1. DOMAIN v = 1 .. 2 /\ v[1] = x /\ v[2] = b
      OBVIOUS
    <3> HIDE DEF v
    <3>2. P!Pick(v) = IF x # Null THEN x ELSE b
      BY <3>1, PickOfFew
    <3> QED
      BY <3>2 DEF v
  <2>4. ASSUME NEW b, NEW g
       PROVE  P!Pick(<<g>> \o <<x>> \o <<b>>) = IF g # Null THEN g ELSE IF x # Null THEN x ELSE b
    <3> DEFINE v == <<g>> \o <<x>> \o <<b>>
    <3>1. DOMAIN v = 1 .. 3 /\ v[1] = g /\ v[2] = x /\ v[3] = b
      OBVIOUS
    <3> HIDE DEF v
    <3>2. P!Pick(v) = IF g # Null THEN g ELSE IF x # Null THEN x ELSE b
      BY <3>1, PickOfFew
    <3> QED
      BY <3>2 DEF v
  <2>5. P!Pick(<<>> \o <<x>>) = x
    <3> DEFINE v == <<>> \o <<x>>
    <3>1. DOMAIN v = 1 .. 1 /\ v[1] = x
      OBVIOUS
    <3> HIDE DEF v
    <3>2. P!Pick(v) = x
      BY <3>1, PickOfFew
    <3> QED
      BY <3>2 DEF v
  <2>6. ASSUME NEW g
       PROVE  P!Pick(<<g>> \o <<x>>) = IF g # Null THEN g ELSE x
    <3> DEFINE v == <<g>> \o <<x>>
    <3>1. DOMAIN v = 1 .. 2 /\ v[1] = g /\ v[2] = x
      OBVIOUS
    <3> HIDE DEF v
    <3>2. P!Pick(v) = IF g # Null THEN g ELSE x
      BY <3>1, PickOfFew
    <3> QED
      BY <3>2 DEF v
  <2>7. GivenBy(file, f) = x
    <3> DEFINE v == <<x>>
    <3>1. DOMAIN v = 1 .. 1 /\ v[1] = x
      OBVIOUS
    <3> HIDE DEF v
    <3>2. P!Pick(v) = x
      BY <3>1, PickOfFew
    <3> QED
      BY <2>0, <3>2 DEF v, GivenBy
  <2> QED
    BY <2>0, <2>1, <2>2, <2>3, <2>4, <2>5, <2>6, <2>7
<1>2. CASE \E x, y : P!Explicit(file, f) = <<x, y>>
  <2>0. PICK x, y : P!Explicit(file, f) = <<x, y>>
    BY <1>2
  <2>1. ASSUME NEW b
       PROVE  P!Pick(Append(<<x, y>>, b)) = IF x # Null THEN x ELSE IF y # Null THEN y ELSE b
    <3> DEFINE v == Append(<<x, y>>, b)
    <3>1. DOMAIN v = 1 .. 3 /\ v[1] = x /\ v[2] = y /\ v[3] = b
      OBVIOUS
    <3> HIDE DEF v
    <3>2. P!Pick(v) = IF x # Null THEN x ELSE IF y # Null THEN y ELSE b
      BY <3>1, PickOfFew
    <3> QED
      BY <3>2 DEF v
  <2>2. ASSUME NEW b, NEW m
       PROVE  P!Pick(<<x, y>> \o <<b, m>>) = IF x # Null THEN x ELSE IF y # Null THEN y ELSE IF b # Null THEN b ELSE m
    <3> DEFINE v == <<x, y>> \o <<b, m>>
    <3>1. DOMAIN v = 1 .. 4 /\ v[1] = x /\ v[2] = y /\ v[3] = b /\ v[4] = m
      OBVIOUS
    <3> HIDE DEF v
    <3>2. P!Pick(v) = IF x # Null THEN x ELSE IF y # Null THEN y ELSE IF b # Null THEN b ELSE m
      BY <3>1, PickOfFew
    <3> QED
      BY <3>2 DEF v
  <2>3. ASSUME NEW b
       PROVE  P!Pick(<<>> \o <<x, y>> \o <<b>>) = IF x # Null THEN x ELSE IF y # Null THEN y ELSE b
    <3> DEFINE v == <<>> \o <<x, y>> \o <<b>>
    <3>1. DOMAIN v = 1 .. 3 /\ v[1] = x /\ v[2] = y /\ v[3] = b
      OBVIOUS
    <3> HIDE DEF v
    <3>2. P!Pick(v) = IF x # Null THEN x ELSE IF y # Null THEN y ELSE b
      BY <3>1, PickOfFew
    <3> QED
      BY <3>2 DEF v
  <2>4. ASSUME NEW b, NEW g
       PROVE  P!Pick(<<g>> \o <<x, y>> \o <<b>>) = IF g # Null THEN g ELSE IF x # Null THEN x ELSE IF y # Null THEN y ELSE b
    <3> DEFINE v == <<g>> \o <<x, y>> \o <<b>>
    <3>1. DOMAIN v = 1 .. 4 /\ v[1] = g /\ v[2] = x /\ v[3] = y /\ v[4] = b
      OBVIOUS
    <3> HIDE DEF v
    <3>2. P!Pick(v) = IF g # Null THEN g ELSE IF x # Null THEN x ELSE IF y # Null THEN y ELSE b
      BY <3>1, PickOfFew
    <3> QED
      BY <3>2 DEF v
  <2>5. P!Pick(<<>> \o <<x, y>>) = IF x # Null THEN x ELSE y
    <3> DEFINE v == <<>> \o <<x, y>>
    <3>1. DOMAIN v = 1 .. 2 /\ v[1] = x /\ v[2] = y
      OBVIOUS
    <3> HIDE DEF v
    <3>2. P!Pick(v) = IF x # Null THEN x ELSE y
      BY <3>1, PickOfFew
    <3> QED
      BY <3>2 DEF v
  <2>6. ASSUME NEW g
       PROVE  P!Pick(<<g>> \o <<x, y>>) = IF g # Null THEN g ELSE IF x # Null THEN x ELSE y
    <3> DEFINE v == <<g>> \o <<x, y>>
    <3>1. DOMAIN v = 1 .. 3 /\ v[1] = g /\ v[2] = x /\ v[3] = y
      OBVIOUS
    <3> HIDE DEF v
    <3>2. P!Pick(v) = IF g # Null THEN g ELSE IF x # Null THEN x ELSE y
      BY <3>1, PickOfFew
    <3> QED
      BY <3>2 DEF v
  <2>7. GivenBy(file, f) = IF x # Null THEN x ELSE y
    <3> DEFINE v == <<x, y>>
    <3>1. DOMAIN v = 1 .. 2 /\ v[1] = x /\ v[2] = y
      OBVIOUS
    <3> HIDE DEF v
    <3>2. P!Pick(v) = IF x # Null THEN x ELSE y
      BY <3>1, PickOfFew
    <3> QED
      BY <2>0, <3>2 DEF v, GivenBy
  <2> QED
    BY <2>0, <2>1, <2>2, <2>3, <2>4, <2>5, <2>6, <2>7
<1> QED
  BY <1>1, <1>2, ExplicitIs

(* A profile that is merged a second time gives the limits it gave.        *)
LEMMA MergedOnce ==
  ASSUME NEW file, NEW base
  PROVE  LET first == P!Merged(file, base)
             again == P!MergedAgain(file, base, first)
             whole == DOMAIN P!Names \cup {"enforcement", "demands"}
         IN  /\ DOMAIN first = whole /\ DOMAIN again = whole
             /\ first.enforcement = base.enforcement /\ again.enforcement = base.enforcement
             /\ first.demands = P!DemandsOf(file, base) /\ again.demands = P!DemandsOf(file, base)
             /\ \A f \in DOMAIN P!Names :
                  /\ first[f] = IF GivenBy(file, f) # Null THEN GivenBy(file, f) ELSE base[f]
                  /\ again[f] = first[f]
<1> DEFINE first == P!Merged(file, base)
           again == P!MergedAgain(file, base, first)
           whole == DOMAIN P!Names \cup {"enforcement", "demands"}
<1>0. DOMAIN P!Names = {"cost", "ratio", "inflation", "files", "prompt", "corrections", "mode", "resolution"}
  BY DEF P!Names
<1>1. DOMAIN first = whole /\ first.enforcement = base.enforcement
      /\ first.demands = P!DemandsOf(file, base)
  BY <1>0 DEF P!Merged
<1>2. ASSUME NEW f \in DOMAIN P!Names
      PROVE  first[f] = IF GivenBy(file, f) # Null THEN GivenBy(file, f) ELSE base[f]
  <2>1. first[f] = P!Pick(Append(P!Explicit(file, f), base[f]))
    BY <1>0 DEF P!Merged
  <2> QED
    BY <2>1, PicksAreValues
<1> HIDE DEF first
<1>3. DOMAIN again = whole /\ again.enforcement = base.enforcement
      /\ again.demands = P!DemandsOf(file, base)
  BY <1>0, <1>1 DEF P!MergedAgain
<1>4. ASSUME NEW f \in DOMAIN P!Names
      PROVE  again[f] = first[f]
  <2>1. CASE f = "cost"
    BY <1>0, <1>1, <2>1 DEF P!MergedAgain
  <2>2. CASE f \in {"files", "prompt"}
    <3> DEFINE given == P!Explicit(file, f)
               default == IF P!Pick(given) # Null THEN Null ELSE P!Pick(<<base[f], first[f]>>)
    <3>1. again[f] = P!Pick(given \o <<default, first[f]>>)
      BY <1>0, <1>1, <2>2 DEF P!MergedAgain
    <3>2. default = IF GivenBy(file, f) # Null THEN Null ELSE IF base[f] # Null THEN base[f] ELSE first[f]
      BY PickOfPair DEF GivenBy
    <3> HIDE DEF default
    <3>3. again[f] = IF GivenBy(file, f) # Null THEN GivenBy(file, f) ELSE IF default # Null THEN default ELSE first[f]
      BY <3>1, PicksAreValues
    <3> QED
      BY <1>2, <3>2, <3>3
  <2>3. CASE f \notin {"cost", "files", "prompt"}
    <3>1. again[f] = P!Pick(P!Explicit(file, f) \o <<base[f], first[f]>>)
      BY <1>0, <1>1, <2>3 DEF P!MergedAgain
    <3>2. again[f] = IF GivenBy(file, f) # Null THEN GivenBy(file, f) ELSE IF base[f] # Null THEN base[f] ELSE first[f]
      BY <3>1, PicksAreValues
    <3> QED
      BY <1>2, <3>2
  <2> QED
    BY <2>1, <2>2, <2>3
<1> QED
  BY <1>1, <1>2, <1>3, <1>4 DEF first

ProfileOf(file, env, cli) == P!Pick(<<cli.profile, P!Get(file, "profile"), env.profile>>)

LEMMA PackIs ==
  ASSUME NEW file, NEW env, NEW cli, IsEnvironment(env),
         cli.disable \in BOOLEAN, cli.bypass \in BOOLEAN
  PROVE  LET pack == P!LoadMergedPolicy(file, env, cli)
             off == cli.disable \/ env.disable
             base == P!Profile(pack.profile)
         IN  /\ pack.disabled = off
             /\ pack.bypass = (cli.bypass \/ env.bypass \/ P!Get(file, "bypass_always") = "yes")
             /\ off => pack.profile = "NORMAL" /\ pack.merged = base
             /\ ~off =>
                  /\ pack.profile = ProfileOf(file, env, cli)
                  /\ pack.merged.enforcement = base.enforcement
                  /\ pack.merged.demands = P!DemandsOf(file, base)
                  /\ \A f \in DOMAIN P!Names : pack.merged[f] = Value(file, env, f, base[f])
<1> DEFINE pack == P!LoadMergedPolicy(file, env, cli)
           off == cli.disable \/ env.disable
           base == P!Profile(ProfileOf(file, env, cli))
           first == P!Merged(file, base)
           merged == IF cli.profile = Null THEN first ELSE P!MergedAgain(file, base, first)
           bypass == cli.bypass \/ env.bypass \/ P!Get(file, "bypass_always") = "yes"
<1>0. cli.disable \in BOOLEAN /\ cli.bypass \in BOOLEAN /\ env.disable \in BOOLEAN /\ env.bypass \in BOOLEAN
  BY DEF IsEnvironment
<1>1. CASE off
  <2>1. pack = [disabled |-> TRUE, bypass |-> bypass, profile |-> "NORMAL", merged |-> P!Profile("NORMAL")]
    BY <1>1, Zenon DEF P!LoadMergedPolicy
  <2> HIDE DEF pack
  <2>2. pack.disabled = off
    BY <1>0, <1>1, <2>1
  <2>3. pack.bypass = bypass
    BY <1>0, <1>1, <2>1
  <2>4. pack.profile = "NORMAL" /\ pack.merged = P!Profile(pack.profile)
    BY <1>0, <1>1, <2>1
  <2> QED
    BY <1>1, <2>2, <2>3, <2>4 DEF pack
<1>2. CASE ~off
  <2>1. pack = [disabled |-> FALSE, bypass |-> bypass, profile |-> ProfileOf(file, env, cli),
                merged |-> P!Override(env, merged)]
    BY <1>2, Zenon DEF P!LoadMergedPolicy, ProfileOf
  <2> HIDE DEF pack
  <2>2. /\ DOMAIN merged = DOMAIN P!Names \cup {"enforcement", "demands"}
        /\ merged.enforcement = base.enforcement /\ merged.demands = P!DemandsOf(file, base)
        /\ \A f \in DOMAIN P!Names :
             merged[f] = IF GivenBy(file, f) # Null THEN GivenBy(file, f) ELSE base[f]
    BY MergedOnce
  <2> HIDE DEF base, first, merged, off, bypass
  <2>3. DOMAIN env.limits \subseteq {"cost", "files", "corrections", "mode", "resolution"}
    BY DEF IsEnvironment
  <2>4. /\ P!Override(env, merged).enforcement = base.enforcement
        /\ P!Override(env, merged).demands = P!DemandsOf(file, base)
        /\ \A f \in DOMAIN P!Names : P!Override(env, merged)[f] = Value(file, env, f, base[f])
    BY <2>2, <2>3 DEF P!Override, Value, P!Names
  <2>5. pack.disabled = off
    BY <1>0, <1>2, <2>1 DEF off
  <2>6. pack.bypass = bypass
    BY <2>1
  <2>7. pack.profile = ProfileOf(file, env, cli) /\ pack.merged = P!Override(env, merged)
    BY <2>1
  <2>8. P!Profile(pack.profile) = base
    BY <2>7 DEF base
  <2> QED
    BY <1>2, <2>4, <2>5, <2>6, <2>7, <2>8 DEF pack, off, bypass
<1> QED
  BY <1>1, <1>2

LEMMA MergeIsSound ==
  ASSUME NEW file, NEW env, NEW cli, IsPolicyFile(file), IsEnvironment(env),
         cli \in CommandLines(STRING \cup {Null})
  PROVE  P!MergeSound(file, env, cli)
<1> DEFINE pack == P!LoadMergedPolicy(file, env, cli)
           told == P!ApplyCli(env, cli)
           later == P!LoadMergedPolicy(file, told, P!NoFlags)
           base == P!Profile(pack.profile)
           Given(f) == IF f \in DOMAIN env.limits THEN <<env.limits[f]>> ELSE <<>>
<1>0. /\ cli.disable \in BOOLEAN /\ cli.bypass \in BOOLEAN
      /\ env.disable \in BOOLEAN /\ env.bypass \in BOOLEAN
      /\ env = [profile |-> env.profile, disable |-> env.disable, bypass |-> env.bypass,
                limits |-> env.limits]
  BY DEF IsEnvironment, CommandLines
<1>1. /\ told.profile = IF cli.profile # Null THEN cli.profile ELSE env.profile
      /\ told.bypass = (env.bypass \/ cli.bypass)
      /\ told.disable = (env.disable \/ cli.disable)
      /\ IsEnvironment(told)
  <2>1. told = [profile |-> P!Pick(<<cli.profile, env.profile>>), disable |-> env.disable \/ cli.disable,
                bypass |-> env.bypass \/ cli.bypass, limits |-> env.limits]
    BY Zenon DEF P!ApplyCli
  <2>2. P!Pick(<<cli.profile, env.profile>>) = IF cli.profile # Null THEN cli.profile ELSE env.profile
    BY PickOfPair
  <2> HIDE DEF told
  <2>3. told.profile = IF cli.profile # Null THEN cli.profile ELSE env.profile
    BY <2>1, <2>2
  <2>4. told.bypass = (env.bypass \/ cli.bypass) /\ told.bypass \in BOOLEAN
    BY <1>0, <2>1
  <2>5. told.disable = (env.disable \/ cli.disable) /\ told.disable \in BOOLEAN
    BY <1>0, <2>1
  <2>6. told.limits = env.limits
    BY <2>1
  <2>7. told = [profile |-> told.profile, disable |-> told.disable, bypass |-> told.bypass,
                limits |-> told.limits]
    BY <2>1
  <2>8. IsEnvironment(told)
    BY <2>3, <2>4, <2>5, <2>6, <2>7 DEF IsEnvironment
  <2> QED
    BY <2>3, <2>4, <2>5, <2>8
<1>2. P!NoFlags.profile = Null /\ P!NoFlags.bypass = FALSE /\ P!NoFlags.disable = FALSE
  BY DEF P!NoFlags
<1> HIDE DEF pack, told, later, base, Given
<1>3. /\ pack.disabled = (cli.disable \/ env.disable)
      /\ pack.bypass = (cli.bypass \/ env.bypass \/ P!Get(file, "bypass_always") = "yes")
      /\ (cli.disable \/ env.disable) => pack.profile = "NORMAL"
      /\ ~(cli.disable \/ env.disable) => pack.profile = ProfileOf(file, env, cli)
  BY <1>0, PackIs DEF pack
<1>4. /\ later.disabled = told.disable
      /\ later.bypass = (told.bypass \/ P!Get(file, "bypass_always") = "yes")
      /\ told.disable => later.profile = "NORMAL"
      /\ ~told.disable => later.profile = ProfileOf(file, told, P!NoFlags)
  <2>1. P!NoFlags.bypass \in BOOLEAN /\ P!NoFlags.disable \in BOOLEAN
    BY <1>2
  <2>2. /\ later.disabled = (P!NoFlags.disable \/ told.disable)
        /\ later.bypass = (P!NoFlags.bypass \/ told.bypass \/ P!Get(file, "bypass_always") = "yes")
        /\ (P!NoFlags.disable \/ told.disable) => later.profile = "NORMAL"
        /\ ~(P!NoFlags.disable \/ told.disable) => later.profile = ProfileOf(file, told, P!NoFlags)
    BY <1>1, <2>1, PackIs DEF later
  <2>3. told.disable \in BOOLEAN /\ told.bypass \in BOOLEAN
    BY <1>1 DEF IsEnvironment
  <2> QED
    BY <1>2, <2>2, <2>3
<1>5. later.bypass = pack.bypass /\ later.disabled = pack.disabled
  BY <1>0, <1>1, <1>3, <1>4
<1>6. later.profile # pack.profile => later.profile = P!Get(file, "profile")
  <2>1. ProfileOf(file, env, cli) = IF cli.profile # Null THEN cli.profile
          ELSE IF P!Get(file, "profile") # Null THEN P!Get(file, "profile") ELSE env.profile
    BY PickOfThree DEF ProfileOf
  <2>2. ProfileOf(file, told, P!NoFlags) =
          IF P!Get(file, "profile") # Null THEN P!Get(file, "profile") ELSE told.profile
    BY <1>2, PickOfThree DEF ProfileOf
  <2> QED
    BY <1>0, <1>1, <1>3, <1>4, <2>1, <2>2
<1>7. ASSUME ~pack.disabled
      PROVE  /\ pack.merged.enforcement = base.enforcement
             /\ pack.merged.demands = P!DemandsOf(file, base)
             /\ \A f \in DOMAIN P!Names : pack.merged[f] = Value(file, env, f, base[f])
  BY <1>0, <1>3, <1>7, PackIs DEF pack, base
<1>8. ASSUME NEW f \in DOMAIN P!Names
      PROVE  /\ P!Pick(Given(f) \o P!Explicit(file, f) \o <<base[f]>>) = Value(file, env, f, base[f])
             /\ P!Pick(Given(f) \o P!Explicit(file, f)) = Value(file, env, f, Null)
  <2>1. CASE f \in DOMAIN env.limits
    <3>1. Given(f) = <<env.limits[f]>> /\ env.limits[f] # Null
      BY <2>1, PolicyAssumption DEF Given, IsEnvironment
    <3> QED
      BY <2>1, <3>1, PicksAreValues DEF Value
  <2>2. CASE f \notin DOMAIN env.limits
    <3>1. Given(f) = <<>>
      BY <2>2 DEF Given
    <3> QED
      BY <2>2, <3>1, PicksAreValues DEF Value
  <2> QED
    BY <2>1, <2>2
<1>9. ASSUME ~pack.disabled, P!ResolveMode(pack).hard
      PROVE  ~pack.bypass /\ P!Pick(Given("mode") \o P!Explicit(file, "mode")) = "enforce"
  <2>1. ~pack.bypass /\ pack.merged.mode = "enforce"
    BY <1>9 DEF P!ResolveMode
  <2>2. base.mode = "report" /\ "mode" \in DOMAIN P!Names
    BY DEF P!Profile, P!Names, base
  <2>3. Value(file, env, "mode", base.mode) = "enforce"
    BY <1>7, <1>9, <2>1, <2>2
  <2>4. Value(file, env, "mode", Null) = "enforce"
    BY <2>2, <2>3 DEF Value
  <2> QED
    BY <1>8, <2>1, <2>2, <2>4
<1>10. ~pack.disabled =>
        /\ pack.merged.enforcement = base.enforcement
        /\ \A f \in DOMAIN P!Names :
             pack.merged[f] = P!Pick(Given(f) \o P!Explicit(file, f) \o <<base[f]>>)
        /\ pack.merged.demands = P!DemandsOf(file, base)
        /\ P!ResolveMode(pack).hard =>
             ~pack.bypass /\ P!Pick(Given("mode") \o P!Explicit(file, "mode")) = "enforce"
  BY <1>7, <1>8, <1>9
<1> QED
  BY <1>5, <1>6, <1>10, Zenon DEF P!MergeSound, pack, later, base, told, Given

-----------------------------------------------------------------------------
(* What the analysis answers.                                              *)
LEMMA ReportType ==
  ASSUME NEW task \in Tasks, NEW project \in Projects, NEW history \in Histories
  PROVE  LET report == P!Analyze(task, project, history)
         IN  /\ report.files \in Int /\ report.severity \in 0 .. 3
             /\ report.touchesRuntime = P!TouchesRuntime(task)
             /\ report.kinds = P!ChangeTypes(task)
<1> DEFINE report == P!Analyze(task, project, history)
           h == history.files
           lo == IF "docs" \in task.words THEN Least(P!FewestFiles(task, project), 2)
                 ELSE P!FewestFiles(task, project)
           hi == IF "docs" \in task.words THEN Least(P!MostFiles(task, project), 4)
                 ELSE P!MostFiles(task, project)
           r == Spread(lo, hi, h)
           x == P!RiskPoints(task, project, history, r.max)
           c == P!ComplexityScore(task, project, history, r)
<1>1. P!EstimateFileRange(task, project, history) = r /\ lo \in Int /\ hi \in Int
  BY RangeIs
<1> HIDE DEF lo, hi, h
<1>2. h \in Nat
  BY DEF h, Histories
<1>3. r.max \in Int /\ P!RangePoints(r) \in Int
  <2>1. lo <= lo /\ lo <= lo + 3 /\ hi <= hi
    BY <1>1
  <2>2. Highest(lo, hi, h) \in Int
    BY <1>1, <1>2, <2>1, RangeGrows
  <2>3. P!RangePoints(r) \in Int
    BY <1>1, <1>2, <2>1, SpanHolds
  <2> QED
    BY <2>2, <2>3 DEF Spread
<1>4. x \in Int /\ c \in Int
  <2>1. RiskSum(task, project, history) \in Int /\ TextSum(task) \in Int
    BY DEF RiskSum, TextSum, P!SizePoints, P!WordPoints, P!Points
  <2>2. RiskSum(task, project, history) <= RiskSum(task, project, history)
        /\ r.max <= r.max /\ TextSum(task) + P!RangePoints(r) <= TextSum(task) + P!RangePoints(r)
    BY <1>3, <2>1
  <2>3. x \in Int
    BY <1>3, <2>2, RiskGrows
  <2>4. c \in Int
    BY <1>3, <2>2, ComplexityGrows
  <2> QED
    BY <2>3, <2>4
<1>5. report = [risk |-> P!RiskTier(x), complexity |-> P!ComplexityTier(c), files |-> r.max,
                severity |-> P!Max({P!Level[P!ComplexityTier(c)], P!Level[P!RiskTier(x)]}),
                touchesRuntime |-> P!TouchesRuntime(task), kinds |-> P!ChangeTypes(task)]
  BY <1>1, Zenon DEF P!Analyze
<1> HIDE DEF r, x, c, report
<1>6. P!Level[P!ComplexityTier(c)] \in 0 .. 3 /\ P!Level[P!RiskTier(x)] \in 0 .. 3
  <2>1. \A tier \in {"LOW", "MEDIUM", "HIGH", "EXTREME", "CRITICAL"} : P!Level[tier] \in 0..3
    BY DEF P!Level
  <2> QED
    BY <1>4, <2>1, TiersGrow
<1>7. P!Max({P!Level[P!ComplexityTier(c)], P!Level[P!RiskTier(x)]}) \in 0 .. 3
  BY <1>6, MostIs DEF Most
<1> QED
  BY <1>3, <1>5, <1>7 DEF report

(* The profiles, from the laxest to the strictest.                         *)
LEMMA ProfilesTighten ==
  ASSUME NEW p \in P!Profiles, NEW q, q = P!Stricter[p]
  PROVE  LET lax == P!Profile(p)
             strict == P!Profile(q)
         IN  /\ q \in P!Profiles
             /\ lax.enforcement \in P!Hard => strict.enforcement \in P!Hard
             /\ lax.enforcement = "BLOCK_ENTERPRISE" => strict.enforcement = "BLOCK_ENTERPRISE"
             /\ lax.demands \subseteq strict.demands
             /\ lax.cost = Null /\ strict.cost = Null
             /\ lax.files # Null =>
                  lax.files \in Int /\ strict.files \in Int /\ strict.files <= lax.files
             /\ lax.prompt # Null =>
                  lax.prompt \in Int /\ strict.prompt \in Int /\ strict.prompt <= lax.prompt
<1>1. \/ p = "FAST" /\ q = "NORMAL"
      \/ p = "NORMAL" /\ q = "STRICT"
      \/ p = "STRICT" /\ q = "ENTERPRISE"
      \/ p = "ENTERPRISE" /\ q = "ENTERPRISE"
  BY DEF P!Profiles, P!Stricter
<1>2. q \in P!Profiles
  BY <1>1 DEF P!Profiles
<1>3. P!Profile(p).cost = Null /\ P!Profile(q).cost = Null
  BY DEF P!Profile
<1>4. /\ P!Profile(p).enforcement = IF p = "STRICT" THEN "BLOCK_CRITICAL"
                                    ELSE IF p = "ENTERPRISE" THEN "BLOCK_ENTERPRISE" ELSE "WARN"
      /\ P!Profile(q).enforcement = IF q = "STRICT" THEN "BLOCK_CRITICAL"
                                    ELSE IF q = "ENTERPRISE" THEN "BLOCK_ENTERPRISE" ELSE "WARN"
  BY DEF P!Profile
<1>5. /\ P!Profile(p).files = IF p = "STRICT" THEN 24 ELSE IF p = "ENTERPRISE" THEN 20 ELSE Null
      /\ P!Profile(q).files = IF q = "STRICT" THEN 24 ELSE IF q = "ENTERPRISE" THEN 20 ELSE Null
  BY DEF P!Profile
<1>6. /\ P!Profile(p).prompt = IF p = "STRICT" THEN 180000 ELSE IF p = "ENTERPRISE" THEN 120000 ELSE Null
      /\ P!Profile(q).prompt = IF q = "STRICT" THEN 180000 ELSE IF q = "ENTERPRISE" THEN 120000 ELSE Null
  BY DEF P!Profile
<1>7. /\ P!Profile(p).demands = IF p = "STRICT" THEN P!Demands \ {"apply_later"}
                                ELSE IF p = "ENTERPRISE" THEN P!Demands ELSE {}
      /\ P!Profile(q).demands = IF q = "STRICT" THEN P!Demands \ {"apply_later"}
                                ELSE IF q = "ENTERPRISE" THEN P!Demands ELSE {}
  BY DEF P!Profile
<1>8. P!Profile(p).demands \subseteq P!Profile(q).demands
  BY <1>1, <1>7
<1>9. /\ P!Profile(p).enforcement \in P!Hard => P!Profile(q).enforcement \in P!Hard
      /\ P!Profile(p).enforcement = "BLOCK_ENTERPRISE" => P!Profile(q).enforcement = "BLOCK_ENTERPRISE"
  BY <1>1, <1>4 DEF P!Hard
<1>10. P!Profile(p).files # Null =>
         P!Profile(p).files \in Int /\ P!Profile(q).files \in Int /\ P!Profile(q).files <= P!Profile(p).files
  <2>1. CASE p \in {"FAST", "NORMAL"}
    BY <1>5, <2>1
  <2>2. CASE p = "STRICT" /\ q = "ENTERPRISE"
    <3>1. P!Profile(p).files = 24 /\ P!Profile(q).files = 20
      BY <1>5, <2>2
    <3> QED
      BY <3>1
  <2>3. CASE p = "ENTERPRISE" /\ q = "ENTERPRISE"
    <3>1. P!Profile(p).files = 20 /\ P!Profile(q).files = 20
      BY <1>5, <2>3
    <3> QED
      BY <3>1
  <2> QED
    BY <1>1, <2>1, <2>2, <2>3
<1>11. P!Profile(p).prompt # Null =>
         P!Profile(p).prompt \in Int /\ P!Profile(q).prompt \in Int /\ P!Profile(q).prompt <= P!Profile(p).prompt
  <2>1. CASE p \in {"FAST", "NORMAL"}
    BY <1>6, <2>1
  <2>2. CASE p = "STRICT" /\ q = "ENTERPRISE"
    <3>1. P!Profile(p).prompt = 180000 /\ P!Profile(q).prompt = 120000
      BY <1>6, <2>2
    <3> QED
      BY <3>1
  <2>3. CASE p = "ENTERPRISE" /\ q = "ENTERPRISE"
    <3>1. P!Profile(p).prompt = 120000 /\ P!Profile(q).prompt = 120000
      BY <1>6, <2>3
    <3> QED
      BY <3>1
  <2> QED
    BY <1>1, <2>1, <2>2, <2>3
<1> QED
  BY <1>2, <1>3, <1>8, <1>9, <1>10, <1>11

(* What stops a run under a hard gate.                                     *)
Stops(m, signals, report, est, dry) ==
  \/ P!MandatoryDryRun(m, signals) /\ ~dry
  \/ "apply_later" \in m.demands /\ "runtime_core" \in signals /\ ~dry
  \/ P!Over(est.cost, m.cost) \/ P!Over(report.files, m.files) \/ P!Over(est.prompt, m.prompt)

(* What is said of a run, code by code.                                    *)
LEMMA BlockersAre ==
  ASSUME NEW pack, NEW task, NEW report, NEW est, NEW dry
  PROVE  /\ (\E d \in P!Decisions(pack, task, report, est, dry) : d.blocker) <=>
              P!AllowsHardGate(pack) /\
              (\/ P!MandatoryDryRun(pack.merged, P!Signals(task, report)) /\ ~dry /\ ~pack.bypass
               \/ /\ "apply_later" \in pack.merged.demands /\ ~dry
                  /\ "runtime_core" \in P!Signals(task, report)
               \/ P!Over(est.cost, pack.merged.cost)
               \/ P!Over(report.files, pack.merged.files) \/ P!Over(est.prompt, pack.merged.prompt))
         /\ P!Over(est.cost, pack.merged.cost) =>
              \E d \in P!Decisions(pack, task, report, est, dry) : d.code = "cost"
         /\ P!Over(report.files, pack.merged.files) =>
              \E d \in P!Decisions(pack, task, report, est, dry) : d.code = "files"
         /\ P!Over(est.prompt, pack.merged.prompt) =>
              \E d \in P!Decisions(pack, task, report, est, dry) : d.code = "prompt"
<1> DEFINE m == pack.merged
           signals == P!Signals(task, report)
           hard == P!AllowsHardGate(pack)
           later == "apply_later" \in m.demands /\ "runtime_core" \in signals /\ ~dry
           needsDry == P!MandatoryDryRun(m, signals)
           warnAt == IF P!Caps(m.ratio) THEN m.ratio ELSE 92
           Says(c) == CASE c = "dry_run" -> needsDry /\ ~dry /\ ~pack.bypass
                        [] c = "apply_later" -> later /\ hard
                        [] c = "cost" -> P!Over(est.cost, m.cost)
                        [] c = "files" -> P!Over(report.files, m.files)
                        [] c = "prompt" -> P!Over(est.prompt, m.prompt)
                        [] c = "cost_near" -> /\ P!Caps(m.cost) /\ est.cost # Null /\ est.cost <= m.cost
                                              /\ est.cost * 100 >= m.cost * warnAt
                        [] c = "inflation" -> P!Over(est.inflation, m.inflation)
                        [] OTHER -> needsDry /\ ~dry /\ pack.bypass
           Codes == {"dry_run", "apply_later", "cost", "files", "prompt",
                     "cost_near", "inflation", "override"}
           said == {c \in Codes : Says(c)}
           lasting == {"cost_near", "inflation", "override"}
<1> DEFINE Said(c) == [code |-> c, blocker |-> hard /\ c \notin lasting]
<1>1. P!Decisions(pack, task, report, est, dry) = {Said(c) : c \in said}
  BY Zenon DEF P!Decisions
<1>2. /\ Says("dry_run") <=> needsDry /\ ~dry /\ ~pack.bypass
      /\ Says("apply_later") <=> later /\ hard
      /\ Says("cost") <=> P!Over(est.cost, m.cost)
      /\ Says("files") <=> P!Over(report.files, m.files)
      /\ Says("prompt") <=> P!Over(est.prompt, m.prompt)
  OBVIOUS
<1>3. ASSUME NEW c
      PROVE  Said(c).code = c /\ Said(c).blocker = (hard /\ c \notin lasting)
  BY Zenon
<1> HIDE DEF Says, Said, later, needsDry, said
<1>4. ASSUME NEW d \in P!Decisions(pack, task, report, est, dry), d.blocker
      PROVE  hard /\ \E c \in said : c \notin lasting
  <2>1. PICK c \in said : d = Said(c)
    BY <1>1
  <2>2. d.blocker = (hard /\ c \notin lasting)
    BY <1>3, <2>1, Zenon
  <2> QED
    BY <1>4, <2>2, Zenon
<1>5. ASSUME hard, NEW c \in said, c \notin lasting
      PROVE  \E d \in P!Decisions(pack, task, report, est, dry) : d.blocker
  <2>1. Said(c) \in P!Decisions(pack, task, report, est, dry)
    BY <1>1
  <2>2. Said(c).blocker
    BY <1>3, <1>5, Zenon
  <2> QED
    BY <2>1, <2>2, Zenon
<1>6. (\E c \in said : c \notin lasting) <=>
        Says("dry_run") \/ Says("apply_later") \/ Says("cost") \/ Says("files") \/ Says("prompt")
  BY DEF said
<1>7. ASSUME NEW c \in {"cost", "files", "prompt"}, Says(c)
      PROVE  \E d \in P!Decisions(pack, task, report, est, dry) : d.code = c
  <2>1. c \in said
    BY <1>7 DEF said
  <2>2. Said(c) \in P!Decisions(pack, task, report, est, dry)
    BY <1>1, <2>1
  <2> QED
    BY <1>3, <2>2
<1>8. (\E d \in P!Decisions(pack, task, report, est, dry) : d.blocker) <=>
        hard /\ (\/ needsDry /\ ~dry /\ ~pack.bypass
                 \/ later
                 \/ P!Over(est.cost, m.cost) \/ P!Over(report.files, m.files) \/ P!Over(est.prompt, m.prompt))
  BY <1>2, <1>4, <1>5, <1>6, Zenon
<1>9. /\ P!Over(est.cost, m.cost) =>
           \E d \in P!Decisions(pack, task, report, est, dry) : d.code = "cost"
      /\ P!Over(report.files, m.files) =>
           \E d \in P!Decisions(pack, task, report, est, dry) : d.code = "files"
      /\ P!Over(est.prompt, m.prompt) =>
           \E d \in P!Decisions(pack, task, report, est, dry) : d.code = "prompt"
  BY <1>2, <1>7
<1> QED
  BY <1>8, <1>9 DEF later, needsDry

LEMMA OverIsSaid ==
  ASSUME NEW pack, NEW task, NEW report, NEW est, NEW dry
  PROVE  LET said == P!Decisions(pack, task, report, est, dry)
         IN  /\ P!Over(est.cost, pack.merged.cost) => \E d \in said : d.code = "cost"
             /\ P!Over(report.files, pack.merged.files) => \E d \in said : d.code = "files"
             /\ P!Over(est.prompt, pack.merged.prompt) => \E d \in said : d.code = "prompt"
  BY BlockersAre

(* The verdict without a policy, and with one.                             *)
LEMMA NoPolicyNoStop ==
  ASSUME NEW pack, NEW task, NEW report, NEW est, NEW dry, NEW envMax, pack.disabled
  PROVE  P!EvaluateRuntimeGovernance(pack, task, report, est, dry, envMax) =
           [block |-> FALSE, dryRun |-> FALSE, confirm |-> FALSE, corrections |-> envMax,
            decisions |-> {}]
  BY Zenon DEF P!EvaluateRuntimeGovernance

Confirms(m, signals, dry) ==
  \/ "confirm" \in m.demands /\ signals \ {"complex"} # {}
  \/ /\ m.enforcement = "BLOCK_ENTERPRISE" /\ "complex" \in signals
     /\ "apply_later" \in m.demands /\ "runtime_core" \in signals /\ ~dry

LEMMA GovernanceIs ==
  ASSUME NEW pack, NEW task, NEW report, NEW est, NEW dry, NEW envMax, ~pack.disabled
  PROVE  \E block, dryRun, confirm \in BOOLEAN :
           /\ P!EvaluateRuntimeGovernance(pack, task, report, est, dry, envMax) =
                [block |-> block, dryRun |-> dryRun, confirm |-> confirm,
                 corrections |-> P!EffectiveCorrections(pack.merged.corrections, envMax),
                 decisions |-> P!Decisions(pack, task, report, est, dry)]
           /\ block <=> P!AllowsHardGate(pack) /\ Stops(pack.merged, P!Signals(task, report), report, est, dry)
           /\ confirm <=> Confirms(pack.merged, P!Signals(task, report), dry)
<1> DEFINE gov == P!EvaluateRuntimeGovernance(pack, task, report, est, dry, envMax)
           m == pack.merged
           signals == P!Signals(task, report)
           later == "apply_later" \in m.demands /\ "runtime_core" \in signals /\ ~dry
           decisions == P!Decisions(pack, task, report, est, dry)
           block == ~pack.bypass /\ \E d \in decisions : d.blocker
           confirm == \/ "confirm" \in m.demands /\ signals \ {"complex"} # {}
                      \/ m.enforcement = "BLOCK_ENTERPRISE" /\ "complex" \in signals /\ later
           needsDry == P!MandatoryDryRun(m, signals)
<1>1. gov = [block |-> block, dryRun |-> needsDry, confirm |-> confirm,
             corrections |-> P!EffectiveCorrections(m.corrections, envMax), decisions |-> decisions]
  BY Zenon DEF P!EvaluateRuntimeGovernance
<1>2. block <=> P!AllowsHardGate(pack) /\ Stops(m, signals, report, est, dry)
  <2>1. P!AllowsHardGate(pack) => ~pack.bypass
    BY DEF P!AllowsHardGate
  <2> QED
    BY <2>1, BlockersAre DEF Stops
<1>3. confirm <=> Confirms(m, signals, dry)
  BY DEF Confirms
<1>4. block \in BOOLEAN /\ needsDry \in BOOLEAN /\ confirm \in BOOLEAN
  BY Zenon DEF P!MandatoryDryRun
<1> HIDE DEF gov, block, confirm, needsDry, decisions
<1> QED
  BY <1>1, <1>2, <1>3, <1>4, Zenon DEF gov, decisions

(* What the gate says of a run: whether it stops it and whether it asks.   *)
Gate(gov, pack, signals, report, est, dry, envMax) ==
  /\ gov.block \in BOOLEAN /\ gov.confirm \in BOOLEAN
  /\ pack.disabled => gov.block = FALSE /\ gov.confirm = FALSE /\ gov.corrections = envMax
  /\ ~pack.disabled =>
       /\ gov.block <=> P!AllowsHardGate(pack) /\ Stops(pack.merged, signals, report, est, dry)
       /\ gov.confirm <=> Confirms(pack.merged, signals, dry)
       /\ gov.corrections = P!EffectiveCorrections(pack.merged.corrections, envMax)

LEMMA GateIs ==
  ASSUME NEW pack, pack.disabled \in BOOLEAN, NEW task, NEW report, NEW est, NEW dry, NEW envMax
  PROVE  LET gov == P!EvaluateRuntimeGovernance(pack, task, report, est, dry, envMax)
         IN  /\ Gate(gov, pack, P!Signals(task, report), report, est, dry, envMax)
             /\ ~pack.disabled => gov.decisions = P!Decisions(pack, task, report, est, dry)
<1> DEFINE gov == P!EvaluateRuntimeGovernance(pack, task, report, est, dry, envMax)
           signals == P!Signals(task, report)
           decisions == P!Decisions(pack, task, report, est, dry)
<1>1. CASE pack.disabled
  <2>1. gov = [block |-> FALSE, dryRun |-> FALSE, confirm |-> FALSE, corrections |-> envMax,
               decisions |-> {}]
    BY <1>1, NoPolicyNoStop, Zenon
  <2> HIDE DEF gov, signals, decisions
  <2> QED
    BY <1>1, <2>1 DEF Gate, gov, signals, decisions
<1>2. CASE ~pack.disabled
  <2>1. PICK block, dryRun, confirm \in BOOLEAN :
          /\ gov = [block |-> block, dryRun |-> dryRun, confirm |-> confirm,
                    corrections |-> P!EffectiveCorrections(pack.merged.corrections, envMax),
                    decisions |-> decisions]
          /\ block <=> P!AllowsHardGate(pack) /\ Stops(pack.merged, signals, report, est, dry)
          /\ confirm <=> Confirms(pack.merged, signals, dry)
    BY <1>2, GovernanceIs, Zenon
  <2> HIDE DEF gov, signals, decisions
  <2>2. Gate(gov, pack, signals, report, est, dry, envMax) /\ gov.decisions = decisions
    BY <1>2, <2>1 DEF Gate
  <2> QED
    BY <2>2 DEF gov, signals, decisions
<1> QED
  BY <1>1, <1>2

-----------------------------------------------------------------------------
(* A limit that was set by the environment or the file is the same under   *)
(* every profile, one that was not is lower under a stricter one.          *)
LEMMA LimitsTighten ==
  ASSUME NEW file, NEW env, NEW f, NEW value, NEW lax, NEW strict,
         value \in Int \cup {Null},
         lax # Null => lax \in Int /\ strict \in Int /\ strict <= lax,
         P!Over(value, Value(file, env, f, lax))
  PROVE  P!Over(value, Value(file, env, f, strict))
<1>1. CASE f \in DOMAIN env.limits \/ GivenBy(file, f) # Null
  BY <1>1 DEF Value
<1>2. CASE f \notin DOMAIN env.limits /\ GivenBy(file, f) = Null
  <2>1. Value(file, env, f, lax) = lax /\ Value(file, env, f, strict) = strict
    BY <1>2 DEF Value
  <2>2. lax # Null /\ value # Null /\ value > lax
    BY <2>1 DEF P!Over, P!Caps
  <2>3. lax \in Int /\ strict \in Int /\ strict <= lax /\ value \in Int
    BY <2>2
  <2>4. strict # Null /\ strict # Bad
    BY <2>3, PolicyAssumption
  <2>5. value > strict
    BY <2>2, <2>3
  <2> QED
    BY <2>1, <2>2, <2>4, <2>5 DEF P!Over, P!Caps
<1> QED
  BY <1>1, <1>2

LEMMA CapType ==
  ASSUME NEW file, NEW env, IsPolicyFile(file), IsEnvironment(env), NEW envMax \in Nat
  PROVE  P!EffectiveCorrections(Value(file, env, "corrections", Null), envMax) \in 0 .. envMax
<1> DEFINE cap == Value(file, env, "corrections", Null)
           e == P!Explicit(file, "corrections")
<1>1. GivenBy(file, "corrections") \in Int \cup {Null, Bad}
  <2>1. /\ DOMAIN e = 1 .. 2
        /\ e[1] = P!Get(file, "corrections_cap") /\ e[2] = P!Get(file, "corrections")
    BY DEF P!Explicit, P!Names
  <2>2. P!Get(file, "corrections_cap") \in Int \cup {Null, Bad}
        /\ P!Get(file, "corrections") \in Int \cup {Null, Bad}
    BY DEF IsPolicyFile
  <2> HIDE DEF e
  <2>3. P!Pick(e) = IF e[1] # Null THEN e[1] ELSE e[2]
    BY <2>1, PickOfFew
  <2> QED
    BY <2>1, <2>2, <2>3 DEF GivenBy, e
<1>2. cap \in Int \cup {Null, Bad}
  BY <1>1 DEF Value, IsEnvironment
<1> HIDE DEF cap
<1>3. CASE P!Caps(cap)
  <2>1. cap \in Int
    BY <1>2, <1>3 DEF P!Caps
  <2>2. P!Max({0, cap}) = Most(0, cap) /\ Most(0, cap) \in Nat
    BY <2>1, MostIs DEF Most
  <2>3. P!Min({envMax, Most(0, cap)}) = Least(envMax, Most(0, cap))
    BY <2>2, LeastIs
  <2> QED
    BY <1>3, <2>2, <2>3 DEF P!EffectiveCorrections, Least, cap
<1>4. CASE ~P!Caps(cap)
  BY <1>4 DEF P!EffectiveCorrections, cap
<1> QED
  BY <1>3, <1>4

(* A stricter profile demands no less of a run.                            *)
LEMMA DemandsGrow ==
  ASSUME NEW file, NEW lax, NEW strict, lax.demands \subseteq strict.demands
  PROVE  P!DemandsOf(file, lax) \subseteq P!DemandsOf(file, strict)
  BY DEF P!DemandsOf

(* What a sensitive task signals.                                          *)
LEMMA SensitiveIsSignalled ==
  ASSUME NEW task, NEW report, report.touchesRuntime = P!TouchesRuntime(task),
         report.kinds = P!ChangeTypes(task), P!Sensitive(task, report)
  PROVE  P!Signals(task, report) \cap {"high_risk", "runtime_core", "migration_or_security"} # {}
<1> DEFINE signals == P!Signals(task, report)
<1>1. /\ "high_risk" \in signals <=> report.risk \in {"HIGH", "CRITICAL"}
      /\ "runtime_core" \in signals <=> report.touchesRuntime \/ P!SensitiveText(task)
      /\ "migration_or_security" \in signals <=>
           report.kinds \cap {"security", "database"} # {} \/ P!SensitiveText(task)
  BY DEF P!Signals
<1> HIDE DEF signals
<1>2. CASE task.names \cap {"runtime", "review", "replay"} # {}
  <2>1. P!TouchesRuntime(task) \/ P!SensitiveText(task)
    BY <1>2 DEF P!TouchesRuntime, P!RuntimeCore, P!SensitiveText
  <2> QED
    BY <1>1, <2>1 DEF signals
<1>3. CASE "orchestration" \in task.words
  BY <1>1, <1>3 DEF P!TouchesRuntime, signals
<1>4. CASE task.words \cap {"security", "database"} # {}
  <2>1. report.kinds \cap {"security", "database"} # {}
    BY <1>4 DEF P!ChangeTypes
  <2> QED
    BY <1>1, <2>1 DEF signals
<1>5. CASE report.risk \in {"HIGH", "CRITICAL"}
  BY <1>1, <1>5 DEF signals
<1> QED
  BY <1>2, <1>3, <1>4, <1>5 DEF P!Sensitive

-----------------------------------------------------------------------------
(* The policy of a command line that names a profile.                      *)
LEMMA NamedProfile ==
  ASSUME NEW file, NEW env, NEW cli \in CommandLines(P!Profiles), IsEnvironment(env)
  PROVE  LET pack == P!LoadMergedPolicy(file, env, cli)
             base == P!Profile(cli.profile)
         IN  /\ pack.disabled = (cli.disable \/ env.disable) /\ pack.disabled \in BOOLEAN
             /\ pack.bypass = (cli.bypass \/ env.bypass \/ P!Get(file, "bypass_always") = "yes")
             /\ pack.bypass \in BOOLEAN
             /\ ~pack.disabled =>
                  /\ pack.merged.enforcement = base.enforcement
                  /\ pack.merged.demands = P!DemandsOf(file, base)
                  /\ \A f \in DOMAIN P!Names : pack.merged[f] = Value(file, env, f, base[f])
<1> DEFINE base == P!Profile(cli.profile)
           pack == P!LoadMergedPolicy(file, env, cli)
<1> HIDE DEF pack
<1>1. /\ cli.disable \in BOOLEAN /\ cli.bypass \in BOOLEAN
      /\ env.disable \in BOOLEAN /\ env.bypass \in BOOLEAN
      /\ cli.profile # Null
  <2>1. cli.disable \in BOOLEAN /\ cli.bypass \in BOOLEAN /\ cli.profile \in P!Profiles
    BY DEF CommandLines
  <2>2. env.disable \in BOOLEAN /\ env.bypass \in BOOLEAN
    BY DEF IsEnvironment
  <2> QED
    BY <2>1, <2>2, PolicyAssumption
<1>2. ProfileOf(file, env, cli) = cli.profile
  BY <1>1, PickOfThree DEF ProfileOf
<1>3. /\ pack.disabled = (cli.disable \/ env.disable)
      /\ pack.bypass = (cli.bypass \/ env.bypass \/ P!Get(file, "bypass_always") = "yes")
      /\ ~(cli.disable \/ env.disable) => pack.profile = ProfileOf(file, env, cli)
  BY <1>1, PackIs DEF pack
<1>4. pack.disabled \in BOOLEAN /\ pack.bypass \in BOOLEAN
  BY <1>3, Zenon
<1>5. ASSUME ~pack.disabled
      PROVE  /\ pack.merged.enforcement = base.enforcement
             /\ pack.merged.demands = P!DemandsOf(file, base)
             /\ \A f \in DOMAIN P!Names : pack.merged[f] = Value(file, env, f, base[f])
  <2>1. ~(cli.disable \/ env.disable)
    BY <1>1, <1>3, <1>5
  <2>2. base = P!Profile(pack.profile)
    BY <1>2, <1>3, <2>1
  <2> HIDE DEF base
  <2> QED
    BY <1>1, <2>1, <2>2, PackIs DEF pack
<1> HIDE DEF base
<1> QED
  BY <1>3, <1>4, <1>5 DEF base, pack

(* A stricter profile stops what a laxer one stops, and asks where it asks.*)
LEMMA StrictnessGrows ==
  ASSUME NEW task, NEW report, report.files \in Int, NEW est \in Estimates,
         NEW file, NEW env, NEW cli \in CommandLines(P!Profiles), IsEnvironment(env),
         NEW dry \in BOOLEAN,
         NEW pack, pack = P!LoadMergedPolicy(file, env, cli),
         NEW next, next = P!LoadMergedPolicy(file, env, [cli EXCEPT !.profile = P!Stricter[@]])
  PROVE  LET signals == P!Signals(task, report)
         IN  /\ next.disabled = pack.disabled
             /\ ~pack.disabled =>
                  /\ P!AllowsHardGate(pack) => P!AllowsHardGate(next)
                  /\ pack.merged.demands \subseteq next.merged.demands
                  /\ pack.merged.enforcement = "BLOCK_ENTERPRISE" =>
                       next.merged.enforcement = "BLOCK_ENTERPRISE"
                  /\ Stops(pack.merged, signals, report, est, dry) =>
                       Stops(next.merged, signals, report, est, dry)
<1> DEFINE other == [cli EXCEPT !.profile = P!Stricter[cli.profile]]
           lax == P!Profile(cli.profile)
           strict == P!Profile(other.profile)
           signals == P!Signals(task, report)
<1>1. /\ cli.profile \in P!Profiles /\ other.profile = P!Stricter[cli.profile]
      /\ other.disable = cli.disable /\ other.bypass = cli.bypass
      /\ other \in [profile : {P!Stricter[cli.profile]}, bypass : BOOLEAN, disable : BOOLEAN]
  BY DEF CommandLines
<1> HIDE DEF other
<1>2. /\ other.profile \in P!Profiles
      /\ lax.enforcement \in P!Hard => strict.enforcement \in P!Hard
      /\ lax.enforcement = "BLOCK_ENTERPRISE" => strict.enforcement = "BLOCK_ENTERPRISE"
      /\ lax.demands \subseteq strict.demands
      /\ lax.cost = Null /\ strict.cost = Null
      /\ lax.files # Null =>
           lax.files \in Int /\ strict.files \in Int /\ strict.files <= lax.files
      /\ lax.prompt # Null =>
           lax.prompt \in Int /\ strict.prompt \in Int /\ strict.prompt <= lax.prompt
  BY <1>1, ProfilesTighten
<1>3. other \in CommandLines(P!Profiles)
  BY <1>1, <1>2 DEF CommandLines
<1>4. next = P!LoadMergedPolicy(file, env, other)
  BY DEF other
<1> HIDE DEF lax, strict
<1>5. /\ pack.disabled = (cli.disable \/ env.disable)
      /\ pack.bypass = (cli.bypass \/ env.bypass \/ P!Get(file, "bypass_always") = "yes")
      /\ ~pack.disabled =>
           /\ pack.merged.enforcement = lax.enforcement
           /\ pack.merged.demands = P!DemandsOf(file, lax)
           /\ \A f \in DOMAIN P!Names : pack.merged[f] = Value(file, env, f, lax[f])
  BY NamedProfile DEF lax
<1>6. /\ next.disabled = (other.disable \/ env.disable)
      /\ next.bypass = (other.bypass \/ env.bypass \/ P!Get(file, "bypass_always") = "yes")
      /\ ~next.disabled =>
           /\ next.merged.enforcement = strict.enforcement
           /\ next.merged.demands = P!DemandsOf(file, strict)
           /\ \A f \in DOMAIN P!Names : next.merged[f] = Value(file, env, f, strict[f])
  <2> DEFINE q == P!LoadMergedPolicy(file, env, other)
  <2>1. /\ q.disabled = (other.disable \/ env.disable)
        /\ q.bypass = (other.bypass \/ env.bypass \/ P!Get(file, "bypass_always") = "yes")
        /\ ~q.disabled =>
             /\ q.merged.enforcement = strict.enforcement
             /\ q.merged.demands = P!DemandsOf(file, strict)
             /\ \A f \in DOMAIN P!Names : q.merged[f] = Value(file, env, f, strict[f])
    BY <1>3, NamedProfile DEF strict
  <2> QED
    BY <1>4, <2>1
<1>7. next.disabled = pack.disabled /\ next.bypass = pack.bypass
  BY <1>1, <1>5, <1>6, Zenon
<1>8. ASSUME ~pack.disabled
      PROVE  /\ P!AllowsHardGate(pack) => P!AllowsHardGate(next)
             /\ pack.merged.demands \subseteq next.merged.demands
             /\ pack.merged.enforcement = "BLOCK_ENTERPRISE" =>
                  next.merged.enforcement = "BLOCK_ENTERPRISE"
             /\ Stops(pack.merged, signals, report, est, dry) =>
                  Stops(next.merged, signals, report, est, dry)
  <2>1. ~next.disabled
    BY <1>7, <1>8
  <2>2. P!AllowsHardGate(pack) => P!AllowsHardGate(next)
    BY <1>2, <1>5, <1>6, <1>7, <1>8, <2>1 DEF P!AllowsHardGate
  <2>3. pack.merged.demands \subseteq next.merged.demands
    BY <1>2, <1>5, <1>6, <1>8, <2>1, DemandsGrow
  <2>4. pack.merged.enforcement = "BLOCK_ENTERPRISE" => next.merged.enforcement = "BLOCK_ENTERPRISE"
    BY <1>2, <1>5, <1>6, <1>8, <2>1
  <2>5. est.cost \in Int \cup {Null} /\ est.prompt \in Int \cup {Null}
    BY DEF Estimates
  <2>6. "cost" \in DOMAIN P!Names /\ "files" \in DOMAIN P!Names /\ "prompt" \in DOMAIN P!Names
    BY DEF P!Names
  <2>7. /\ pack.merged.cost = Value(file, env, "cost", lax.cost)
        /\ next.merged.cost = Value(file, env, "cost", strict.cost)
        /\ pack.merged.files = Value(file, env, "files", lax.files)
        /\ next.merged.files = Value(file, env, "files", strict.files)
        /\ pack.merged.prompt = Value(file, env, "prompt", lax.prompt)
        /\ next.merged.prompt = Value(file, env, "prompt", strict.prompt)
    BY <1>5, <1>6, <1>8, <2>1, <2>6
  <2>8. P!Over(est.cost, pack.merged.cost) => P!Over(est.cost, next.merged.cost)
    BY <1>2, <2>7
  <2>9. P!Over(report.files, pack.merged.files) => P!Over(report.files, next.merged.files)
    BY <1>2, <2>7, LimitsTighten
  <2>10. P!Over(est.prompt, pack.merged.prompt) => P!Over(est.prompt, next.merged.prompt)
    BY <1>2, <2>5, <2>7, LimitsTighten
  <2>11. P!MandatoryDryRun(pack.merged, signals) => P!MandatoryDryRun(next.merged, signals)
    BY <2>3, <2>4 DEF P!MandatoryDryRun
  <2> QED
    BY <2>2, <2>3, <2>4, <2>8, <2>9, <2>10, <2>11 DEF Stops
<1> QED
  BY <1>7, <1>8

(* The stop of a real run of a sensitive task.                             *)
LEMMA SensitiveIsStopped ==
  ASSUME NEW task, NEW report, report.touchesRuntime = P!TouchesRuntime(task),
         report.kinds = P!ChangeTypes(task), P!Sensitive(task, report), NEW est,
         NEW file, DOMAIN file \cap P!Demands = {},
         NEW p \in {"STRICT", "ENTERPRISE"},
         NEW m, m.demands = P!DemandsOf(file, P!Profile(p))
  PROVE  Stops(m, P!Signals(task, report), report, est, FALSE)
<1>1. {"high_risk", "runtime_core", "migration_or_security"} \subseteq P!Profile(p).demands
  BY DEF P!Profile, P!Demands
<1>2. m.demands = {d \in P!Demands : d \in P!Profile(p).demands}
  BY DEF P!DemandsOf, P!Get
<1>3. {"high_risk", "runtime_core", "migration_or_security"} \subseteq m.demands
  BY <1>1, <1>2 DEF P!Demands
<1>4. P!Signals(task, report) \cap {"high_risk", "runtime_core", "migration_or_security"} # {}
  BY SensitiveIsSignalled
<1> QED
  BY <1>3, <1>4 DEF Stops, P!MandatoryDryRun

-----------------------------------------------------------------------------
(* What the verdict adds to the analysis.                                  *)
LEMMA SeverityGrows ==
  ASSUME NEW pack, NEW report, report.severity \in 0 .. 3, NEW gov, NEW dry \in BOOLEAN
  PROVE  LET severity == P!EscalateOperational(pack, report, gov, dry)
         IN  /\ severity \in 0 .. 3 /\ severity >= report.severity
             /\ ~pack.disabled /\ gov.block => severity = 3
<1> DEFINE shape == \E d \in gov.decisions : d.code \in {"inflation", "files", "prompt"}
           strong == gov.confirm \/ gov.block \/ (gov.dryRun /\ ~dry)
           a == IF shape THEN 2 ELSE 0
           b == IF strong THEN 3 ELSE 0
           n == report.severity
           severity == P!EscalateOperational(pack, report, gov, dry)
<1>1. severity = IF pack.disabled THEN n ELSE P!Max({n, a, b})
  BY Zenon DEF P!EscalateOperational
<1>2. a \in 0 .. 3 /\ b \in 0 .. 3 /\ (gov.block => b = 3)
  OBVIOUS
<1> HIDE DEF a, b, n, severity
<1>3. n \in 0 .. 3
  BY DEF n
<1> DEFINE top == Most(n, Most(a, b))
<1>4. top \in {n, a, b} /\ \A y \in {n, a, b} : top >= y
  BY <1>2, <1>3 DEF Most
<1> HIDE DEF top
<1> DEFINE max == P!Max({n, a, b})
<1>5. max \in {n, a, b} /\ \A y \in {n, a, b} : max >= y
  BY <1>4 DEF P!Max
<1> HIDE DEF max
<1>6. max \in 0 .. 3 /\ max >= n /\ max >= b
  BY <1>2, <1>3, <1>5
<1>7. severity = IF pack.disabled THEN n ELSE max
  BY <1>1 DEF max
<1> QED
  BY <1>2, <1>3, <1>6, <1>7 DEF n, severity

LEMMA VerdictIsSound ==
  ASSUME NEW task \in Tasks, NEW project \in Projects, NEW history \in Histories,
         NEW est \in Estimates, NEW file, IsPolicyFile(file), NEW env, IsEnvironment(env),
         NEW cli \in CommandLines(P!Profiles), NEW dry \in BOOLEAN, NEW envMax \in Nat
  PROVE  P!VerdictSound(task, project, history, est, file, env, cli, dry, envMax)
<1> DEFINE report == P!Analyze(task, project, history)
           pack == P!LoadMergedPolicy(file, env, cli)
           next == P!LoadMergedPolicy(file, env, [cli EXCEPT !.profile = P!Stricter[@]])
           gov == P!EvaluateRuntimeGovernance(pack, task, report, est, dry, envMax)
           onlyDry == P!EvaluateRuntimeGovernance(pack, task, report, est, TRUE, envMax)
           nextGov == P!EvaluateRuntimeGovernance(next, task, report, est, dry, envMax)
           severity == P!EscalateOperational(pack, report, gov, dry)
           strict == ~pack.disabled /\ ~pack.bypass /\ cli.profile \in {"STRICT", "ENTERPRISE"}
           Phase(yes, terminal) ==
             P!ExecutePreflightPhase(task, report, gov, [yes |-> yes, terminal |-> terminal, skip |-> FALSE])
           base == P!Profile(cli.profile)
           signals == P!Signals(task, report)
<1>1. /\ report.files \in Int /\ report.severity \in 0 .. 3
      /\ report.touchesRuntime = P!TouchesRuntime(task)
      /\ report.kinds = P!ChangeTypes(task)
  BY ReportType
<1> HIDE DEF report
<1>2. /\ next.disabled = pack.disabled
      /\ ~pack.disabled =>
           /\ P!AllowsHardGate(pack) => P!AllowsHardGate(next)
           /\ pack.merged.demands \subseteq next.merged.demands
           /\ pack.merged.enforcement = "BLOCK_ENTERPRISE" =>
                next.merged.enforcement = "BLOCK_ENTERPRISE"
           /\ Stops(pack.merged, signals, report, est, dry) =>
                Stops(next.merged, signals, report, est, dry)
  BY <1>1, StrictnessGrows
<1>3. /\ pack.disabled \in BOOLEAN /\ pack.bypass \in BOOLEAN
      /\ ~pack.disabled =>
           /\ pack.merged.enforcement = base.enforcement
           /\ pack.merged.demands = P!DemandsOf(file, base)
           /\ \A f \in DOMAIN P!Names : pack.merged[f] = Value(file, env, f, base[f])
  BY NamedProfile
<1> HIDE DEF pack, next
<1>4. /\ gov.block \in BOOLEAN /\ gov.confirm \in BOOLEAN
      /\ pack.disabled => gov.block = FALSE /\ gov.confirm = FALSE /\ gov.corrections = envMax
      /\ ~pack.disabled =>
           /\ gov.block <=> P!AllowsHardGate(pack) /\ Stops(pack.merged, signals, report, est, dry)
           /\ gov.confirm <=> Confirms(pack.merged, signals, dry)
           /\ gov.corrections = P!EffectiveCorrections(pack.merged.corrections, envMax)
  <2>1. Gate(gov, pack, signals, report, est, dry, envMax)
    BY <1>3, GateIs
  <2> HIDE DEF gov, signals
  <2> QED
    BY <2>1 DEF Gate
<1>5. /\ nextGov.block \in BOOLEAN /\ nextGov.confirm \in BOOLEAN
      /\ next.disabled => nextGov.block = FALSE /\ nextGov.confirm = FALSE
      /\ ~next.disabled =>
           /\ nextGov.block <=> P!AllowsHardGate(next) /\ Stops(next.merged, signals, report, est, dry)
           /\ nextGov.confirm <=> Confirms(next.merged, signals, dry)
  <2>1. Gate(nextGov, next, signals, report, est, dry, envMax)
    BY <1>2, <1>3, GateIs
  <2> HIDE DEF nextGov, signals
  <2> QED
    BY <2>1 DEF Gate
<1>6. /\ pack.disabled => onlyDry.block = FALSE
      /\ ~pack.disabled =>
           /\ onlyDry.block <=> P!AllowsHardGate(pack) /\ Stops(pack.merged, signals, report, est, TRUE)
           /\ onlyDry.decisions = P!Decisions(pack, task, report, est, TRUE)
  <2>1. ASSUME NEW w
        PROVE  LET g == P!EvaluateRuntimeGovernance(pack, task, report, est, w, envMax)
               IN  /\ Gate(g, pack, signals, report, est, w, envMax)
                   /\ ~pack.disabled => g.decisions = P!Decisions(pack, task, report, est, w)
    BY <1>3, GateIs
  <2>2. /\ Gate(onlyDry, pack, signals, report, est, TRUE, envMax)
        /\ ~pack.disabled => onlyDry.decisions = P!Decisions(pack, task, report, est, TRUE)
    BY <2>1
  <2> HIDE DEF onlyDry, signals
  <2> QED
    BY <2>2 DEF Gate
<1> HIDE DEF gov, nextGov, onlyDry, signals
<1>7. /\ severity >= report.severity
      /\ ~pack.disabled /\ gov.block => severity = 3
  BY <1>1, SeverityGrows
<1> HIDE DEF severity, base
<1>8. gov.block => strict
  <2> SUFFICES ASSUME gov.block PROVE strict
    OBVIOUS
  <2>1. ~pack.disabled /\ P!AllowsHardGate(pack)
    BY <1>3, <1>4
  <2>2. ~pack.bypass /\ base.enforcement \in P!Hard
    BY <1>3, <2>1 DEF P!AllowsHardGate
  <2>3. cli.profile \in {"STRICT", "ENTERPRISE"}
    BY <2>2 DEF base, P!Profile, P!Hard
  <2> QED
    BY <2>1, <2>2, <2>3
<1>9. gov.block => strict /\ severity = 3
  BY <1>7, <1>8
<1>10. ASSUME strict, ~dry, P!Sensitive(task, report), DOMAIN file \cap P!Demands = {}
       PROVE  gov.block
  <2>1. base.enforcement \in P!Hard
    BY <1>10 DEF base, P!Profile, P!Hard
  <2>2. P!AllowsHardGate(pack)
    BY <1>3, <1>10, <2>1 DEF P!AllowsHardGate
  <2>3. pack.merged.demands = P!DemandsOf(file, P!Profile(cli.profile))
    BY <1>3, <1>10 DEF base
  <2>4. Stops(pack.merged, signals, report, est, dry)
    BY <1>1, <1>10, <2>3, SensitiveIsStopped DEF signals
  <2> QED
    BY <1>4, <1>10, <2>2, <2>4
<1>11. ASSUME onlyDry.block
       PROVE  \E d \in onlyDry.decisions : d.code \in {"cost", "files", "prompt"}
  <2>1. ~pack.disabled
    BY <1>3, <1>6, <1>11
  <2>2. \/ P!Over(est.cost, pack.merged.cost) \/ P!Over(report.files, pack.merged.files)
        \/ P!Over(est.prompt, pack.merged.prompt)
    BY <1>6, <1>11, <2>1 DEF Stops
  <2> QED
    <3> DEFINE said == P!Decisions(pack, task, report, est, TRUE)
    <3>1. \A w :
            /\ P!Over(est.cost, pack.merged.cost) =>
                 \E d \in P!Decisions(pack, task, report, est, w) : d.code = "cost"
            /\ P!Over(report.files, pack.merged.files) =>
                 \E d \in P!Decisions(pack, task, report, est, w) : d.code = "files"
            /\ P!Over(est.prompt, pack.merged.prompt) =>
                 \E d \in P!Decisions(pack, task, report, est, w) : d.code = "prompt"
      BY OverIsSaid
    <3>2. \E d \in said : d.code \in {"cost", "files", "prompt"}
      BY <2>2, <3>1
    <3>4. onlyDry.decisions = said
      BY <1>6, <2>1
    <3> HIDE DEF said
    <3> QED
      BY <3>2, <3>4
<1>12. gov.block => nextGov.block
  BY <1>2, <1>3, <1>4, <1>5
<1>13. gov.confirm => nextGov.confirm
  BY <1>2, <1>3, <1>4, <1>5 DEF Confirms
<1>14. P!EvaluateApply(next, TRUE) => P!EvaluateApply(pack, TRUE)
  BY <1>2, <1>3 DEF P!EvaluateApply
<1>15. gov.corrections \in 0 .. envMax
  <2>1. CASE pack.disabled
    BY <1>4, <2>1
  <2>2. CASE ~pack.disabled
    <3>1. "corrections" \in DOMAIN P!Names /\ base.corrections = Null
      BY DEF base, P!Names, P!Profile
    <3>2. pack.merged.corrections = Value(file, env, "corrections", Null)
      BY <1>3, <2>2, <3>1
    <3> QED
      BY <1>4, <2>2, <3>2, CapType
  <2> QED
    BY <1>3, <2>1, <2>2
<1>16. ASSUME NEW yes \in BOOLEAN
       PROVE  (Phase(yes, FALSE) = "proceeds") = ~gov.block
  <2> DEFINE operator == [yes |-> yes, terminal |-> FALSE, skip |-> FALSE]
  <2>1. ~P!Asked(operator, gov.confirm) /\ ~P!Asked(operator, report.complexity # "LOW")
    BY DEF P!Asked
  <2> HIDE DEF operator
  <2>2. Phase(yes, FALSE) = IF gov.block THEN "POLICY_BLOCKED" ELSE "proceeds"
    BY <1>4, <2>1 DEF P!ExecutePreflightPhase, operator
  <2> QED
    BY <1>4, <2>2
<1>17. Phase(FALSE, TRUE) = "proceeds" => ~gov.block /\ ~gov.confirm
  <2> DEFINE operator == [yes |-> FALSE, terminal |-> TRUE, skip |-> FALSE]
  <2>1. P!Asked(operator, gov.confirm) <=> gov.confirm
    BY DEF P!Asked
  <2>2. ~operator.yes
    OBVIOUS
  <2> HIDE DEF operator
  <2>3. gov.block => P!ExecutePreflightPhase(task, report, gov, operator) = "POLICY_BLOCKED"
    BY <1>4 DEF P!ExecutePreflightPhase
  <2>4. ~gov.block /\ gov.confirm =>
          P!ExecutePreflightPhase(task, report, gov, operator) = "GOVERNANCE_CANCELLED"
    BY <1>4, <2>1, <2>2 DEF P!ExecutePreflightPhase
  <2>5. Phase(FALSE, TRUE) = P!ExecutePreflightPhase(task, report, gov, operator)
    BY DEF operator
  <2> QED
    BY <1>4, <2>3, <2>4, <2>5
<1> HIDE DEF strict, Phase
<1>18. /\ gov.block => strict /\ severity = 3
       /\ strict /\ ~dry /\ P!Sensitive(task, report) /\ DOMAIN file \cap P!Demands = {} => gov.block
       /\ onlyDry.block => \E d \in onlyDry.decisions : d.code \in {"cost", "files", "prompt"}
       /\ gov.block => nextGov.block
       /\ gov.confirm => nextGov.confirm
       /\ P!EvaluateApply(next, TRUE) => P!EvaluateApply(pack, TRUE)
       /\ gov.corrections \in 0 .. envMax
       /\ severity >= report.severity
       /\ \A yes \in BOOLEAN : (Phase(yes, FALSE) = "proceeds") = ~gov.block
       /\ Phase(FALSE, TRUE) = "proceeds" => ~gov.block /\ ~gov.confirm
  BY <1>7, <1>9, <1>10, <1>11, <1>12, <1>13, <1>14, <1>15, <1>16, <1>17, Zenon
<1> QED
  BY <1>18, Zenon DEF P!VerdictSound, report, pack, next, gov, onlyDry, nextGov, severity, strict, Phase

(* A hard policy stops what it names and nothing else, a stricter profile  *)
(* stops, asks for and allows no less strictly, the limits are merged in   *)
(* one order, and neither a word more (but "docs") nor a path or a length  *)
(* makes a task look more harmless: for every task, project and history,   *)
(* policy file, environment and command line (policy-engine.js,            *)
(* policy-loader.js, analyzer.js).                                         *)
THEOREM PolicyAlwaysStops == PolicyInput => PolicyStopsWhatItNames
<1> SUFFICES ASSUME PolicyInput PROVE PolicyStopsWhatItNames
  OBVIOUS
<1>1. input.case = "task" => P!AnalysisSound(input.task, input.project, input.history)
  BY AnalysisIsSound DEF PolicyInput
<1>2. input.case = "merge" => P!MergeSound(input.file, input.env, input.cli)
  BY MergeIsSound DEF PolicyInput
<1>3. input.case = "verdict" =>
        P!VerdictSound(input.task, input.project, input.history, input.est, input.file, input.env,
                       input.cli, input.dry, input.max)
  BY VerdictIsSound DEF PolicyInput
<1> QED
  BY <1>1, <1>2, <1>3 DEF PolicyStopsWhatItNames
=============================================================================
