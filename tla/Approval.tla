------------------------------- MODULE Approval -------------------------------
(***************************************************************************)
(* Human approval of a run whose validation failed critically              *)
(* (scripts/runtime/governance): the hooks of an executor pass, which add  *)
(* evaluations to governance-runtime.json and stop the run when the policy *)
(* enforces; the request kept in governance-approval.json, bound to a      *)
(* fingerprint of what it was made for; the operator's resolution; and the *)
(* gate that resume and replay must pass.                                  *)
(*                                                                         *)
(* One run, one command at a time, an operator beside it, each file saved  *)
(* on its own, and kills between two saves.                                *)
(***************************************************************************)
EXTENDS Integers

CONSTANTS
  MaxPasses,  \* bound: executor passes over the life of the run
  MaxDrift,   \* bound: changes of the artefacts from outside
  MaxKills,   \* bound: commands, or operators, killed half way
  None

ASSUME ApprovalAssumption ==
  /\ MaxPasses \in Nat \ {0}
  /\ MaxDrift \in Nat
  /\ MaxKills \in Nat

VARIABLES
  artifacts,  \* version of the plan, reconciliation, validation, risk, review files
  critical,   \* a validator ended in error or failed with governance severity
  gr,         \* governance-runtime.json, or None
  approval,   \* governance-approval.json, or None
  run,        \* how far the run got: what assessResume reads
  proc,       \* the working command, and the manifest it holds in memory
  op,         \* the operator: the resolution saved in one file of the two, or None
  granted,    \* history: the fingerprints an approval was granted for
  stopped,    \* history: enforcement has stopped the run
  budget      \* history: passes, drift and kills so far

files == <<artifacts, critical, gr, approval, run>>
vars == <<files, proc, op, granted, stopped, budget>>

Granting == {"APPROVED", "OVERRIDDEN"}
Resolutions == Granting \cup {"REJECTED"}

(* The evaluations, by what tells them apart: those that block, the one    *)
(* that records a request, and all others.                                 *)
Evaluations == [plain : Nat, block : Nat, asked : Nat]
NoEvaluations == [plain |-> 0, block |-> 0, asked |-> 0]

(* life: CLEAR stands for PENDING, WARNING and PASSED.                     *)
Manifest ==
  [evals : Evaluations, awaiting : BOOLEAN, hitl : {"none"} \cup Resolutions,
   life : {"CLEAR", "BLOCKED", "AWAITING_APPROVAL"}]
FreshManifest ==
  [evals |-> NoEvaluations, awaiting |-> FALSE, hitl |-> "none", life |-> "CLEAR"]

Fingerprints == [artifacts : Nat, evals : Evaluations]
Request == [status : {"PENDING", "STALE"} \cup Resolutions, bound : Fingerprints]

ASSUME NoneAssumption == None \notin Manifest \cup Request \cup Resolutions

Points ==
  {"idle", "execute", "validated", "report", "block", "approval", "pause", "risk", "review",
   "sync", "stale", "refresh", "gate", "replay"}
Idle == [at |-> "idle", mem |-> None]

Init ==
  /\ artifacts = 0
  /\ critical = FALSE
  /\ gr = None
  /\ approval = None
  /\ run = [executed |-> FALSE, reviewed |-> FALSE, concluded |-> FALSE]
  /\ proc = [at |-> "execute", mem |-> None]
  /\ op = None
  /\ granted = {}
  /\ stopped = FALSE
  /\ budget = [passes |-> 0, drift |-> 0, kills |-> 0]

-----------------------------------------------------------------------------
(* Manifests.                                                              *)

EvaluationsOf(m) == IF m = None THEN NoEvaluations ELSE m.evals

Fingerprint(m) == [artifacts |-> artifacts, evals |-> EvaluationsOf(m)]

\* Mutated form: any resolution clears the blockers.
Blocking_AnyResolution(m) == m.evals.block > 0 /\ m.hitl = "none"

Blocking(m) ==
  \/ m.hitl = "REJECTED"
  \/ m.evals.block > 0 /\ m.hitl \notin Granting

Stale == approval # None /\ approval.status = "STALE"

Lifecycle(m) ==
  CASE Stale \/ (~m.awaiting /\ Blocking(m)) -> "BLOCKED"
    [] ~Stale /\ m.awaiting -> "AWAITING_APPROVAL"
    [] OTHER -> "CLEAR"

Saved(m) == [m EXCEPT !.life = Lifecycle(m)]

Evaluated(m, kind) == [m EXCEPT !.evals[kind] = @ + 1]

(* The manifest a hook works on: the one on disk, or a new one.            *)
Loaded == IF gr = None THEN FreshManifest ELSE gr

-----------------------------------------------------------------------------
(* An executor pass and its hooks.                                         *)

(* The executor, the reconciliation and its hook, then the validation.     *)
Execute ==
  /\ proc.at = "execute"
  /\ budget.passes < MaxPasses
  /\ artifacts' = artifacts + 1
  /\ critical' \in BOOLEAN
  /\ gr' = Saved(Evaluated(Loaded, "plain"))
  /\ run' = [run EXCEPT !.executed = TRUE]
  /\ proc' = [proc EXCEPT !.at = "validated"]
  /\ budget' = [budget EXCEPT !.passes = @ + 1]
  /\ UNCHANGED <<approval, op, granted, stopped>>

(* POST_VALIDATION: the policy in force reports, blocks or asks.           *)
Decide(policy) ==
  /\ proc.at = "validated"
  /\ LET m == Evaluated(Loaded, "plain")
     IN  IF critical
         THEN /\ gr' = Saved(Evaluated(m, "block"))
              /\ proc' = [at |-> policy, mem |-> Evaluated(m, "block")]
              /\ stopped' = (stopped \/ policy # "report")
         ELSE /\ gr' = Saved(m)
              /\ proc' = [proc EXCEPT !.at = "risk"]
              /\ UNCHANGED stopped
  /\ UNCHANGED <<artifacts, critical, approval, run, op, granted, budget>>

(* Reported only: the hook is recorded as completed.                       *)
ReportOnly ==
  /\ proc.at = "report"
  /\ gr' = Saved(proc.mem)
  /\ proc' = [at |-> "risk", mem |-> None]
  /\ UNCHANGED <<artifacts, critical, approval, run, op, granted, stopped, budget>>

(* GovernanceEnforcementError ends the run.                                *)
Enforce ==
  /\ proc.at = "block"
  /\ proc' = Idle
  /\ UNCHANGED <<files, op, granted, stopped, budget>>

(* requestGovernanceApproval binds the manifest as it is on disk.          *)
RequestApproval ==
  /\ proc.at = "approval"
  /\ approval' = [status |-> "PENDING", bound |-> Fingerprint(gr)]
  /\ proc' = [proc EXCEPT !.at = "pause"]
  /\ UNCHANGED <<artifacts, critical, gr, run, op, granted, stopped, budget>>

(* The run waits: the flag and an evaluation that says so are saved, then  *)
(* GovernanceAwaitingApprovalError ends it.                                *)
Pause ==
  /\ proc.at = "pause"
  /\ gr' = Saved(Evaluated([proc.mem EXCEPT !.awaiting = TRUE], "asked"))
  /\ proc' = Idle
  /\ UNCHANGED <<artifacts, critical, approval, run, op, granted, stopped, budget>>

(* The risk analysis and its hook.                                         *)
AnalyzeRisk ==
  /\ proc.at = "risk"
  /\ artifacts' = artifacts + 1
  /\ gr' = Saved(Evaluated(Loaded, "plain"))
  /\ proc' = [proc EXCEPT !.at = "review"]
  /\ UNCHANGED <<critical, approval, run, op, granted, stopped, budget>>

(* The review ends the run, or a correction leads to another pass.         *)
Review ==
  /\ proc.at = "review"
  /\ artifacts' = artifacts + 1
  /\ \E approved \in BOOLEAN :
       /\ run' = [run EXCEPT !.reviewed = TRUE, !.concluded = approved]
       /\ proc' = IF approved THEN Idle ELSE [at |-> "execute", mem |-> None]
  /\ UNCHANGED <<critical, gr, approval, op, granted, stopped, budget>>

-----------------------------------------------------------------------------
(* Coming back to the run.                                                 *)

(* syncGovernanceContinuityAndStaleApproval loads the manifest ...         *)
Assess ==
  /\ proc.at = "idle"
  /\ proc' = [at |-> IF gr = None THEN "gate" ELSE "sync", mem |-> gr]
  /\ UNCHANGED <<files, op, granted, stopped, budget>>

(* ... saves it with the lifecycle of now ...                              *)
SyncManifest ==
  /\ proc.at = "sync"
  /\ gr' = Saved(proc.mem)
  /\ proc' = [proc EXCEPT !.at = "stale"]
  /\ UNCHANGED <<artifacts, critical, approval, run, op, granted, stopped, budget>>

(* ... a granted approval of something else is stale ...                   *)
SyncApproval ==
  /\ proc.at = "stale"
  /\ LET stale == /\ approval # None
                  /\ approval.status \in Granting
                  /\ approval.bound # Fingerprint(proc.mem)
     IN  /\ approval' = IF stale THEN [approval EXCEPT !.status = "STALE"] ELSE approval
         /\ proc' = [proc EXCEPT !.at = IF stale THEN "refresh" ELSE "gate"]
  /\ UNCHANGED <<artifacts, critical, gr, run, op, granted, stopped, budget>>

(* ... and the manifest is saved once more, to say so.                     *)
RefreshManifest ==
  /\ proc.at = "refresh"
  /\ gr' = IF gr = None THEN None ELSE Saved(gr)
  /\ proc' = [proc EXCEPT !.at = "gate"]
  /\ UNCHANGED <<artifacts, critical, approval, run, op, granted, stopped, budget>>

ApprovalStateOK == approval = None \/ approval.status \notin {"PENDING", "STALE"}

RuntimeStateOK ==
  \/ gr = None
  \/ /\ gr.life = "CLEAR"
     /\ approval # None => gr.awaiting = (approval.status = "PENDING")

ContinuityOK ==
  \/ approval = None
  \/ approval.status \notin Granting
  \/ gr # None /\ approval.bound = Fingerprint(gr)

\* Mutated form: the fingerprint is not compared again at the gate.
GatePasses_NoContinuity == ApprovalStateOK /\ RuntimeStateOK

(* evaluateGovernanceResumeReplayGate.                                     *)
GatePasses == ApprovalStateOK /\ RuntimeStateOK /\ ContinuityOK

(* Where a resume goes on; a concluded run is not resumed.                 *)
NextPhase == IF run.executed /\ ~run.reviewed THEN "review" ELSE "execute"

Resume ==
  /\ proc.at = "gate"
  /\ proc' = IF GatePasses /\ ~run.concluded THEN [at |-> NextPhase, mem |-> None] ELSE Idle
  /\ UNCHANGED <<files, op, granted, stopped, budget>>

(* One stage is run again, without hooks; what it changes is drift.        *)
Replay ==
  /\ proc.at = "gate"
  /\ proc' = IF GatePasses THEN [at |-> "replay", mem |-> None] ELSE Idle
  /\ UNCHANGED <<files, op, granted, stopped, budget>>

ReplayStage ==
  /\ proc.at = "replay"
  /\ proc' = Idle
  /\ UNCHANGED <<files, op, granted, stopped, budget>>

-----------------------------------------------------------------------------
(* The operator and the faults.                                            *)

(* resolveGovernanceApproval: a grant needs the fingerprint of the request *)
(* to be that of now.  The approval is saved first ...                     *)
Resolve(resolution) ==
  /\ op = None
  /\ approval # None
  /\ approval.status = "PENDING"
  /\ resolution \in Granting => approval.bound = Fingerprint(gr)
  /\ approval' = [approval EXCEPT !.status = resolution]
  /\ op' = resolution
  /\ granted' = IF resolution \in Granting THEN granted \cup {Fingerprint(gr)} ELSE granted
  /\ UNCHANGED <<artifacts, critical, gr, run, proc, stopped, budget>>

(* ... the manifest after it.                                              *)
ApplyResolution ==
  /\ op # None
  /\ gr' = IF gr = None THEN None
           ELSE Saved([gr EXCEPT !.awaiting = FALSE, !.hitl = op])
  /\ op' = None
  /\ UNCHANGED <<artifacts, critical, approval, run, proc, granted, stopped, budget>>

Kill ==
  /\ budget.kills < MaxKills
  /\ \/ proc # Idle /\ proc' = Idle /\ UNCHANGED op
     \/ op # None /\ op' = None /\ UNCHANGED proc
  /\ budget' = [budget EXCEPT !.kills = @ + 1]
  /\ UNCHANGED <<files, granted, stopped>>

(* An artefact is changed from outside.                                    *)
Drift ==
  /\ budget.drift < MaxDrift
  /\ artifacts' = artifacts + 1
  /\ budget' = [budget EXCEPT !.drift = @ + 1]
  /\ UNCHANGED <<critical, gr, approval, run, proc, op, granted, stopped>>

Next ==
  \/ Execute
  \/ \E policy \in {"report", "block", "approval"} : Decide(policy)
  \/ ReportOnly \/ Enforce \/ RequestApproval \/ Pause \/ AnalyzeRisk \/ Review
  \/ Assess \/ SyncManifest \/ SyncApproval \/ RefreshManifest
  \/ Resume \/ Replay \/ ReplayStage
  \/ \E resolution \in Resolutions : Resolve(resolution)
  \/ ApplyResolution \/ Kill \/ Drift

Spec == Init /\ [][Next]_vars

-----------------------------------------------------------------------------
TypeOK ==
  /\ artifacts \in Nat
  /\ critical \in BOOLEAN
  /\ gr \in Manifest \cup {None}
  /\ approval \in Request \cup {None}
  /\ run \in [executed : BOOLEAN, reviewed : BOOLEAN, concluded : BOOLEAN]
  /\ proc \in [at : Points, mem : Manifest \cup {None}]
  /\ op \in Resolutions \cup {None}
  /\ granted \in SUBSET Fingerprints
  /\ stopped \in BOOLEAN
  /\ budget \in [passes : 0..MaxPasses, drift : 0..MaxDrift, kills : 0..MaxKills]

(* A run that enforcement has stopped goes on only in the state of its     *)
(* files that an operator granted - except that the rejection of a later   *)
(* request, of which only the approval was saved, leaves the blockers      *)
(* cleared by the earlier grant.                                           *)
GoesOn == proc.at = "gate" /\ proc'.at \in {"review", "execute", "replay"}
StoppedNeedsGrant ==
  [][GoesOn /\ stopped =>
       /\ gr # None
       /\ \/ Fingerprint(gr) \in granted
          \/ approval.status = "REJECTED" /\ gr.hitl \in Granting /\ granted # {}]_vars

(* A manifest that waits for an approval has one: the request is on disk   *)
(* before the flag, and outlives it.                                       *)
WaitingHasRequest == gr # None /\ gr.awaiting => approval # None

(* What makes StoppedNeedsGrant hold: a grant is of a fingerprint the      *)
(* operator granted; a stopped run has blockers on record, in every copy   *)
(* of the manifest; and a manifest with blockers is clear only by a grant. *)
GrantsOnRecord ==
  /\ approval # None /\ approval.status \in Granting => approval.bound \in granted
  /\ op # None => approval # None
  /\ op \in Granting => granted # {}
WorkedOn == {"report", "block", "approval", "pause", "sync", "stale", "refresh"}
CopySound(m) ==
  /\ m.awaiting => approval # None
  /\ m.hitl # "none" => approval # None
  /\ m.hitl \in Granting => granted # {}
  /\ stopped => m.evals.block > 0
MemorySound ==
  /\ proc.at \in WorkedOn => proc.mem # None /\ CopySound(proc.mem)
  /\ proc.at = "pause" => approval # None
DiskSound ==
  /\ stopped => gr # None
  /\ gr # None => /\ CopySound(gr)
                  /\ gr.life = "CLEAR" /\ gr.evals.block > 0 => gr.hitl \in Granting
ManifestSound == MemorySound /\ DiskSound
ApprovalInvariant == TypeOK /\ GrantsOnRecord /\ ManifestSound

(* An operator who is asked can grant: while nothing changed since the run *)
(* paused, the approval matches what it was asked for.                     *)
PauseCanBeGranted ==
  gr # None /\ gr.awaiting /\ proc = Idle /\ budget.drift = 0 /\ approval # None
    /\ approval.status = "PENDING"
  => approval.bound = Fingerprint(gr)

=============================================================================
