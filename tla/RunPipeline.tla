---------------------------- MODULE RunPipeline ----------------------------
(***************************************************************************)
(* One run of the pipeline and the files it leaves under .IA/outputs: the  *)
(* stages and the correction loop of runtime/orchestration.js, the         *)
(* executor with its micro-retries (executor.js, runtime/recovery), and    *)
(* the commands that come back to the run later: resume, apply and replay  *)
(* (runtime/replay).  The project lock lets one command work at a time;    *)
(* between two of its file accesses it may be killed, and the next command *)
(* goes by what it finds.                                                  *)
(*                                                                         *)
(* The content of a project file is the bag of patch sets written to it,   *)
(* and of edits by somebody else (Edit).  What the agents answer is a      *)
(* choice.                                                                 *)
(***************************************************************************)
EXTENDS Integers, FiniteSets

CONSTANTS
  Files,            \* the project files a patch may touch
  MaxPatches,       \* bound: patch sets proposed over the life of the run
  MaxCommands,      \* bound: commands that come back to the run
  MaxCorrections,   \* corrections before a run ends as partial
  MaxTotalSteps,    \* logged steps after which no executor or review starts
  MaxMicroRetries,  \* retries of the executor inside one stage
  Commands,         \* which of "resume", "apply", "replay" are used
  Faults,           \* "kill": a command dies; "edit": somebody edits the project; "write":
                    \* a file cannot be written; "rollback": not even to undo a patch
  None

ASSUME PipelineAssumption ==
  /\ MaxPatches \in Nat \ {0}
  /\ MaxCommands \in Nat
  /\ MaxCorrections \in Nat
  /\ MaxTotalSteps \in Nat \ {0}
  /\ MaxMicroRetries \in Nat
  /\ None \notin [of : 0..MaxPatches, files : SUBSET Files,
                  base : [Files -> [0..MaxPatches -> Nat]]]

VARIABLES
  meta,          \* metadata.json, its section execution
  log,           \* run-log.json
  plan,          \* run-context.json and the verdict of the architect on it
  result,        \* executor-result.json
  changes,       \* executor-changes.json
  manifest,      \* patch-manifest.json
  review,        \* review-output.json
  instructions,  \* correction-instructions.md exists
  physical,      \* physical-apply-result.json says completed
  disk,          \* the project
  proc,          \* the running command and its memory
  waiting,       \* the phase a resume was assessed for, before it has the lock
  asked,         \* history: the mode the user asked for
  patches,       \* history: patch sets proposed so far
  commands,      \* history: commands that came back so far
  bypassed       \* history: a stage was replayed, or resumed on an assessment gone stale

outputs == <<plan, result, changes, manifest, review, instructions, physical>>
history == <<asked, patches, commands, bypassed>>
vars == <<meta, log, outputs, disk, proc, waiting, history>>

Edit == 0
Patches == 1..MaxPatches
Content == [0..MaxPatches -> Nat]
Clean == [i \in 0..MaxPatches |-> 0]
Project == [Files -> Content]
Untouched == [f \in Files |-> Clean]

(* A list of changes: the files it patches, and their content as the       *)
(* executor saw it.                                                        *)
ChangeList == [id : 0..MaxPatches, files : SUBSET Files, on : Project]
NoChanges == [id |-> 0, files |-> {}, on |-> Untouched]
Manifest == [of : 0..MaxPatches, files : SUBSET Files, base : Project]

Lifecycle ==
  {"NONE", "EXECUTING", "RECOVERING", "RECOVERED", "RECOVERY_FAILED", "RETRY_EXHAUSTED",
   "REVIEWING", "CORRECTING", "AWAITING_APPLY", "APPLYING", "APPLIED", "FAILED", "RESUMABLE",
   "REPLAYING"}
Metadata == [mode : {"none", "dry_run", "apply"}, pending : BOOLEAN, life : Lifecycle]
NoExecution == [mode |-> "none", pending |-> FALSE, life |-> "NONE"]

(* past: whether an error, or a step that ended in one, is on record.      *)
RunLog ==
  [status : {"running", "success", "failed", "partial"}, steps : 0..MaxTotalSteps,
   iterations : Nat, past : {"clean", "bad_step", "errors"}]

Review == [status : {"none", "approved", "rejected", "blocked"}, of : 0..MaxPatches]

Phase == {"executor", "review", "correction"}
Overlay == [Files -> Content \union {None}]
NoOverlay == [f \in Files |-> None]
Stage ==
  {"idle", "architect", "gate", "executor", "executing", "committing", "succeeded", "listing",
   "clearing", "recover", "hooks", "recording", "review", "reviewing", "judge", "correcting",
   "knowledge", "finish", "applying", "marking", "restore"}
Process ==
  [cmd : {"none", "run", "resume", "apply", "replay"}, pc : Stage, dry : BOOLEAN,
   overlay : Overlay, micro : Nat, retryable : BOOLEAN, answer : ChangeList,
   written : SUBSET Files, backup : Metadata]

Begin(cmd, pc, dry) ==
  [cmd |-> cmd, pc |-> pc, dry |-> dry, overlay |-> NoOverlay, micro |-> 0, retryable |-> FALSE,
   answer |-> NoChanges, written |-> {}, backup |-> NoExecution]
NoCommand == Begin("none", "idle", FALSE)

Init ==
  /\ meta = NoExecution
  /\ log = [status |-> "running", steps |-> 1, iterations |-> 0, past |-> "clean"]
  /\ plan = "none"
  /\ result = "none"
  /\ changes = NoChanges
  /\ manifest = None
  /\ review = [status |-> "none", of |-> 0]
  /\ instructions = FALSE
  /\ physical = FALSE
  /\ disk = Untouched
  /\ asked \in {"dry_run", "apply"}
  /\ proc = Begin("run", "architect", asked = "dry_run")
  /\ waiting = "none"
  /\ patches = 0
  /\ commands = 0
  /\ bypassed = FALSE

(* --------------------------- common to all stages -------------------- *)

At(stage) == proc.pc = stage
InFlow == proc.cmd \in {"run", "resume"}
Goto(stage) == proc' = [proc EXCEPT !.pc = stage]

(* readProjectUtf8: the overlay of this process, then the disk.            *)
View == [f \in Files |-> IF proc.overlay[f] = None THEN disk[f] ELSE proc.overlay[f]]
Patched(content, id) == [content EXCEPT ![id] = @ + 1]

SetLife(life) == meta' = [meta EXCEPT !.life = life]

(* startStep; only the comparison with the limit reads the number of       *)
(* steps, so the count stops there.                                        *)
OneMore(steps) == IF steps < MaxTotalSteps THEN steps + 1 ELSE steps
Started(l) == [l EXCEPT !.status = "running", !.steps = OneMore(@)]
WithinLimits == log.steps < MaxTotalSteps

End(status) == log' = [log EXCEPT !.status = status] /\ proc' = NoCommand

\* A mutated form of Outcome: a status that is not one of RUN_STATUS.
Outcome_Unknown == IF log.past = "clean" THEN "success" ELSE "error"

(* What finish() makes of a run that nothing stopped.                      *)
Outcome ==
  CASE log.past = "clean" -> "success"
    [] log.past = "bad_step" -> "partial"
    [] OTHER -> "failed"

\* A mutated form of Abort: finish() without failStep().
Abort_NotRecorded(open) ==
  /\ proc' = NoCommand
  /\ log' = [log EXCEPT !.status = IF plan = "invalid" THEN "partial" ELSE Outcome]

(* The catch of startFlow and startFlowResume; `open` if a step is open.   *)
(* A run of an invalid task ends as partial whatever was thrown.           *)
Abort(open) ==
  /\ proc' = NoCommand
  /\ log' = IF plan = "invalid"
            THEN [log EXCEPT !.status = "partial",
                             !.past = IF open /\ @ = "clean" THEN "bad_step" ELSE @]
            ELSE [log EXCEPT !.status = "failed", !.past = "errors"]

(* An exception of an agent: the flow ends, a replay restores the          *)
(* metadata in its `finally`.                                              *)
Throw ==
  \/ InFlow /\ Abort(TRUE)
  \/ proc.cmd = "replay" /\ Goto("restore") /\ UNCHANGED log

(* ----------------------------- architect ----------------------------- *)

(* architect.js writes run-context.json, metadata.json and its verdict     *)
(* before it looks at the verdict.                                         *)
ArchitectThrows ==
  /\ At("architect")
  /\ Abort(TRUE)
  /\ UNCHANGED <<meta, outputs, disk, waiting, history>>

ArchitectPlans(verdict) ==
  /\ At("architect")
  /\ plan' = verdict
  /\ Goto("gate")
  /\ UNCHANGED <<meta, log, result, changes, manifest, review, instructions, physical, disk,
                 waiting, history>>

(* Only an approved plan gets its mode into the metadata.                  *)
ArchitectGate ==
  /\ At("gate")
  /\ \/ /\ plan = "approved"
        /\ meta' = [meta EXCEPT !.mode = IF proc.dry THEN "dry_run" ELSE "apply", !.pending = FALSE]
        /\ Goto("executor")
        /\ UNCHANGED log
     \/ /\ plan # "approved"
        /\ Abort(TRUE)
        /\ UNCHANGED meta
  /\ UNCHANGED <<outputs, disk, waiting, history>>

(* ----------------------------- executor ------------------------------ *)

(* assertFlowLimits, then the stage begins.                                *)
StartStage(stage, next, life) ==
  /\ At(stage)
  /\ \/ /\ WithinLimits
        /\ SetLife(life)
        /\ log' = Started(log)
        /\ proc' = [proc EXCEPT !.pc = next, !.micro = 1]
     \/ /\ ~WithinLimits
        /\ Abort(FALSE)
        /\ UNCHANGED meta
  /\ UNCHANGED <<outputs, disk, waiting, history>>

StartExecutor == StartStage("executor", "executing", "EXECUTING")

(* The executor, the review, the correction or the knowledge agent throws, *)
(* or governance does after the executor.                                  *)
AgentThrows ==
  /\ \/ proc.pc \in {"executing", "reviewing", "correcting", "knowledge"}
     \/ At("hooks") /\ InFlow
  /\ Throw
  /\ UNCHANGED <<meta, outputs, disk, waiting, history>>

(* An answer that cannot be used: retryable is the classification of the   *)
(* failure.                                                                *)
ExecutorBlocks(retryable) ==
  /\ At("executing")
  /\ result' = "blocked"
  /\ proc' = [proc EXCEPT !.pc = "clearing", !.retryable = retryable, !.answer = NoChanges]
  /\ UNCHANGED <<meta, log, plan, changes, manifest, review, instructions, physical, disk,
                 waiting, history>>

ExecutorClears ==
  /\ At("clearing")
  /\ changes' = NoChanges
  /\ Goto("recover")
  /\ UNCHANGED <<meta, log, plan, result, manifest, review, instructions, physical, disk,
                 waiting, history>>

(* applyChanges computes every file in memory; a dry run keeps them in its *)
(* overlay.                                                                *)
ExecutorProposes(S) ==
  /\ At("executing")
  /\ S # {} => patches < MaxPatches
  /\ LET id == IF S = {} THEN 0 ELSE patches + 1
         answer == IF S = {} THEN NoChanges ELSE [id |-> id, files |-> S, on |-> View]
     IN /\ patches' = IF S = {} THEN patches ELSE id
        /\ proc' = [proc EXCEPT !.answer = answer, !.written = {},
                                !.pc = IF proc.dry THEN "succeeded" ELSE "committing",
                                !.overlay = IF proc.dry
                                            THEN [f \in Files |-> IF f \in S
                                                                  THEN Patched(View[f], id)
                                                                  ELSE @[f]]
                                            ELSE @]
  /\ UNCHANGED <<meta, log, outputs, disk, waiting, asked, commands, bypassed>>

(* applyChanges writes the files one by one, each with what it computed.   *)
CommitFile(f) ==
  /\ At("committing")
  /\ f \in proc.answer.files \ proc.written
  /\ disk' = [disk EXCEPT ![f] = Patched(proc.answer.on[f], proc.answer.id)]
  /\ proc' = [proc EXCEPT !.written = @ \union {f}]
  /\ UNCHANGED <<meta, log, outputs, waiting, history>>

\* A mutated form of RolledBack: the file written first is forgotten.
RolledBack_ButOne(S) ==
  [f \in Files |-> IF f \in S /\ f # (CHOOSE g \in S : TRUE) THEN proc.answer.on[f] ELSE disk[f]]

(* The files of the patch as they were; a rollback may fail too.           *)
RolledBack(S) == [f \in Files |-> IF f \in S THEN proc.answer.on[f] ELSE disk[f]]

Undone == IF "rollback" \in Faults THEN SUBSET proc.written ELSE {proc.written}

CommitFails ==
  /\ "write" \in Faults
  /\ At("committing")
  /\ proc.written # proc.answer.files
  /\ \E S \in Undone : disk' = RolledBack(S)
  /\ \/ /\ proc.cmd = "apply"
        /\ SetLife("FAILED")
        /\ proc' = NoCommand
        /\ UNCHANGED result
     \/ /\ proc.cmd # "apply"
        /\ result' = "blocked"
        /\ proc' = [proc EXCEPT !.pc = "clearing", !.retryable = FALSE]
        /\ UNCHANGED meta
  /\ UNCHANGED <<log, plan, changes, manifest, review, instructions, physical, waiting, history>>

CommitEnds ==
  /\ At("committing")
  /\ proc.written = proc.answer.files
  /\ \/ /\ proc.cmd = "apply"
        /\ meta' = [mode |-> "apply", pending |-> FALSE, life |-> "APPLIED"]
        /\ Goto("marking")
     \/ /\ proc.cmd # "apply"
        /\ Goto("succeeded")
        /\ UNCHANGED meta
  /\ UNCHANGED <<log, outputs, disk, waiting, history>>

ExecutorSucceeds ==
  /\ At("succeeded")
  /\ result' = "success"
  /\ Goto("listing")
  /\ UNCHANGED <<meta, log, plan, changes, manifest, review, instructions, physical, disk,
                 waiting, history>>

ExecutorLists ==
  /\ At("listing")
  /\ changes' = proc.answer
  /\ meta' = IF InFlow /\ proc.micro > 1 THEN [meta EXCEPT !.life = "RECOVERED"] ELSE meta
  /\ proc' = [proc EXCEPT !.pc = IF InFlow THEN "hooks" ELSE "restore",
                          !.answer = NoChanges, !.written = {}, !.micro = 0]
  /\ UNCHANGED <<log, plan, result, manifest, review, instructions, physical, disk,
                 waiting, history>>

\* A mutated form of MayRetry: the budget is not looked at.
MayRetry_Always == InFlow /\ proc.retryable

(* createBudgetSession: the first pass is not a retry.                     *)
MayRetry == InFlow /\ proc.retryable /\ proc.micro <= MaxMicroRetries

(* runExecutorWithRecovery; a replay has no recovery.                      *)
Recover ==
  /\ At("recover")
  /\ \/ /\ ~InFlow
        /\ Goto("restore")
        /\ UNCHANGED <<meta, log>>
     \/ /\ MayRetry
        /\ SetLife("RECOVERING")
        /\ proc' = [proc EXCEPT !.pc = "executing", !.micro = @ + 1, !.retryable = FALSE]
        /\ UNCHANGED log
     \/ /\ InFlow
        /\ ~MayRetry
        /\ SetLife(IF proc.retryable THEN "RETRY_EXHAUSTED" ELSE "RECOVERY_FAILED")
        /\ Abort(TRUE)
  /\ UNCHANGED <<outputs, disk, waiting, history>>

(* The governance hooks let the changes pass; the manifest of a dry run    *)
(* takes its base from the project.  If it cannot be written, the run goes *)
(* on with a warning.                                                      *)
PendingPatch == proc.dry /\ changes.files # {}

WriteManifest ==
  /\ At("hooks")
  /\ \/ /\ PendingPatch
        /\ manifest' = [of |-> changes.id, files |-> changes.files, base |-> disk]
     \/ /\ PendingPatch => "write" \in Faults
        /\ UNCHANGED manifest
  /\ Goto("recording")
  /\ UNCHANGED <<meta, log, plan, result, changes, review, instructions, physical, disk,
                 waiting, history>>

RecordPending ==
  /\ At("recording")
  /\ meta' = [meta EXCEPT !.pending = PendingPatch]
  /\ Goto("review")
  /\ UNCHANGED <<log, outputs, disk, waiting, history>>

(* ------------------- review, correction, knowledge ------------------- *)

StartReview == StartStage("review", "reviewing", "REVIEWING")

ReviewAnswers(status) ==
  /\ At("reviewing")
  /\ review' = [status |-> status, of |-> changes.id]
  /\ Goto(IF InFlow THEN "judge" ELSE "restore")
  /\ UNCHANGED <<meta, log, plan, result, changes, manifest, instructions, physical, disk,
                 waiting, history>>

(* runPostExecutorLoop; the last disjunct is the gate that suppresses a    *)
(* correction after repeated failures.                                     *)
Judge ==
  /\ At("judge")
  /\ \/ /\ review.status = "approved"
        /\ log' = Started(log)
        /\ Goto("knowledge")
        /\ UNCHANGED meta
     \/ /\ review.status = "rejected"
        /\ log.iterations < MaxCorrections
        /\ log' = Started([log EXCEPT !.iterations = @ + 1])
        /\ SetLife("CORRECTING")
        /\ Goto("correcting")
     \/ /\ review.status # "approved"
        /\ End("partial")
        /\ UNCHANGED meta
  /\ UNCHANGED <<outputs, disk, waiting, history>>

(* correction.js writes instructions only for a review that asks for them. *)
CorrectionAnswers ==
  /\ At("correcting")
  /\ review.status # "none"
  /\ instructions' = (instructions \/ review.status = "rejected")
  /\ Goto(IF InFlow THEN "executor" ELSE "restore")
  /\ UNCHANGED <<meta, log, plan, result, changes, manifest, review, physical, disk,
                 waiting, history>>

KnowledgeAnswers ==
  /\ At("knowledge")
  /\ meta' = IF proc.dry THEN [meta EXCEPT !.life = "AWAITING_APPLY"] ELSE meta
  /\ Goto("finish")
  /\ UNCHANGED <<log, outputs, disk, waiting, history>>

Finish ==
  /\ At("finish")
  /\ End(Outcome)
  /\ UNCHANGED <<meta, outputs, disk, waiting, history>>

(* ------------------------------- resume ------------------------------ *)

\* A mutated form of ReturnsDry: the flag of the first command is lost.
ReturnsDry_Never == FALSE

(* A command that comes back goes by the mode in the metadata.             *)
ReturnsDry == meta.mode = "dry_run"

(* Another command gets the project lock.                                  *)
Returns ==
  /\ At("idle")
  /\ commands < MaxCommands
  /\ commands' = commands + 1

Concluded == log.status = "success" /\ review.status = "approved"
ManifestMatches == manifest.of = changes.id

NotResumable == plan = "none" \/ Concluded \/ (manifest # None /\ ~ManifestMatches)
AfterReview == IF instructions THEN "executor" ELSE "correction"

\* A mutated form of NextPhase: a run that failed after its approval
\* starts again at the executor.
NextPhase_Again ==
  IF NotResumable THEN "none"
  ELSE IF result # "success" \/ review.status = "approved" THEN "executor"
  ELSE CASE review.status = "none" -> "review"
         [] review.status = "rejected" -> AfterReview
         [] OTHER -> "none"

(* assessResume.                                                           *)
NextPhase ==
  IF NotResumable THEN "none"
  ELSE IF result # "success" THEN "executor"
  ELSE CASE review.status = "none" -> "review"
         [] review.status = "rejected" -> AfterReview
         [] OTHER -> "none"

(* The CLI assesses the run before it asks for the lock.                   *)
Assess ==
  /\ "resume" \in Commands
  /\ waiting = "none"
  /\ commands < MaxCommands
  /\ NextPhase # "none"
  /\ waiting' = NextPhase
  /\ UNCHANGED <<meta, log, outputs, disk, proc, history>>

ResumeIsLockedOut ==
  /\ waiting # "none"
  /\ ~At("idle")
  /\ waiting' = "none"
  /\ UNCHANGED <<meta, log, outputs, disk, proc, history>>

BeginResume ==
  /\ waiting # "none"
  /\ Returns
  /\ LET correct == waiting = "correction"
     IN /\ meta' = [meta EXCEPT !.life = IF correct THEN "CORRECTING" ELSE "RESUMABLE"]
        /\ log' = IF correct
                  THEN Started([log EXCEPT !.iterations = IF @ = 0 THEN 1 ELSE @])
                  ELSE log
        /\ proc' = Begin("resume", IF correct THEN "correcting" ELSE waiting,
                         ReturnsDry)
  /\ bypassed' = (bypassed \/ waiting # NextPhase)
  /\ waiting' = "none"
  /\ UNCHANGED <<outputs, disk, asked, patches>>

(* ------------------------------- apply ------------------------------- *)

\* A mutated form of Drifted: nobody compares the files.
Drifted_Never == FALSE

(* The gates of runDeterministicApply.                                     *)
Drifted == \E f \in manifest.files : disk[f] # manifest.base[f]

MayApply ==
  /\ ~physical
  /\ meta.life # "APPLIED"
  /\ meta.mode = "dry_run"
  /\ meta.pending
  /\ review.status = "approved"
  /\ manifest # None
  /\ ManifestMatches
  /\ ~Drifted
  /\ changes.files # {}

BeginApply ==
  /\ "apply" \in Commands
  /\ Returns
  /\ MayApply
  /\ SetLife("APPLYING")
  /\ proc' = Begin("apply", "applying", FALSE)
  /\ UNCHANGED <<log, outputs, disk, waiting, asked, patches, bypassed>>

\* A mutated form of ApplyComputes: the run is marked before the files are
\* written.
ApplyComputes_MarkFirst ==
  /\ At("applying")
  /\ proc' = [proc EXCEPT !.pc = "committing", !.written = {},
                          !.answer = [changes EXCEPT !.on = disk]]
  /\ meta' = [mode |-> "apply", pending |-> FALSE, life |-> "APPLIED"]
  /\ UNCHANGED <<log, outputs, disk, waiting, history>>

(* The searches of the patch are found where the file is what the executor *)
(* saw; elsewhere they may be.                                             *)
ApplyComputes ==
  /\ At("applying")
  /\ \/ /\ proc' = [proc EXCEPT !.pc = "committing", !.written = {},
                                  !.answer = [changes EXCEPT !.on = disk]]
        /\ UNCHANGED meta
     \/ /\ \E f \in changes.files : disk[f] # changes.on[f]
        /\ SetLife("FAILED")
        /\ proc' = NoCommand
  /\ UNCHANGED <<log, outputs, disk, waiting, history>>

MarkApplied ==
  /\ At("marking")
  /\ physical' = TRUE
  /\ proc' = NoCommand
  /\ UNCHANGED <<meta, log, plan, result, changes, manifest, review, instructions, disk,
                 waiting, history>>

(* ------------------------------- replay ------------------------------ *)

ReplayStage ==
  [executor |-> "executing", review |-> "reviewing", correction |-> "correcting"]

BeginReplay(step) ==
  /\ "replay" \in Commands
  /\ Returns
  /\ plan # "none"
  /\ SetLife("REPLAYING")
  /\ proc' = [Begin("replay", ReplayStage[step], ReturnsDry) EXCEPT !.backup = meta]
  /\ bypassed' = TRUE
  /\ UNCHANGED <<log, outputs, disk, waiting, asked, patches>>

RestoreMetadata ==
  /\ At("restore")
  /\ meta' = proc.backup
  /\ proc' = NoCommand
  /\ UNCHANGED <<log, outputs, disk, waiting, history>>

(* ---------------------------- environment ---------------------------- *)

Kill ==
  /\ "kill" \in Faults
  /\ ~At("idle")
  /\ proc' = NoCommand
  /\ UNCHANGED <<meta, log, outputs, disk, waiting, history>>

(* Bound: somebody else edits one file of the last patch, once, between    *)
(* two commands.                                                           *)
ExternalEdit(f) ==
  /\ "edit" \in Faults
  /\ At("idle")
  /\ waiting = "none"
  /\ f \in changes.files
  /\ \A g \in Files : disk[g][Edit] = 0
  /\ disk' = [disk EXCEPT ![f] = Patched(@, Edit)]
  /\ UNCHANGED <<meta, log, outputs, proc, waiting, history>>

Work ==
  \/ ArchitectThrows \/ \E v \in {"approved", "blocked", "invalid"} : ArchitectPlans(v)
  \/ ArchitectGate
  \/ StartExecutor \/ AgentThrows
  \/ \E retryable \in BOOLEAN : ExecutorBlocks(retryable)
  \/ ExecutorClears
  \/ \E S \in SUBSET Files : ExecutorProposes(S)
  \/ \E f \in Files : CommitFile(f)
  \/ CommitFails \/ CommitEnds \/ ExecutorSucceeds \/ ExecutorLists \/ Recover
  \/ WriteManifest \/ RecordPending
  \/ StartReview \/ \E s \in {"approved", "rejected", "blocked"} : ReviewAnswers(s)
  \/ Judge \/ CorrectionAnswers \/ KnowledgeAnswers \/ Finish
  \/ ApplyComputes \/ MarkApplied \/ RestoreMetadata

Next ==
  \/ Work
  \/ Assess \/ ResumeIsLockedOut \/ BeginResume
  \/ BeginApply
  \/ \E step \in Phase : BeginReplay(step)
  \/ Kill \/ \E f \in Files : ExternalEdit(f)

Spec == Init /\ [][Next]_vars

-----------------------------------------------------------------------------
TypeOK ==
  /\ meta \in Metadata
  /\ log \in RunLog
  /\ plan \in {"none", "approved", "blocked", "invalid"}
  /\ result \in {"none", "success", "blocked"}
  /\ changes \in ChangeList
  /\ manifest \in Manifest \union {None}
  /\ review \in Review
  /\ instructions \in BOOLEAN
  /\ physical \in BOOLEAN
  /\ disk \in Project
  /\ asked \in {"dry_run", "apply"}
  /\ proc \in Process
  /\ waiting \in Phase \union {"none"}
  /\ patches \in 0..MaxPatches
  /\ commands \in 0..MaxCommands
  /\ bypassed \in BOOLEAN

(* However commands are killed and repeated, no patch is written twice     *)
(* into a file (runDeterministicApply has three gates against it, and none *)
(* of them knows of an application that was interrupted).                  *)
AppliedOnce == \A f \in Files, p \in Patches : disk[f][p] <= 1

(* A run that counts as applied has its patch in every file of the         *)
(* manifest, none left out by a crash between two writes.                  *)
AppliedWhole ==
  meta.life = "APPLIED" => \A f \in manifest.files : disk[f][manifest.of] = 1

(* What apply writes is what a review approved: no approval of an earlier  *)
(* patch set covers a later one, as long as the stages were run in their   *)
(* order.                                                                  *)
OnlyApprovedIsApplied ==
  proc.cmd = "apply" /\ ~bypassed => review.status = "approved" /\ review.of = changes.id

(* A run that ends in success has an executor result and an approval of    *)
(* just these changes.                                                     *)
SuccessMeansApproved ==
  log.status = "success" /\ ~bypassed =>
    result = "success" /\ review.status = "approved" /\ review.of = changes.id

(* When an executor answer is refused, none of its patches stays in the    *)
(* project, whichever file the commit had reached.                         *)
RefusedPatchIsUndone ==
  proc.pc \in {"clearing", "recover"} =>
    \A f \in proc.answer.files : disk[f][proc.answer.id] = 0

(* Once the metadata says dry run, only apply changes the project, whoever *)
(* comes back to the run.                                                  *)
DryRunWritesNothing ==
  [][meta.mode = "dry_run" /\ proc.cmd # "apply" =>
       \A f \in Files, p \in Patches : disk'[f][p] = disk[f][p]]_vars

(* How far a command is from its end: corrections left, retries left,      *)
(* stages and files left.                                                  *)
Loop == {"executing", "committing", "succeeded", "listing", "clearing", "recover"}
Early == {"architect", "gate", "correcting", "executor", "applying"}
StagesLeft ==
  [idle |-> 0, restore |-> 1, marking |-> 1, finish |-> 1, knowledge |-> 2, judge |-> 3,
   reviewing |-> 4, review |-> 5, recording |-> 6, hooks |-> 7, listing |-> 8, succeeded |-> 9,
   recover |-> 9, clearing |-> 10, committing |-> 11, executing |-> 12, applying |-> 12,
   executor |-> 13, correcting |-> 14, gate |-> 14, architect |-> 15]
CorrectionsLeft == IF log.iterations < MaxCorrections THEN MaxCorrections - log.iterations ELSE 0
RetriesLeft ==
  CASE proc.pc \in Early -> MaxMicroRetries + 2
    [] proc.pc \in Loop -> MaxMicroRetries + 1 - proc.micro
    [] OTHER -> 0
FilesLeft == proc.answer.files \ proc.written
Remaining == <<CorrectionsLeft, RetriesLeft, StagesLeft[proc.pc], FilesLeft>>

Nearer(a, b) ==
  /\ a[1] \in Nat /\ a[2] \in Nat /\ a[3] \in Nat
  /\ \/ a[1] < b[1]
     \/ a[1] = b[1] /\ a[2] < b[2]
     \/ a[1] = b[1] /\ a[2] = b[2] /\ a[3] < b[3]
     \/ a[1] = b[1] /\ a[2] = b[2] /\ a[3] = b[3] /\ a[4] \subseteq b[4] /\ a[4] # b[4]

(* No command goes on for ever: every step of it brings it nearer to its   *)
(* end, so micro-retries inside correction loops inside one command stop   *)
(* without the limit of total steps.                                       *)
CommandsRunOut ==
  [][proc.cmd # "none" /\ proc'.cmd # "none" => Nearer(Remaining', Remaining)]_proc

-----------------------------------------------------------------------------
(* "pipeline completo sem gravar patches no projeto-alvo"                  *)
(* (orchestration.js:1095): as long as nobody applies it, a run that was   *)
(* asked for as a dry run leaves the project alone, resumed or not.        *)
DryRunIsHarmless == asked = "dry_run" => disk = Untouched

(* "apenas garante que o patch reproduzível está documentado e aplicável   *)
(* mais tarde sem LLM" (docs/dry-run.md:28): what apply writes is what the *)
(* dry run computed and the review saw.                                    *)
AppliedAsSimulated ==
  meta.life = "APPLIED" =>
    \A f \in changes.files : disk[f] = Patched(changes.on[f], changes.id)

=============================================================================
