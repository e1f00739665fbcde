--------------------------- MODULE RunPipelineInv ---------------------------
(***************************************************************************)
(* The inductive invariants of a run of the pipeline: what its commands    *)
(* rely on when they go by the files of earlier ones.  Module              *)
(* RunPipelineProofs proves that every step keeps them.                    *)
(***************************************************************************)
EXTENDS RunPipeline

(* Where the commands can be.                                              *)
PlaceInv ==
  /\ (proc.cmd = "none") <=> (proc.pc = "idle")
  /\ proc.pc \in {"architect", "gate"} => proc.cmd = "run" /\ meta.mode = "none"
  /\ proc.pc \in {"applying", "marking"} => proc.cmd = "apply"
  /\ proc.cmd = "apply" => proc.pc \in {"applying", "committing", "marking"}
  /\ proc.pc \in {"executor", "hooks", "recording", "review", "judge", "knowledge", "finish"} =>
       InFlow
  /\ proc.pc = "restore" => proc.cmd = "replay"

(* A command on a dry run is dry; it never commits.                        *)
DryInv ==
  /\ proc.cmd \in {"run", "resume", "replay"} /\ proc.pc \notin {"architect", "gate"} =>
       (meta.mode = "dry_run" => proc.dry)
  /\ proc.pc = "committing" /\ proc.cmd # "apply" => ~proc.dry

(* Only a dry run has an overlay.                                          *)
OverlayInv == ~proc.dry => proc.overlay = NoOverlay

(* A list of changes is numbered, the numbers are in use, and the manifest *)
(* of a list names its files.                                              *)
Numbered(list) == list.id <= patches /\ (list.id = 0 => list.files = {})

ListsInv ==
  /\ Numbered(changes)
  /\ Numbered(proc.answer)
  /\ manifest # None =>
       /\ manifest.of # 0
       /\ manifest.of <= patches
       /\ manifest.of = changes.id => manifest.files = changes.files

(* An answer of the executor is not the patch of an earlier manifest.      *)
Answering ==
  \/ proc.pc \in {"succeeded", "listing"}
  \/ proc.pc = "committing" /\ proc.cmd # "apply"

NewAnswerInv == manifest # None /\ Answering => manifest.of # proc.answer.id

(* The content of a file has no patch twice, and none of the future.       *)
AtMostOnce(content) ==
  \A p \in Patches : content[p] <= 1 /\ (p > patches => content[p] = 0)

DiskInv == \A f \in Files : AtMostOnce(disk[f])

(* A commit starts from files without its patch, and has changed only the  *)
(* files it has written.                                                   *)
CommitInv ==
  proc.pc = "committing" =>
    /\ proc.written \subseteq proc.answer.files
    /\ \A f \in proc.answer.files :
         /\ AtMostOnce(proc.answer.on[f])
         /\ proc.answer.on[f][proc.answer.id] = 0
         /\ f \notin proc.written => disk[f] = proc.answer.on[f]

(* The project does not have a list of changes.                            *)
Absent(list) == \A f \in list.files : disk[f][list.id] = 0

(* The patch of a dry run is not in the project while its manifest is      *)
(* being made, nor in the base of the manifest, nor when apply computes.   *)
AbsentInv ==
  /\ proc.pc \in {"succeeded", "listing"} /\ proc.dry => Absent(proc.answer)
  /\ proc.pc = "hooks" /\ proc.dry => Absent(changes)
  /\ proc.pc = "applying" => Absent(changes)
  /\ manifest # None => \A f \in manifest.files : manifest.base[f][manifest.of] = 0

PatchInv ==
  /\ OverlayInv
  /\ ListsInv
  /\ NewAnswerInv
  /\ DiskInv
  /\ CommitInv
  /\ AbsentInv

(* What apply is writing is the patch of the manifest, and all of it.      *)
ApplyInv ==
  proc.cmd = "apply" =>
    /\ proc.pc # "marking" => meta.life # "APPLIED" /\ manifest # None /\ ManifestMatches
    /\ proc.pc = "committing" =>
         /\ proc.answer.id = changes.id
         /\ proc.answer.files = changes.files
         /\ \A f \in proc.written : disk[f][changes.id] = 1

(* A run that counts as applied, or that a replay has found applied and is *)
(* going to give back as applied, has the patch of its manifest; so do the *)
(* copies from which the replay would undo a commit of its own.            *)
Applied == meta.life = "APPLIED" \/ (proc.cmd = "replay" /\ proc.backup.life = "APPLIED")

AppliedInv ==
  Applied =>
    /\ ~InFlow
    /\ manifest # None
    /\ \A f \in manifest.files :
         /\ disk[f][manifest.of] = 1
         /\ proc.pc = "committing" /\ f \in proc.answer.files =>
              proc.answer.on[f][manifest.of] = 1

(* What still waits to be applied is a dry run, and what was applied, or   *)
(* whose result file says so, is not one any more; a replay gives back     *)
(* what it found.                                                          *)
PendingInv ==
  /\ meta.pending => meta.mode = "dry_run"
  /\ proc.dry /\ proc.pc \notin {"architect", "gate"} => meta.mode = "dry_run"
  /\ proc.cmd = "apply" => ~proc.dry
  /\ meta.life = "APPLIED" \/ physical \/ proc.pc = "marking" => meta.mode = "apply"
  /\ proc.cmd = "replay" =>
       /\ proc.backup.mode = meta.mode
       /\ proc.backup.pending => meta.mode = "dry_run"
       /\ proc.backup.life = "APPLIED" => meta.mode = "apply"

(* The two states that the code calls impossible: a run both APPLIED and   *)
(* pending (lifecycle-consistency.js:46), and one applied to the project   *)
(* that still is a dry run to apply (run-artifacts-validator.js:131).      *)
NeverAppliedAndPending ==
  /\ ~(meta.life = "APPLIED" /\ meta.pending)
  /\ ~(physical /\ meta.mode = "dry_run" /\ meta.pending)

(* Once a review approves, no stage before it runs again: assessResume     *)
(* names none.                                                             *)
OrderInv ==
  ~bypassed =>
    /\ proc.cmd # "replay"
    /\ proc.pc \in {"listing", "hooks", "recording", "review", "reviewing", "judge"} =>
         result = "success"
    /\ review.status = "approved" =>
         /\ result = "success"
         /\ review.of = changes.id
         /\ InFlow => proc.pc \in {"judge", "knowledge", "finish"}
    /\ proc.pc \in {"knowledge", "finish"} => review.status = "approved"
    /\ proc.cmd = "apply" \/ log.status = "success" => review.status = "approved"

(* The retries of a stage stay within the budget.                          *)
BudgetInv == proc.pc \in Loop \union {"applying"} => proc.micro <= MaxMicroRetries + 1

ControlInv == PlaceInv /\ DryInv /\ BudgetInv

PipelineInvariant ==
  TypeOK /\ ControlInv /\ PatchInv /\ ApplyInv /\ AppliedInv /\ PendingInv /\ OrderInv

=============================================================================
