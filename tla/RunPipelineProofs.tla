-------------------------- MODULE RunPipelineProofs --------------------------
(***************************************************************************)
(* One run of the pipeline, with any files, patches, corrections, retries, *)
(* follow-up commands and faults.                                          *)
(***************************************************************************)
EXTENDS RunPipelineInv, TLAPS

(* The helpers keep the types of what they change.                         *)
LEMMA PatchedType ==
  ASSUME NEW content \in Content, NEW id \in 0..MaxPatches
  PROVE  Patched(content, id) \in Content
BY PipelineAssumption DEF Patched, Content

LEMMA StartedType ==
  ASSUME NEW l \in RunLog
  PROVE  Started(l) \in RunLog
<1>1. OneMore(l.steps) \in 0..MaxTotalSteps
  BY PipelineAssumption DEF OneMore, RunLog
<1> QED
  BY <1>1 DEF Started, RunLog

LEMMA IterationType ==
  ASSUME NEW l \in RunLog
  PROVE  /\ [l EXCEPT !.iterations = @ + 1] \in RunLog
         /\ [l EXCEPT !.iterations = IF @ = 0 THEN 1 ELSE @] \in RunLog
BY DEF RunLog

LEMMA BeginType ==
  ASSUME NEW cmd \in {"none", "run", "resume", "apply", "replay"}, NEW pc \in Stage,
         NEW dry \in BOOLEAN
  PROVE  Begin(cmd, pc, dry) \in Process
BY PipelineAssumption
   DEF Begin, Process, Overlay, NoOverlay, NoChanges, ChangeList, Untouched, Clean, Project,
       Content, NoExecution, Metadata, Lifecycle

LEMMA NoCommandType == NoCommand \in Process
BY BeginType DEF NoCommand, Stage

LEMMA GotoType ==
  ASSUME proc \in Process, NEW stage \in Stage, Goto(stage)
  PROVE  proc' \in Process
BY DEF Goto, Process

LEMMA LifeType ==
  ASSUME meta \in Metadata, NEW life \in Lifecycle
  PROVE  [meta EXCEPT !.life = life] \in Metadata
BY DEF Metadata

LEMMA AbortType ==
  ASSUME log \in RunLog, NEW open \in BOOLEAN, Abort(open)
  PROVE  log' \in RunLog /\ proc' \in Process
BY NoCommandType DEF Abort, RunLog

LEMMA ThrowType ==
  ASSUME log \in RunLog, proc \in Process, Throw
  PROVE  log' \in RunLog /\ proc' \in Process
<1>1. CASE Abort(TRUE)
  BY <1>1, AbortType
<1>2. CASE Goto("restore") /\ UNCHANGED log
  BY <1>2, GotoType DEF Stage
<1> QED
  BY <1>1, <1>2 DEF Throw

LEMMA StartStageType ==
  ASSUME log \in RunLog, proc \in Process, meta \in Metadata,
         NEW stage, NEW next \in Stage, NEW life \in Lifecycle, StartStage(stage, next, life)
  PROVE  log' \in RunLog /\ proc' \in Process /\ meta' \in Metadata
<1>1. CASE Abort(FALSE) /\ UNCHANGED meta
  BY <1>1, AbortType
<1>2. CASE /\ SetLife(life)
           /\ log' = Started(log)
           /\ proc' = [proc EXCEPT !.pc = next, !.micro = 1]
  <2>1. proc' \in Process
    BY <1>2 DEF Process
  <2> QED
    BY <1>2, <2>1, LifeType, StartedType DEF SetLife
<1> QED
  BY <1>1, <1>2 DEF StartStage

LEMMA ViewType ==
  ASSUME disk \in Project, proc \in Process
  PROVE  View \in Project
BY DEF View, Project, Process, Overlay

LEMMA NoChangesType == NoChanges \in ChangeList
BY PipelineAssumption DEF NoChanges, ChangeList, Untouched, Clean, Project, Content

LEMMA RolledBackType ==
  ASSUME disk \in Project, proc \in Process, NEW S \in SUBSET Files
  PROVE  RolledBack(S) \in Project
BY DEF RolledBack, Process, ChangeList, Project

LEMMA NextPhaseType == NextPhase \in Phase \union {"none"}
BY DEF NextPhase, AfterReview, Phase

(* Every step keeps the types.                                             *)
LEMMA PipelineTypeStep == TypeOK /\ [Next]_vars => TypeOK'
<1> SUFFICES ASSUME TypeOK, [Next]_vars PROVE TypeOK'
  OBVIOUS
<1>1. CASE UNCHANGED vars
  BY <1>1 DEF TypeOK, vars, outputs, history
<1>2. ASSUME ArchitectThrows PROVE TypeOK'
  BY <1>2, AbortType DEF ArchitectThrows, TypeOK, outputs, history
<1>3. ASSUME NEW v \in {"approved", "blocked", "invalid"}, ArchitectPlans(v) PROVE TypeOK'
  <2>1. proc' \in Process
    BY <1>3, GotoType DEF ArchitectPlans, TypeOK, Stage
  <2> QED
    BY <1>3, <2>1 DEF ArchitectPlans, TypeOK, history
<1>4. ASSUME ArchitectGate PROVE TypeOK'
  <2>1. CASE plan # "approved"
    BY <1>4, <2>1, AbortType DEF ArchitectGate, TypeOK, outputs, history
  <2>2. CASE plan = "approved"
    <3>1. proc' \in Process
      BY <1>4, <2>2, GotoType DEF ArchitectGate, TypeOK, Stage
    <3>2. meta' \in Metadata
      BY <1>4, <2>2 DEF ArchitectGate, TypeOK, Metadata
    <3> QED
      BY <1>4, <2>2, <3>1, <3>2 DEF ArchitectGate, TypeOK, outputs, history
  <2> QED
    BY <2>1, <2>2
<1>5. ASSUME StartExecutor PROVE TypeOK'
  <2>1. log' \in RunLog /\ proc' \in Process /\ meta' \in Metadata
    BY <1>5, StartStageType DEF StartExecutor, TypeOK, Stage, Lifecycle
  <2> QED
    BY <1>5, <2>1 DEF StartExecutor, StartStage, TypeOK, outputs, history
<1>6. ASSUME AgentThrows PROVE TypeOK'
  BY <1>6, ThrowType DEF AgentThrows, TypeOK, outputs, history
<1>7. ASSUME NEW r \in BOOLEAN, ExecutorBlocks(r) PROVE TypeOK'
  <2>1. proc' \in Process
    BY <1>7, NoChangesType DEF ExecutorBlocks, TypeOK, Process, Stage
  <2> QED
    BY <1>7, <2>1 DEF ExecutorBlocks, TypeOK, history
<1>8. ASSUME ExecutorClears PROVE TypeOK'
  <2>1. proc' \in Process
    BY <1>8, GotoType DEF ExecutorClears, TypeOK, Stage
  <2> QED
    BY <1>8, <2>1, NoChangesType DEF ExecutorClears, TypeOK, history
<1>9. ASSUME NEW S \in SUBSET Files, ExecutorProposes(S) PROVE TypeOK'
  <2> DEFINE id == IF S = {} THEN 0 ELSE patches + 1
             answer == IF S = {} THEN NoChanges ELSE [id |-> id, files |-> S, on |-> View]
             overlay == IF proc.dry
                        THEN [f \in Files |-> IF f \in S THEN Patched(View[f], id)
                                             ELSE proc.overlay[f]]
                        ELSE proc.overlay
  <2>1. View \in Project
    BY ViewType DEF TypeOK
  <2>2. id \in 0..MaxPatches
    BY <1>9, PipelineAssumption DEF ExecutorProposes, TypeOK
  <2>3. answer \in ChangeList
    BY <2>1, <2>2, NoChangesType DEF ChangeList
  <2>4. \A f \in Files : Patched(View[f], id) \in Content
    BY <2>1, <2>2, PatchedType DEF Project
  <2>5. overlay \in Overlay
    BY <2>4 DEF TypeOK, Process, Overlay
  <2>6. proc' = [proc EXCEPT !.answer = answer, !.written = {},
                             !.pc = IF proc.dry THEN "succeeded" ELSE "committing",
                             !.overlay = overlay]
    <3>1. proc \in Process
      BY DEF TypeOK
    <3> QED
      BY <1>9, <3>1 DEF ExecutorProposes, Process
  <2> HIDE DEF id, answer, overlay
  <2>7. proc' \in Process
    BY <2>3, <2>5, <2>6 DEF TypeOK, Process, Stage
  <2>8. patches' \in 0..MaxPatches
    BY <1>9, <2>2 DEF ExecutorProposes, TypeOK, id
  <2> QED
    BY <1>9, <2>7, <2>8 DEF ExecutorProposes, TypeOK, outputs
<1>10. ASSUME NEW f \in Files, CommitFile(f) PROVE TypeOK'
  <2>1. proc' \in Process
    BY <1>10 DEF CommitFile, TypeOK, Process
  <2>2. Patched(proc.answer.on[f], proc.answer.id) \in Content
    BY PatchedType DEF TypeOK, Process, ChangeList, Project
  <2>3. disk' \in Project
    BY <1>10, <2>2 DEF CommitFile, TypeOK, Project
  <2> QED
    BY <1>10, <2>1, <2>3 DEF CommitFile, TypeOK, outputs, history
<1>11. ASSUME CommitFails PROVE TypeOK'
  <2>1. disk' \in Project
    <3>1. \A S \in Undone : S \in SUBSET Files
      BY DEF Undone, TypeOK, Process
    <3> QED
      BY <1>11, <3>1, RolledBackType DEF CommitFails, TypeOK
  <2>2. meta' \in Metadata
    BY <1>11, LifeType DEF CommitFails, SetLife, TypeOK, Lifecycle
  <2>3. proc' \in Process
    BY ZenonT(40), <1>11, NoCommandType DEF CommitFails, TypeOK, Process, Stage
  <2> QED
    BY <1>11, <2>1, <2>2, <2>3 DEF CommitFails, TypeOK, history
<1>12. ASSUME CommitEnds PROVE TypeOK'
  <2>1. proc' \in Process
    BY <1>12, GotoType DEF CommitEnds, TypeOK, Stage
  <2>2. meta' \in Metadata
    <3>1. meta \in Metadata
      BY DEF TypeOK
    <3>2. [mode |-> "apply", pending |-> FALSE, life |-> "APPLIED"] \in Metadata
      BY DEF Metadata, Lifecycle
    <3> QED
      BY <1>12, <3>1, <3>2 DEF CommitEnds
  <2> QED
    BY <1>12, <2>1, <2>2 DEF CommitEnds, TypeOK, outputs, history
<1>13. ASSUME ExecutorSucceeds PROVE TypeOK'
  <2>1. proc' \in Process
    BY <1>13, GotoType DEF ExecutorSucceeds, TypeOK, Stage
  <2> QED
    BY <1>13, <2>1 DEF ExecutorSucceeds, TypeOK, history
<1>14. ASSUME ExecutorLists PROVE TypeOK'
  <2>1. proc' \in Process
    BY <1>14, NoChangesType DEF ExecutorLists, TypeOK, Process, Stage
  <2>2. meta' \in Metadata
    BY <1>14, LifeType DEF ExecutorLists, TypeOK, Lifecycle
  <2>3. changes' \in ChangeList
    BY <1>14 DEF ExecutorLists, TypeOK, Process
  <2> QED
    BY <1>14, <2>1, <2>2, <2>3 DEF ExecutorLists, TypeOK, history
<1>15. ASSUME Recover PROVE TypeOK'
  <2>1. CASE ~InFlow /\ Goto("restore") /\ UNCHANGED <<meta, log>>
    <3>1. proc' \in Process
      BY <2>1, GotoType DEF TypeOK, Stage
    <3> QED
      BY <1>15, <2>1, <3>1 DEF Recover, TypeOK, outputs, history
  <2>2. CASE /\ SetLife("RECOVERING")
             /\ proc' = [proc EXCEPT !.pc = "executing", !.micro = @ + 1, !.retryable = FALSE]
             /\ UNCHANGED log
    <3>1. proc' \in Process
      <4>1. proc \in Process
        BY DEF TypeOK
      <4>2. proc.micro + 1 \in Nat
        BY <4>1 DEF Process
      <4> QED
        BY <2>2, <4>1, <4>2 DEF Process, Stage
    <3>2. meta' \in Metadata
      BY <2>2, LifeType DEF SetLife, TypeOK, Lifecycle
    <3> QED
      BY <1>15, <2>2, <3>1, <3>2 DEF Recover, TypeOK, outputs, history
  <2>3. CASE /\ SetLife(IF proc.retryable THEN "RETRY_EXHAUSTED" ELSE "RECOVERY_FAILED")
             /\ Abort(TRUE)
    <3>1. meta' \in Metadata
      BY <2>3, LifeType DEF SetLife, TypeOK, Lifecycle
    <3>2. log' \in RunLog /\ proc' \in Process
      BY <2>3, AbortType DEF TypeOK
    <3> QED
      BY <1>15, <3>1, <3>2 DEF Recover, TypeOK, outputs, history
  <2> QED
    BY <1>15, <2>1, <2>2, <2>3 DEF Recover
<1>16. ASSUME WriteManifest PROVE TypeOK'
  <2>1. proc' \in Process
    BY <1>16, GotoType DEF WriteManifest, TypeOK, Stage
  <2>2. manifest' \in Manifest \union {None}
    BY <1>16 DEF WriteManifest, TypeOK, Manifest, ChangeList
  <2> QED
    BY <1>16, <2>1, <2>2 DEF WriteManifest, TypeOK, history
<1>17. ASSUME RecordPending PROVE TypeOK'
  <2>1. proc' \in Process
    BY <1>17, GotoType DEF RecordPending, TypeOK, Stage
  <2>2. PendingPatch \in BOOLEAN
    BY DEF PendingPatch, TypeOK, Process
  <2>3. meta' \in Metadata
    BY <1>17, <2>2 DEF RecordPending, TypeOK, Metadata
  <2> QED
    BY <1>17, <2>1, <2>3 DEF RecordPending, TypeOK, outputs, history
<1>18. ASSUME StartReview PROVE TypeOK'
  <2>1. log' \in RunLog /\ proc' \in Process /\ meta' \in Metadata
    BY <1>18, StartStageType DEF StartReview, TypeOK, Stage, Lifecycle
  <2> QED
    BY <1>18, <2>1 DEF StartReview, StartStage, TypeOK, outputs, history
<1>19. ASSUME NEW s \in {"approved", "rejected", "blocked"}, ReviewAnswers(s) PROVE TypeOK'
  <2>1. proc' \in Process
    BY <1>19, GotoType DEF ReviewAnswers, TypeOK, Stage
  <2>2. review' \in Review
    BY <1>19 DEF ReviewAnswers, TypeOK, Review, ChangeList
  <2> QED
    BY <1>19, <2>1, <2>2 DEF ReviewAnswers, TypeOK, history
<1>20. ASSUME Judge PROVE TypeOK'
  <2>1. log' \in RunLog
    <3>1. log \in RunLog
      BY DEF TypeOK
    <3>2. [log EXCEPT !.status = "partial"] \in RunLog
      BY <3>1 DEF RunLog
    <3> QED
      BY <1>20, <3>1, <3>2, StartedType, IterationType DEF Judge, End
  <2>2. meta' \in Metadata
    BY <1>20, LifeType DEF Judge, SetLife, TypeOK, Lifecycle
  <2>3. proc' \in Process
    BY <1>20, GotoType, NoCommandType DEF Judge, End, TypeOK, Stage
  <2> QED
    BY <1>20, <2>1, <2>2, <2>3 DEF Judge, TypeOK, outputs, history
<1>21. ASSUME CorrectionAnswers PROVE TypeOK'
  <2>1. proc' \in Process
    BY <1>21, GotoType DEF CorrectionAnswers, TypeOK, Stage
  <2> QED
    BY <1>21, <2>1 DEF CorrectionAnswers, TypeOK, history
<1>22. ASSUME KnowledgeAnswers PROVE TypeOK'
  <2>1. proc' \in Process
    BY <1>22, GotoType DEF KnowledgeAnswers, TypeOK, Stage
  <2>2. meta' \in Metadata
    BY <1>22, LifeType DEF KnowledgeAnswers, TypeOK, Lifecycle
  <2> QED
    BY <1>22, <2>1, <2>2 DEF KnowledgeAnswers, TypeOK, outputs, history
<1>23. ASSUME Finish PROVE TypeOK'
  <2>1. Outcome \in {"running", "success", "failed", "partial"}
    BY DEF Outcome
  <2>2. log' \in RunLog
    BY <1>23, <2>1 DEF Finish, End, TypeOK, RunLog
  <2> QED
    BY <1>23, <2>2, NoCommandType DEF Finish, End, TypeOK, outputs, history
<1>24. ASSUME Assess PROVE TypeOK'
  BY <1>24, NextPhaseType DEF Assess, TypeOK, outputs, history
<1>25. ASSUME ResumeIsLockedOut PROVE TypeOK'
  BY <1>25 DEF ResumeIsLockedOut, TypeOK, outputs, history
<1>26. ASSUME BeginResume PROVE TypeOK'
  <2>1. log' \in RunLog
    <3>1. log \in RunLog
      BY DEF TypeOK
    <3> QED
      BY <1>26, <3>1, StartedType, IterationType DEF BeginResume
  <2>2. proc' \in Process
    BY <1>26, BeginType DEF BeginResume, TypeOK, Phase, Stage, ReturnsDry
  <2>3. meta' \in Metadata
    BY <1>26, LifeType DEF BeginResume, TypeOK, Lifecycle
  <2>4. commands' \in 0..MaxCommands
    BY <1>26, PipelineAssumption DEF BeginResume, Returns, TypeOK
  <2> QED
    BY <1>26, <2>1, <2>2, <2>3, <2>4 DEF BeginResume, TypeOK, outputs
<1>27. ASSUME BeginApply PROVE TypeOK'
  <2>1. proc' \in Process
    BY <1>27, BeginType DEF BeginApply, Stage
  <2>2. meta' \in Metadata
    BY <1>27, LifeType DEF BeginApply, SetLife, TypeOK, Lifecycle
  <2>3. commands' \in 0..MaxCommands
    BY <1>27, PipelineAssumption DEF BeginApply, Returns, TypeOK
  <2> QED
    BY <1>27, <2>1, <2>2, <2>3 DEF BeginApply, TypeOK, outputs
<1>28. ASSUME ApplyComputes PROVE TypeOK'
  <2>1. [changes EXCEPT !.on = disk] \in ChangeList
    BY DEF TypeOK, ChangeList
  <2>2. proc' \in Process
    BY ZenonT(40), <1>28, <2>1, NoCommandType DEF ApplyComputes, TypeOK, Process, Stage
  <2>3. meta' \in Metadata
    BY <1>28, LifeType DEF ApplyComputes, SetLife, TypeOK, Lifecycle
  <2> QED
    BY <1>28, <2>2, <2>3 DEF ApplyComputes, TypeOK, outputs, history
<1>29. ASSUME MarkApplied PROVE TypeOK'
  BY <1>29, NoCommandType DEF MarkApplied, TypeOK, history
<1>30. ASSUME NEW step \in Phase, BeginReplay(step) PROVE TypeOK'
  <2>1. ReplayStage[step] \in Stage
    BY DEF ReplayStage, Phase, Stage
  <2>2. Begin("replay", ReplayStage[step], ReturnsDry) \in Process
    BY <2>1, BeginType DEF ReturnsDry
  <2>3. proc' \in Process
    BY <1>30, <2>2 DEF BeginReplay, TypeOK, Process
  <2>4. meta' \in Metadata
    BY <1>30, LifeType DEF BeginReplay, SetLife, TypeOK, Lifecycle
  <2>5. commands' \in 0..MaxCommands
    BY <1>30, PipelineAssumption DEF BeginReplay, Returns, TypeOK
  <2> QED
    BY <1>30, <2>3, <2>4, <2>5 DEF BeginReplay, TypeOK, outputs
<1>31. ASSUME RestoreMetadata PROVE TypeOK'
  <2>1. meta' \in Metadata
    BY <1>31 DEF RestoreMetadata, TypeOK, Process
  <2> QED
    BY <1>31, <2>1, NoCommandType DEF RestoreMetadata, TypeOK, outputs, history
<1>32. ASSUME Kill PROVE TypeOK'
  BY <1>32, NoCommandType DEF Kill, TypeOK, outputs, history
<1>33. ASSUME NEW f \in Files, ExternalEdit(f) PROVE TypeOK'
  <2>1. Patched(disk[f], Edit) \in Content
    BY PatchedType, PipelineAssumption DEF TypeOK, Project, Edit
  <2>2. disk' \in Project
    BY <1>33, <2>1 DEF ExternalEdit, TypeOK, Project
  <2> QED
    BY <1>33, <2>2 DEF ExternalEdit, TypeOK, outputs, history
<1> QED
  BY <1>1, <1>2, <1>3, <1>4, <1>5, <1>6, <1>7, <1>8, <1>9, <1>10, <1>11, <1>12, <1>13, <1>14,
     <1>15, <1>16, <1>17, <1>18, <1>19, <1>20, <1>21, <1>22, <1>23, <1>24, <1>25, <1>26, <1>27,
     <1>28, <1>29, <1>30, <1>31, <1>32, <1>33
     DEF Next, Work

LEMMA PipelineTypeInit == Init => TypeOK
<1> SUFFICES ASSUME Init PROVE TypeOK
  OBVIOUS
<1>1. proc \in Process
  BY BeginType DEF Init, Stage
<1>2. disk \in Project
  BY PipelineAssumption DEF Init, Untouched, Clean, Project, Content
<1>3. meta \in Metadata
  BY DEF Init, NoExecution, Metadata, Lifecycle
<1>4. log \in RunLog
  BY PipelineAssumption DEF Init, RunLog
<1>5. review \in Review
  BY PipelineAssumption DEF Init, Review
<1>6. changes \in ChangeList /\ manifest \in Manifest \union {None}
  BY NoChangesType DEF Init
<1>7. /\ plan \in {"none", "approved", "blocked", "invalid"}
      /\ result \in {"none", "success", "blocked"}
      /\ instructions \in BOOLEAN
      /\ physical \in BOOLEAN
      /\ asked \in {"dry_run", "apply"}
      /\ waiting \in Phase \union {"none"}
      /\ bypassed \in BOOLEAN
  BY DEF Init
<1>8. patches \in 0..MaxPatches /\ commands \in 0..MaxCommands
  BY PipelineAssumption DEF Init
<1> QED
  BY <1>1, <1>2, <1>3, <1>4, <1>5, <1>6, <1>7, <1>8 DEF TypeOK

(* The state of a run is always well typed.                                *)
THEOREM PipelineTypeCorrect == Spec => []TypeOK
BY PipelineTypeInit, PipelineTypeStep, PTL DEF Spec

-----------------------------------------------------------------------------
(* Where the commands are, whether they are dry, and their budget.         *)

LEMMA ControlInit == Init => ControlInv
BY PipelineAssumption DEF Init, Begin, NoExecution, ControlInv, PlaceInv, InFlow, DryInv,
                          BudgetInv, Loop

LEMMA ControlStep ==
  ASSUME TypeOK, ControlInv, [Next]_vars
  PROVE  ControlInv'
<1>1. CASE UNCHANGED vars
  BY <1>1 DEF ControlInv, PlaceInv, InFlow, DryInv, BudgetInv, Loop, vars, outputs, history
<1>2. ASSUME ArchitectThrows PROVE ControlInv'
  BY <1>2, PipelineAssumption
     DEF ArchitectThrows, Abort, ControlInv, PlaceInv, InFlow, DryInv, BudgetInv, Loop, At,
         NoCommand, Begin, TypeOK, Process, outputs, history, Metadata
<1>3. ASSUME NEW v \in {"approved", "blocked", "invalid"}, ArchitectPlans(v) PROVE ControlInv'
  BY <1>3, PipelineAssumption
     DEF ArchitectPlans, Goto, ControlInv, PlaceInv, InFlow, DryInv, BudgetInv, Loop, At,
         NoCommand, Begin, TypeOK, Process, outputs, history, Metadata
<1>4. ASSUME ArchitectGate PROVE ControlInv'
  <2>1. CASE proc' = NoCommand
    BY <1>4, <2>1, PipelineAssumption
       DEF ArchitectGate, Goto, ControlInv, PlaceInv, InFlow, DryInv, BudgetInv, Loop, NoCommand,
           Begin, outputs, history, Metadata
  <2>2. CASE proc' # NoCommand
    BY ZenonT(40), <1>4, <2>2, PipelineAssumption
       DEF ArchitectGate, Goto, Abort, ControlInv, PlaceInv, InFlow, DryInv, BudgetInv, Loop, At,
           TypeOK, Process, outputs, history, Metadata
  <2> QED
    BY <2>1, <2>2
<1>5. ASSUME StartExecutor PROVE ControlInv'
  <2>1. CASE proc' = NoCommand
    BY <1>5, <2>1 DEF StartExecutor, StartStage, ControlInv, PlaceInv, InFlow, DryInv,
                     BudgetInv, Loop, NoCommand, Begin
  <2>2. CASE /\ SetLife("EXECUTING")
             /\ proc' = [proc EXCEPT !.pc = "executing", !.micro = 1]
    <3>1. meta'.mode = meta.mode
      BY <2>2 DEF SetLife, TypeOK, Metadata
    <3> QED
      BY <1>5, <2>2, <3>1, PipelineAssumption
         DEF StartExecutor, StartStage, ControlInv, PlaceInv, InFlow, DryInv, BudgetInv, Loop,
             At, TypeOK, Process
  <2> QED
    BY <1>5, <2>1, <2>2 DEF StartExecutor, StartStage, Abort
<1>6. ASSUME AgentThrows PROVE ControlInv'
  BY <1>6, PipelineAssumption
     DEF AgentThrows, Throw, Goto, Abort, InFlow, ControlInv, PlaceInv, DryInv, BudgetInv, Loop,
         At, NoCommand, Begin, TypeOK, Process, outputs, history, Metadata
<1>7. ASSUME NEW r \in BOOLEAN, ExecutorBlocks(r) PROVE ControlInv'
  BY <1>7, PipelineAssumption
     DEF ExecutorBlocks, ControlInv, PlaceInv, InFlow, DryInv, BudgetInv, Loop, At, NoCommand,
         Begin, TypeOK, Process, outputs, history, Metadata
<1>8. ASSUME ExecutorClears PROVE ControlInv'
  BY <1>8, PipelineAssumption
     DEF ExecutorClears, Goto, ControlInv, PlaceInv, InFlow, DryInv, BudgetInv, Loop, At,
         NoCommand, Begin, TypeOK, Process, outputs, history, Metadata
<1>9. ASSUME NEW S \in SUBSET Files, ExecutorProposes(S) PROVE ControlInv'
  BY <1>9, PipelineAssumption
     DEF ExecutorProposes, ControlInv, PlaceInv, InFlow, DryInv, BudgetInv, Loop, At, NoCommand,
         Begin, TypeOK, Process, outputs, history, Metadata
<1>10. ASSUME NEW f \in Files, CommitFile(f) PROVE ControlInv'
  BY <1>10, PipelineAssumption
     DEF CommitFile, ControlInv, PlaceInv, InFlow, DryInv, BudgetInv, Loop, At, NoCommand, Begin,
         TypeOK, Process, outputs, history, Metadata
<1>11. ASSUME CommitFails PROVE ControlInv'
  <2>1. CASE proc' = NoCommand
    BY <1>11, <2>1, PipelineAssumption
       DEF CommitFails, SetLife, ControlInv, PlaceInv, InFlow, DryInv, BudgetInv, Loop,
           NoCommand, Begin, outputs, history, Metadata
  <2>2. CASE proc' # NoCommand
    BY ZenonT(40), <1>11, <2>2, PipelineAssumption
       DEF CommitFails, SetLife, ControlInv, PlaceInv, InFlow, DryInv, BudgetInv, Loop, At,
           TypeOK, Process, outputs, history, Metadata
  <2> QED
    BY <2>1, <2>2
<1>12. ASSUME CommitEnds PROVE ControlInv'
  BY <1>12, PipelineAssumption
     DEF CommitEnds, Goto, ControlInv, PlaceInv, InFlow, DryInv, BudgetInv, Loop, At, NoCommand,
         Begin, TypeOK, Process, outputs, history, Metadata
<1>13. ASSUME ExecutorSucceeds PROVE ControlInv'
  BY <1>13, PipelineAssumption
     DEF ExecutorSucceeds, Goto, ControlInv, PlaceInv, InFlow, DryInv, BudgetInv, Loop, At,
         NoCommand, Begin, TypeOK, Process, outputs, history, Metadata
<1>14. ASSUME ExecutorLists PROVE ControlInv'
  BY <1>14, PipelineAssumption
     DEF ExecutorLists, InFlow, ControlInv, PlaceInv, DryInv, BudgetInv, Loop, At, NoCommand,
         Begin, TypeOK, Process, outputs, history, Metadata
<1>15. ASSUME Recover PROVE ControlInv'
  <2>1. CASE proc' = NoCommand
    BY <1>15, <2>1
       DEF Recover, Goto, ControlInv, PlaceInv, InFlow, DryInv, BudgetInv, Loop, NoCommand, Begin
  <2>2. CASE ~InFlow /\ Goto("restore") /\ UNCHANGED meta
    BY <1>15, <2>2
       DEF Recover, Goto, ControlInv, PlaceInv, InFlow, DryInv, BudgetInv, Loop, At, TypeOK,
           Process
  <2>3. CASE /\ MayRetry
             /\ SetLife("RECOVERING")
             /\ proc' = [proc EXCEPT !.pc = "executing", !.micro = @ + 1, !.retryable = FALSE]
    <3>1. meta'.mode = meta.mode
      BY <2>3 DEF SetLife, TypeOK, Metadata
    <3>2. /\ proc'.cmd = proc.cmd
          /\ proc'.pc = "executing"
          /\ proc'.dry = proc.dry
          /\ proc'.micro = proc.micro + 1
      BY <2>3 DEF TypeOK, Process
    <3>3. proc'.micro <= MaxMicroRetries + 1
      BY <2>3, <3>2, PipelineAssumption DEF MayRetry, TypeOK, Process
    <3> QED
      BY <1>15, <3>1, <3>2, <3>3 DEF Recover, ControlInv, PlaceInv, InFlow, DryInv, BudgetInv, At
  <2> QED
    BY <1>15, <2>1, <2>2, <2>3 DEF Recover, Abort
<1>16. ASSUME WriteManifest PROVE ControlInv'
  BY <1>16, PipelineAssumption
     DEF WriteManifest, Goto, ControlInv, PlaceInv, InFlow, DryInv, BudgetInv, Loop, At,
         NoCommand, Begin, TypeOK, Process, outputs, history, Metadata
<1>17. ASSUME RecordPending PROVE ControlInv'
  BY <1>17, PipelineAssumption
     DEF RecordPending, Goto, ControlInv, PlaceInv, InFlow, DryInv, BudgetInv, Loop, At,
         NoCommand, Begin, TypeOK, Process, outputs, history, Metadata
<1>18. ASSUME StartReview PROVE ControlInv'
  <2>1. CASE proc' = NoCommand
    BY <1>18, <2>1 DEF StartReview, StartStage, ControlInv, PlaceInv, InFlow, DryInv,
                     BudgetInv, Loop, NoCommand, Begin
  <2>2. CASE /\ SetLife("REVIEWING")
             /\ proc' = [proc EXCEPT !.pc = "reviewing", !.micro = 1]
    <3>1. meta'.mode = meta.mode
      BY <2>2 DEF SetLife, TypeOK, Metadata
    <3> QED
      BY <1>18, <2>2, <3>1, PipelineAssumption
         DEF StartReview, StartStage, ControlInv, PlaceInv, InFlow, DryInv, BudgetInv, Loop, At,
             TypeOK, Process
  <2> QED
    BY <1>18, <2>1, <2>2 DEF StartReview, StartStage, Abort
<1>19. ASSUME NEW s \in {"approved", "rejected", "blocked"}, ReviewAnswers(s) PROVE ControlInv'
  BY <1>19, PipelineAssumption
     DEF ReviewAnswers, Goto, InFlow, ControlInv, PlaceInv, DryInv, BudgetInv, Loop, At,
         NoCommand, Begin, TypeOK, Process, outputs, history, Metadata
<1>20. ASSUME Judge PROVE ControlInv'
  BY <1>20, PipelineAssumption
     DEF Judge, End, Goto, SetLife, ControlInv, PlaceInv, InFlow, DryInv, BudgetInv, Loop, At,
         NoCommand, Begin, TypeOK, Process, outputs, history, Metadata
<1>21. ASSUME CorrectionAnswers PROVE ControlInv'
  BY <1>21, PipelineAssumption
     DEF CorrectionAnswers, Goto, InFlow, ControlInv, PlaceInv, DryInv, BudgetInv, Loop, At,
         NoCommand, Begin, TypeOK, Process, outputs, history, Metadata
<1>22. ASSUME KnowledgeAnswers PROVE ControlInv'
  BY <1>22, PipelineAssumption
     DEF KnowledgeAnswers, Goto, ControlInv, PlaceInv, InFlow, DryInv, BudgetInv, Loop, At,
         NoCommand, Begin, TypeOK, Process, outputs, history, Metadata
<1>23. ASSUME Finish PROVE ControlInv'
  BY <1>23, PipelineAssumption
     DEF Finish, End, ControlInv, PlaceInv, InFlow, DryInv, BudgetInv, Loop, At, NoCommand,
         Begin, TypeOK, Process, outputs, history, Metadata
<1>24. ASSUME Assess PROVE ControlInv'
  BY <1>24, PipelineAssumption
     DEF Assess, ControlInv, PlaceInv, InFlow, DryInv, BudgetInv, Loop, At, NoCommand, Begin,
         TypeOK, Process, outputs, history, Metadata
<1>25. ASSUME ResumeIsLockedOut PROVE ControlInv'
  BY <1>25, PipelineAssumption
     DEF ResumeIsLockedOut, ControlInv, PlaceInv, InFlow, DryInv, BudgetInv, Loop, At, NoCommand,
         Begin, TypeOK, Process, outputs, history, Metadata
<1>26. ASSUME BeginResume PROVE ControlInv'
  BY <1>26, PipelineAssumption
     DEF BeginResume, Begin, Returns, ReturnsDry, Phase, ControlInv, PlaceInv, InFlow, DryInv,
         BudgetInv, Loop, At, NoCommand, TypeOK, Process, outputs, history, Metadata
<1>27. ASSUME BeginApply PROVE ControlInv'
  BY <1>27, PipelineAssumption
     DEF BeginApply, Begin, Returns, SetLife, ControlInv, PlaceInv, InFlow, DryInv, BudgetInv,
         Loop, At, NoCommand, TypeOK, Process, outputs, history, Metadata
<1>28. ASSUME ApplyComputes PROVE ControlInv'
  <2>1. CASE proc' = NoCommand
    BY <1>28, <2>1, PipelineAssumption
       DEF ApplyComputes, SetLife, ControlInv, PlaceInv, InFlow, DryInv, BudgetInv, Loop,
           NoCommand, Begin, outputs, history, Metadata
  <2>2. CASE proc' # NoCommand
    BY ZenonT(40), <1>28, <2>2, PipelineAssumption
       DEF ApplyComputes, SetLife, ControlInv, PlaceInv, InFlow, DryInv, BudgetInv, Loop, At,
           TypeOK, Process, outputs, history, Metadata
  <2> QED
    BY <2>1, <2>2
<1>29. ASSUME MarkApplied PROVE ControlInv'
  BY <1>29, PipelineAssumption
     DEF MarkApplied, ControlInv, PlaceInv, InFlow, DryInv, BudgetInv, Loop, At, NoCommand,
         Begin, TypeOK, Process, outputs, history, Metadata
<1>30. ASSUME NEW step \in Phase, BeginReplay(step) PROVE ControlInv'
  <2>1. /\ proc'.cmd = "replay"
        /\ proc'.pc \in {"executing", "reviewing", "correcting"}
        /\ proc'.dry = ReturnsDry
        /\ proc'.micro = 0
    BY <1>30 DEF BeginReplay, Begin, ReplayStage, Phase
  <2>2. meta'.mode = meta.mode
    BY <1>30 DEF BeginReplay, SetLife, TypeOK, Metadata
  <2>3. meta'.mode = "dry_run" => proc'.dry
    BY <2>1, <2>2 DEF ReturnsDry
  <2>4. proc'.micro <= MaxMicroRetries + 1
    BY <2>1, PipelineAssumption
  <2> QED
    BY <2>1, <2>3, <2>4 DEF ControlInv, PlaceInv, InFlow, DryInv, BudgetInv
<1>31. ASSUME RestoreMetadata PROVE ControlInv'
  BY <1>31, PipelineAssumption
     DEF RestoreMetadata, ControlInv, PlaceInv, InFlow, DryInv, BudgetInv, Loop, At, NoCommand,
         Begin, TypeOK, Process, outputs, history, Metadata
<1>32. ASSUME Kill PROVE ControlInv'
  BY <1>32, PipelineAssumption
     DEF Kill, ControlInv, PlaceInv, InFlow, DryInv, BudgetInv, Loop, At, NoCommand, Begin,
         TypeOK, Process, outputs, history, Metadata
<1>33. ASSUME NEW f \in Files, ExternalEdit(f) PROVE ControlInv'
  BY <1>33, PipelineAssumption
     DEF ExternalEdit, ControlInv, PlaceInv, InFlow, DryInv, BudgetInv, Loop, At, NoCommand,
         Begin, TypeOK, Process, outputs, history, Metadata
<1> QED
  BY <1>1, <1>2, <1>3, <1>4, <1>5, <1>6, <1>7, <1>8, <1>9, <1>10, <1>11, <1>12, <1>13, <1>14,
     <1>15, <1>16, <1>17, <1>18, <1>19, <1>20, <1>21, <1>22, <1>23, <1>24, <1>25, <1>26, <1>27,
     <1>28, <1>29, <1>30, <1>31, <1>32, <1>33
     DEF Next, Work

LEMMA ControlHolds == Spec => [](TypeOK /\ ControlInv)
<1>1. Init => TypeOK /\ ControlInv
  BY PipelineTypeInit, ControlInit
<1>2. TypeOK /\ ControlInv /\ [Next]_vars => (TypeOK /\ ControlInv)'
  BY PipelineTypeStep, ControlStep
<1> QED
  BY <1>1, <1>2, PTL DEF Spec

-----------------------------------------------------------------------------
(* Only a commit and an edit by somebody else change the project.          *)
LEMMA WhoChangesTheProject ==
  ASSUME [Next]_vars, proc.pc # "committing", ~\E f \in Files : ExternalEdit(f)
  PROVE  UNCHANGED disk
<1>1. CASE UNCHANGED vars
  BY <1>1 DEF vars
<1>2. CASE \/ ArchitectThrows \/ \E v \in {"approved", "blocked", "invalid"} : ArchitectPlans(v)
           \/ ArchitectGate \/ AgentThrows
  BY <1>2 DEF ArchitectThrows, ArchitectPlans, ArchitectGate, AgentThrows
<1>3. CASE StartExecutor \/ StartReview
  BY <1>3 DEF StartExecutor, StartReview, StartStage
<1>4. CASE \/ \E r \in BOOLEAN : ExecutorBlocks(r)
           \/ ExecutorClears
           \/ \E S \in SUBSET Files : ExecutorProposes(S)
           \/ ExecutorSucceeds \/ ExecutorLists \/ Recover
  BY <1>4 DEF ExecutorBlocks, ExecutorClears, ExecutorProposes, ExecutorSucceeds,
              ExecutorLists, Recover
<1>5. ~(\E f \in Files : CommitFile(f)) /\ ~CommitFails /\ ~CommitEnds
  BY DEF CommitFile, CommitFails, CommitEnds, At
<1>6. CASE \/ WriteManifest \/ RecordPending
           \/ \E s \in {"approved", "rejected", "blocked"} : ReviewAnswers(s)
           \/ Judge \/ CorrectionAnswers \/ KnowledgeAnswers \/ Finish
  BY <1>6 DEF WriteManifest, RecordPending, ReviewAnswers, Judge, CorrectionAnswers,
              KnowledgeAnswers, Finish
<1>7. CASE ApplyComputes \/ MarkApplied \/ RestoreMetadata \/ Kill
  BY <1>7 DEF ApplyComputes, MarkApplied, RestoreMetadata, Kill
<1>8. CASE \/ Assess \/ ResumeIsLockedOut \/ BeginResume \/ BeginApply
           \/ \E step \in Phase : BeginReplay(step)
  BY <1>8 DEF Assess, ResumeIsLockedOut, BeginResume, BeginApply, BeginReplay
<1> QED
  BY <1>1, <1>2, <1>3, <1>4, <1>5, <1>6, <1>7, <1>8 DEF Next, Work

LEMMA EditKeepsPatches ==
  ASSUME TypeOK, NEW f \in Files, ExternalEdit(f)
  PROVE  \A g \in Files, p \in Patches : disk'[g][p] = disk[g][p]
BY DEF ExternalEdit, Patched, Edit, Patches, TypeOK, Project, Content

LEMMA DryRunStep ==
  ASSUME TypeOK, ControlInv, [Next]_vars, meta.mode = "dry_run", proc.cmd # "apply"
  PROVE  \A f \in Files, p \in Patches : disk'[f][p] = disk[f][p]
<1>1. proc.pc # "committing"
  BY DEF ControlInv, PlaceInv, DryInv, TypeOK, Process
<1> QED
  BY <1>1, WhoChangesTheProject, EditKeepsPatches

(* Once the metadata says dry run, only apply changes the project: a       *)
(* command that comes back to the run goes by the mode in the metadata.    *)
THEOREM DryRunIsDry == Spec => DryRunWritesNothing
<1>1. TypeOK /\ ControlInv /\ [Next]_vars =>
        [meta.mode = "dry_run" /\ proc.cmd # "apply" =>
           \A f \in Files, p \in Patches : disk'[f][p] = disk[f][p]]_vars
  BY DryRunStep
<1> QED
  BY <1>1, ControlHolds, PTL DEF Spec, DryRunWritesNothing

-----------------------------------------------------------------------------
(* The parts of the distance to the end are numbers.                       *)
Measured == CorrectionsLeft \in Nat /\ RetriesLeft \in Nat /\ StagesLeft[proc.pc] \in Nat

LEMMA RemainingType == TypeOK /\ BudgetInv => Measured
<1> SUFFICES ASSUME TypeOK, BudgetInv PROVE Measured
  OBVIOUS
<1>1. CorrectionsLeft \in Nat
  BY PipelineAssumption DEF CorrectionsLeft, TypeOK, RunLog
<1>2. RetriesLeft \in Nat
  BY PipelineAssumption DEF RetriesLeft, BudgetInv, TypeOK, Process
<1>3. StagesLeft[proc.pc] \in Nat
  BY DEF StagesLeft, TypeOK, Process, Stage
<1> QED
  BY <1>1, <1>2, <1>3 DEF Measured

(* A step to a later stage, which does not take back retries.              *)
Onward ==
  /\ StagesLeft[proc'.pc] < StagesLeft[proc.pc]
  /\ \/ proc.pc \in Early
     \/ proc'.pc \notin Early \union Loop
     \/ proc.pc \in Loop /\ proc'.pc \in Loop /\ proc'.micro = proc.micro

LEMMA OnwardIsNearer ==
  ASSUME TypeOK, TypeOK', Measured, Measured', Onward, log'.iterations = log.iterations
  PROVE  Nearer(Remaining', Remaining)
<1>1. CorrectionsLeft' = CorrectionsLeft
  BY DEF CorrectionsLeft
<1>2. RetriesLeft' <= RetriesLeft
  <2>1. proc.micro \in Nat /\ proc'.micro \in Nat
    BY DEF TypeOK, Process
  <2>2. Early \cap Loop = {}
    BY DEF Early, Loop
  <2>3. CASE proc.pc \in Early
    BY <2>1, <2>2, <2>3, PipelineAssumption DEF RetriesLeft
  <2>4. CASE proc'.pc \notin Early \union Loop
    BY <2>4 DEF RetriesLeft, Measured
  <2>5. CASE proc.pc \in Loop /\ proc'.pc \in Loop /\ proc'.micro = proc.micro
    BY <2>1, <2>2, <2>5, PipelineAssumption DEF RetriesLeft
  <2> QED
    BY <2>3, <2>4, <2>5 DEF Onward
<1> QED
  BY <1>1, <1>2 DEF Measured, Onward, Remaining, Nearer

(* Every step of a command brings it nearer to its end.                    *)
LEMMA RunOutStep ==
  ASSUME TypeOK, ControlInv, TypeOK', ControlInv', [Next]_vars, proc' # proc,
         proc.cmd # "none", proc'.cmd # "none"
  PROVE  Nearer(Remaining', Remaining)
<1>1. Measured /\ Measured'
  <2>1. (TypeOK /\ BudgetInv => Measured)'
    BY RemainingType, PTL
  <2> QED
    BY <2>1, RemainingType DEF ControlInv
<1>2. proc' # NoCommand /\ proc.pc # "idle"
  BY DEF NoCommand, Begin, ControlInv, PlaceInv
<1>3. ASSUME NEW v \in {"approved", "blocked", "invalid"}, ArchitectPlans(v)
      PROVE  Nearer(Remaining', Remaining)
  <2>1. /\ proc.pc = "architect"
        /\ proc'.pc = "gate"
        /\ log'.iterations = log.iterations
    BY <1>2, <1>3
       DEF ArchitectPlans, Goto, At, TypeOK, Process, outputs, history
  <2>2. Onward
    BY <2>1 DEF Onward, StagesLeft, Early, Loop
  <2> QED
    BY <1>1, <2>1, <2>2, OnwardIsNearer
<1>4. ASSUME ArchitectGate PROVE Nearer(Remaining', Remaining)
  <2>1. /\ proc.pc = "gate"
        /\ proc'.pc = "executor"
        /\ log'.iterations = log.iterations
    BY <1>2, <1>4
       DEF ArchitectGate, Goto, Abort, At, TypeOK, Process, outputs, history
  <2>2. Onward
    BY <2>1 DEF Onward, StagesLeft, Early, Loop
  <2> QED
    BY <1>1, <2>1, <2>2, OnwardIsNearer
<1>5. ASSUME StartExecutor PROVE Nearer(Remaining', Remaining)
  <2>1. /\ proc.pc = "executor"
        /\ proc'.pc = "executing"
        /\ log'.iterations = log.iterations
    BY <1>2, <1>5
       DEF StartExecutor, StartStage, Abort, At, TypeOK, Process, outputs, history, Started,
           RunLog
  <2>2. Onward
    BY <2>1 DEF Onward, StagesLeft, Early, Loop
  <2> QED
    BY <1>1, <2>1, <2>2, OnwardIsNearer
<1>6. ASSUME AgentThrows PROVE Nearer(Remaining', Remaining)
  <2>1. /\ proc.pc \in {"executing", "reviewing", "correcting", "knowledge", "hooks"}
        /\ proc'.pc = "restore"
        /\ log'.iterations = log.iterations
    BY <1>2, <1>6
       DEF AgentThrows, Throw, Goto, Abort, InFlow, At, TypeOK, Process, outputs, history
  <2>2. Onward
    BY <2>1 DEF Onward, StagesLeft, Early, Loop
  <2> QED
    BY <1>1, <2>1, <2>2, OnwardIsNearer
<1>7. ASSUME NEW r \in BOOLEAN, ExecutorBlocks(r) PROVE Nearer(Remaining', Remaining)
  <2>1. /\ proc.pc = "executing"
        /\ proc'.pc = "clearing"
        /\ log'.iterations = log.iterations
        /\ proc'.micro = proc.micro
    BY <1>2, <1>7
       DEF ExecutorBlocks, At, TypeOK, Process, outputs, history
  <2>2. Onward
    BY <2>1 DEF Onward, StagesLeft, Early, Loop
  <2> QED
    BY <1>1, <2>1, <2>2, OnwardIsNearer
<1>8. ASSUME ExecutorClears PROVE Nearer(Remaining', Remaining)
  <2>1. /\ proc.pc = "clearing"
        /\ proc'.pc = "recover"
        /\ log'.iterations = log.iterations
        /\ proc'.micro = proc.micro
    BY <1>2, <1>8
       DEF ExecutorClears, Goto, At, TypeOK, Process, outputs, history
  <2>2. Onward
    BY <2>1 DEF Onward, StagesLeft, Early, Loop
  <2> QED
    BY <1>1, <2>1, <2>2, OnwardIsNearer
<1>9. ASSUME NEW S \in SUBSET Files, ExecutorProposes(S) PROVE Nearer(Remaining', Remaining)
  <2>1. /\ proc.pc = "executing"
        /\ proc'.pc \in {"succeeded", "committing"}
        /\ log'.iterations = log.iterations
        /\ proc'.micro = proc.micro
    BY <1>2, <1>9
       DEF ExecutorProposes, At, TypeOK, Process, outputs, history
  <2>2. Onward
    BY <2>1 DEF Onward, StagesLeft, Early, Loop
  <2> QED
    BY <1>1, <2>1, <2>2, OnwardIsNearer
<1>10. ASSUME CommitEnds PROVE Nearer(Remaining', Remaining)
  <2>1. /\ proc.pc = "committing"
        /\ proc'.pc \in {"marking", "succeeded"}
        /\ log'.iterations = log.iterations
        /\ proc'.micro = proc.micro
    BY <1>2, <1>10
       DEF CommitEnds, Goto, At, TypeOK, Process, outputs, history
  <2>2. Onward
    BY <2>1 DEF Onward, StagesLeft, Early, Loop
  <2> QED
    BY <1>1, <2>1, <2>2, OnwardIsNearer
<1>11. ASSUME ExecutorSucceeds PROVE Nearer(Remaining', Remaining)
  <2>1. /\ proc.pc = "succeeded"
        /\ proc'.pc = "listing"
        /\ log'.iterations = log.iterations
        /\ proc'.micro = proc.micro
    BY <1>2, <1>11
       DEF ExecutorSucceeds, Goto, At, TypeOK, Process, outputs, history
  <2>2. Onward
    BY <2>1 DEF Onward, StagesLeft, Early, Loop
  <2> QED
    BY <1>1, <2>1, <2>2, OnwardIsNearer
<1>12. ASSUME ExecutorLists PROVE Nearer(Remaining', Remaining)
  <2>1. /\ proc.pc = "listing"
        /\ proc'.pc \in {"hooks", "restore"}
        /\ log'.iterations = log.iterations
    BY <1>2, <1>12
       DEF ExecutorLists, InFlow, At, TypeOK, Process, outputs, history
  <2>2. Onward
    BY <2>1 DEF Onward, StagesLeft, Early, Loop
  <2> QED
    BY <1>1, <2>1, <2>2, OnwardIsNearer
<1>13. ASSUME WriteManifest PROVE Nearer(Remaining', Remaining)
  <2>1. /\ proc.pc = "hooks"
        /\ proc'.pc = "recording"
        /\ log'.iterations = log.iterations
    BY <1>2, <1>13
       DEF WriteManifest, Goto, At, TypeOK, Process, outputs, history
  <2>2. Onward
    BY <2>1 DEF Onward, StagesLeft, Early, Loop
  <2> QED
    BY <1>1, <2>1, <2>2, OnwardIsNearer
<1>14. ASSUME RecordPending PROVE Nearer(Remaining', Remaining)
  <2>1. /\ proc.pc = "recording"
        /\ proc'.pc = "review"
        /\ log'.iterations = log.iterations
    BY <1>2, <1>14
       DEF RecordPending, Goto, At, TypeOK, Process, outputs, history
  <2>2. Onward
    BY <2>1 DEF Onward, StagesLeft, Early, Loop
  <2> QED
    BY <1>1, <2>1, <2>2, OnwardIsNearer
<1>15. ASSUME StartReview PROVE Nearer(Remaining', Remaining)
  <2>1. /\ proc.pc = "review"
        /\ proc'.pc = "reviewing"
        /\ log'.iterations = log.iterations
    BY <1>2, <1>15
       DEF StartReview, StartStage, Abort, At, TypeOK, Process, outputs, history, Started, RunLog
  <2>2. Onward
    BY <2>1 DEF Onward, StagesLeft, Early, Loop
  <2> QED
    BY <1>1, <2>1, <2>2, OnwardIsNearer
<1>16. ASSUME NEW s \in {"approved", "rejected", "blocked"}, ReviewAnswers(s)
       PROVE  Nearer(Remaining', Remaining)
  <2>1. /\ proc.pc = "reviewing"
        /\ proc'.pc \in {"judge", "restore"}
        /\ log'.iterations = log.iterations
    BY <1>2, <1>16
       DEF ReviewAnswers, Goto, InFlow, At, TypeOK, Process, outputs, history
  <2>2. Onward
    BY <2>1 DEF Onward, StagesLeft, Early, Loop
  <2> QED
    BY <1>1, <2>1, <2>2, OnwardIsNearer
<1>17. ASSUME CorrectionAnswers PROVE Nearer(Remaining', Remaining)
  <2>1. /\ proc.pc = "correcting"
        /\ proc'.pc \in {"executor", "restore"}
        /\ log'.iterations = log.iterations
    BY <1>2, <1>17
       DEF CorrectionAnswers, Goto, InFlow, At, TypeOK, Process, outputs, history
  <2>2. Onward
    BY <2>1 DEF Onward, StagesLeft, Early, Loop
  <2> QED
    BY <1>1, <2>1, <2>2, OnwardIsNearer
<1>18. ASSUME KnowledgeAnswers PROVE Nearer(Remaining', Remaining)
  <2>1. /\ proc.pc = "knowledge"
        /\ proc'.pc = "finish"
        /\ log'.iterations = log.iterations
    BY <1>2, <1>18
       DEF KnowledgeAnswers, Goto, At, TypeOK, Process, outputs, history
  <2>2. Onward
    BY <2>1 DEF Onward, StagesLeft, Early, Loop
  <2> QED
    BY <1>1, <2>1, <2>2, OnwardIsNearer
<1>19. ASSUME ApplyComputes PROVE Nearer(Remaining', Remaining)
  <2>1. /\ proc.pc = "applying"
        /\ proc'.pc = "committing"
        /\ log'.iterations = log.iterations
    BY <1>2, <1>19
       DEF ApplyComputes, At, TypeOK, Process, outputs, history
  <2>2. Onward
    BY <2>1 DEF Onward, StagesLeft, Early, Loop
  <2> QED
    BY <1>1, <2>1, <2>2, OnwardIsNearer
<1>20. ASSUME NEW f \in Files, CommitFile(f) PROVE Nearer(Remaining', Remaining)
  <2>1. /\ proc.pc = "committing" /\ proc'.pc = "committing"
        /\ log' = log
        /\ proc'.micro = proc.micro
        /\ proc'.answer = proc.answer
        /\ proc'.written = proc.written \union {f}
        /\ f \in proc.answer.files \ proc.written
    BY <1>20 DEF CommitFile, At, TypeOK, Process, outputs, history
  <2>2. CorrectionsLeft' = CorrectionsLeft /\ RetriesLeft' = RetriesLeft
    BY <2>1 DEF CorrectionsLeft, RetriesLeft, Early, Loop
  <2>3. FilesLeft' \subseteq FilesLeft /\ FilesLeft' # FilesLeft
    BY <2>1 DEF FilesLeft
  <2> QED
    BY <1>1, <2>1, <2>2, <2>3 DEF Measured, Remaining, Nearer
<1>21. ASSUME Recover PROVE Nearer(Remaining', Remaining)
  <2>1. CASE Abort(TRUE)
    BY <1>2, <2>1 DEF Abort
  <2>2. CASE Goto("restore") /\ UNCHANGED log
    <3>1. proc.pc = "recover" /\ proc'.pc = "restore" /\ log'.iterations = log.iterations
      BY <1>21, <2>2 DEF Recover, Goto, At, TypeOK, Process
    <3>2. Onward
      BY <3>1 DEF Onward, StagesLeft, Early, Loop
    <3> QED
      BY <1>1, <3>1, <3>2, OnwardIsNearer
  <2>3. CASE /\ UNCHANGED log
             /\ proc' = [proc EXCEPT !.pc = "executing", !.micro = @ + 1, !.retryable = FALSE]
    <3>1. /\ proc.pc = "recover" /\ proc'.pc = "executing"
          /\ proc'.micro = proc.micro + 1
          /\ proc.micro \in Nat
      BY <1>21, <2>3 DEF Recover, At, TypeOK, Process
    <3>2. CorrectionsLeft' = CorrectionsLeft
      BY <2>3 DEF CorrectionsLeft
    <3>3. RetriesLeft' < RetriesLeft
      BY <3>1, PipelineAssumption DEF RetriesLeft, Early, Loop
    <3> QED
      BY <1>1, <3>2, <3>3 DEF Measured, Remaining, Nearer
  <2> QED
    BY <1>21, <2>1, <2>2, <2>3 DEF Recover
<1>22. ASSUME Judge PROVE Nearer(Remaining', Remaining)
  <2>1. CASE log' = Started(log) /\ Goto("knowledge")
    <3>1. proc.pc = "judge" /\ proc'.pc = "knowledge" /\ log'.iterations = log.iterations
      BY <1>22, <2>1 DEF Judge, Goto, At, Started, TypeOK, Process, RunLog
    <3>2. Onward
      BY <3>1 DEF Onward, StagesLeft, Early, Loop
    <3> QED
      BY <1>1, <3>1, <3>2, OnwardIsNearer
  <2>2. CASE /\ log.iterations < MaxCorrections
             /\ log' = Started([log EXCEPT !.iterations = @ + 1])
    <3>1. log.iterations \in Nat /\ log'.iterations = log.iterations + 1
      BY <2>2 DEF Started, TypeOK, RunLog
    <3>2. CorrectionsLeft' < CorrectionsLeft
      BY <2>2, <3>1, PipelineAssumption DEF CorrectionsLeft
    <3> QED
      BY <1>1, <3>2 DEF Measured, Remaining, Nearer
  <2> QED
    BY <1>2, <1>22, <2>1, <2>2 DEF Judge, End
<1>23. ASSUME CommitFails PROVE Nearer(Remaining', Remaining)
  <2>1. /\ proc.pc = "committing"
        /\ proc'.pc = "clearing"
        /\ log'.iterations = log.iterations
        /\ proc'.micro = proc.micro
    BY <1>2, <1>23 DEF CommitFails, At, TypeOK, Process
  <2>2. Onward
    BY <2>1 DEF Onward, StagesLeft, Early, Loop
  <2> QED
    BY <1>1, <2>1, <2>2, OnwardIsNearer
<1>24. ~(ArchitectThrows \/ Finish \/ MarkApplied \/ RestoreMetadata \/ Kill)
  BY <1>2 DEF ArchitectThrows, Abort, Finish, End, MarkApplied, RestoreMetadata, Kill
<1>25. ~(BeginResume \/ BeginApply \/ \E step \in Phase : BeginReplay(step))
  BY <1>2 DEF BeginResume, BeginApply, BeginReplay, Returns, At
<1>26. ~(UNCHANGED vars \/ Assess \/ ResumeIsLockedOut \/ \E f \in Files : ExternalEdit(f))
  BY DEF vars, Assess, ResumeIsLockedOut, ExternalEdit
<1> QED
  BY <1>3, <1>4, <1>5, <1>6, <1>7, <1>8, <1>9, <1>10, <1>11, <1>12, <1>13, <1>14, <1>15, <1>16,
     <1>17, <1>18, <1>19, <1>20, <1>21, <1>22, <1>23, <1>24, <1>25, <1>26
     DEF Next, Work

(* No command goes on for ever: the micro-retries are inside the           *)
(* corrections, the corrections inside the command, and each has a budget. *)
THEOREM EveryCommandRunsOut == Spec => CommandsRunOut
<1>1. /\ TypeOK /\ ControlInv
      /\ TypeOK' /\ ControlInv'
      /\ [Next]_vars
      => [proc.cmd # "none" /\ proc'.cmd # "none" => Nearer(Remaining', Remaining)]_proc
  BY RunOutStep
<1> QED
  BY <1>1, ControlHolds, PTL DEF Spec, CommandsRunOut

-----------------------------------------------------------------------------
(***************************************************************************)
(* The patches of a run of the pipeline: no file gets one twice, and a     *)
(* refused one is undone.  The invariant is PatchInv of RunPipelineInv.    *)
(***************************************************************************)

(* Most steps leave the patches alone: they only go from stage to stage.   *)
Noisy == {"committing", "succeeded", "listing", "clearing", "recover", "hooks", "applying"}

QuietStep ==
  /\ UNCHANGED <<disk, changes, manifest, patches>>
  /\ \/ UNCHANGED proc
     \/ /\ proc'.pc \notin Noisy
        /\ proc'.answer \in {proc.answer, NoChanges}
        /\ \/ proc'.overlay = NoOverlay
           \/ proc'.overlay = proc.overlay /\ proc'.dry = proc.dry

(* The others propose, write, list, record or compute patches.             *)
Handles ==
  \/ \E r \in BOOLEAN : ExecutorBlocks(r)
  \/ ExecutorClears
  \/ \E S \in SUBSET Files : ExecutorProposes(S)
  \/ \E f \in Files : CommitFile(f)
  \/ CommitFails \/ CommitEnds \/ ExecutorSucceeds \/ ExecutorLists \/ WriteManifest
  \/ BeginApply \/ ApplyComputes
  \/ \E f \in Files : ExternalEdit(f)

LEMMA QuietSteps ==
  ASSUME TypeOK, [Next]_vars, ~Handles
  PROVE  QuietStep
<1>1. CASE UNCHANGED vars
  BY <1>1 DEF QuietStep, vars, outputs, history
<1>2. ASSUME ArchitectThrows PROVE QuietStep
  BY <1>2
     DEF ArchitectThrows, Abort, QuietStep, Noisy, NoCommand, Begin, TypeOK, Process, outputs,
         history
<1>3. ASSUME NEW v \in {"approved", "blocked", "invalid"}, ArchitectPlans(v) PROVE QuietStep
  BY <1>3
     DEF ArchitectPlans, Goto, QuietStep, Noisy, NoCommand, Begin, TypeOK, Process, outputs,
         history
<1>4. ASSUME ArchitectGate PROVE QuietStep
  BY <1>4
     DEF ArchitectGate, Goto, Abort, QuietStep, Noisy, NoCommand, Begin, TypeOK, Process, outputs,
         history
<1>5. ASSUME StartExecutor PROVE QuietStep
  <2>1. CASE Abort(FALSE)
    BY <1>5, <2>1 DEF StartExecutor, StartStage, Abort, QuietStep, Noisy, NoCommand, Begin,
                      outputs, history
  <2>2. CASE proc' = [proc EXCEPT !.pc = "executing", !.micro = 1]
    BY <1>5, <2>2 DEF StartExecutor, StartStage, QuietStep, Noisy, TypeOK, Process, outputs,
                      history
  <2> QED
    BY <1>5, <2>1, <2>2 DEF StartExecutor, StartStage
<1>6. ASSUME AgentThrows PROVE QuietStep
  BY <1>6
     DEF AgentThrows, Throw, Goto, Abort, InFlow, QuietStep, Noisy, NoCommand, Begin, TypeOK,
         Process, outputs, history
<1>7. ASSUME Recover PROVE QuietStep
  <2>1. CASE Abort(TRUE)
    BY <1>7, <2>1 DEF Recover, Abort, QuietStep, Noisy, NoCommand, Begin, outputs, history
  <2>2. CASE Goto("restore")
    BY <1>7, <2>2 DEF Recover, Goto, QuietStep, Noisy, TypeOK, Process, outputs, history
  <2>3. CASE proc' = [proc EXCEPT !.pc = "executing", !.micro = @ + 1, !.retryable = FALSE]
    BY <1>7, <2>3 DEF Recover, QuietStep, Noisy, TypeOK, Process, outputs, history
  <2> QED
    BY <1>7, <2>1, <2>2, <2>3 DEF Recover
<1>8. ASSUME RecordPending PROVE QuietStep
  BY <1>8
     DEF RecordPending, Goto, QuietStep, Noisy, NoCommand, Begin, TypeOK, Process, outputs,
         history
<1>9. ASSUME StartReview PROVE QuietStep
  <2>1. CASE Abort(FALSE)
    BY <1>9, <2>1 DEF StartReview, StartStage, Abort, QuietStep, Noisy, NoCommand, Begin, outputs,
                     history
  <2>2. CASE proc' = [proc EXCEPT !.pc = "reviewing", !.micro = 1]
    BY <1>9, <2>2 DEF StartReview, StartStage, QuietStep, Noisy, TypeOK, Process, outputs, history
  <2> QED
    BY <1>9, <2>1, <2>2 DEF StartReview, StartStage
<1>10. ASSUME NEW s \in {"approved", "rejected", "blocked"}, ReviewAnswers(s) PROVE QuietStep
  BY <1>10
     DEF ReviewAnswers, Goto, InFlow, QuietStep, Noisy, NoCommand, Begin, TypeOK, Process,
         outputs, history
<1>11. ASSUME Judge PROVE QuietStep
  BY <1>11
     DEF Judge, End, Goto, SetLife, QuietStep, Noisy, NoCommand, Begin, TypeOK, Process, outputs,
         history
<1>12. ASSUME CorrectionAnswers PROVE QuietStep
  BY <1>12
     DEF CorrectionAnswers, Goto, InFlow, QuietStep, Noisy, NoCommand, Begin, TypeOK, Process,
         outputs, history
<1>13. ASSUME KnowledgeAnswers PROVE QuietStep
  BY <1>13
     DEF KnowledgeAnswers, Goto, QuietStep, Noisy, NoCommand, Begin, TypeOK, Process, outputs,
         history
<1>14. ASSUME Finish PROVE QuietStep
  BY <1>14
     DEF Finish, End, QuietStep, Noisy, NoCommand, Begin, TypeOK, Process, outputs, history
<1>15. ASSUME Assess PROVE QuietStep
  BY <1>15
     DEF Assess, QuietStep, Noisy, NoCommand, Begin, TypeOK, Process, outputs, history
<1>16. ASSUME ResumeIsLockedOut PROVE QuietStep
  BY <1>16
     DEF ResumeIsLockedOut, QuietStep, Noisy, NoCommand, Begin, TypeOK, Process, outputs, history
<1>17. ASSUME BeginResume PROVE QuietStep
  BY <1>17
     DEF BeginResume, Begin, Returns, ReturnsDry, Phase, QuietStep, Noisy, NoCommand, TypeOK,
         Process, outputs, history
<1>18. ASSUME MarkApplied PROVE QuietStep
  BY <1>18
     DEF MarkApplied, QuietStep, Noisy, NoCommand, Begin, TypeOK, Process, outputs, history
<1>19. ASSUME NEW step \in Phase, BeginReplay(step) PROVE QuietStep
  BY <1>19
     DEF BeginReplay, Begin, Returns, ReturnsDry, SetLife, ReplayStage, Phase, QuietStep, Noisy,
         NoCommand, TypeOK, Process, outputs, history
<1>20. ASSUME RestoreMetadata PROVE QuietStep
  BY <1>20
     DEF RestoreMetadata, QuietStep, Noisy, NoCommand, Begin, TypeOK, Process, outputs, history
<1>21. ASSUME Kill PROVE QuietStep
  BY <1>21
     DEF Kill, QuietStep, Noisy, NoCommand, Begin, TypeOK, Process, outputs, history
<1> QED
  BY <1>1, <1>2, <1>3, <1>4, <1>5, <1>6, <1>7, <1>8, <1>9, <1>10, <1>11, <1>12, <1>13, <1>14,
     <1>15, <1>16, <1>17, <1>18, <1>19, <1>20, <1>21
     DEF Next, Work, Handles

(* They keep what is known of the patches.                                *)
LEMMA QuietKeeps ==
  ASSUME TypeOK, PatchInv, QuietStep
  PROVE  PatchInv'
<1>1. CASE UNCHANGED <<disk, changes, manifest, patches, proc>>
  BY <1>1 DEF PatchInv, OverlayInv, ListsInv, Numbered, NewAnswerInv, Answering, DiskInv,
              AtMostOnce, CommitInv, AbsentInv, Absent
<1>2. CASE proc'.pc \notin Noisy
  <2>1. OverlayInv'
    BY <1>2 DEF QuietStep, PatchInv, OverlayInv
  <2>2. ListsInv'
    BY <1>2 DEF QuietStep, PatchInv, ListsInv, Numbered, NoChanges, TypeOK
  <2>3. NewAnswerInv' /\ CommitInv'
    BY <1>2 DEF Noisy, NewAnswerInv, Answering, CommitInv
  <2>4. DiskInv'
    BY DEF QuietStep, PatchInv, DiskInv, AtMostOnce
  <2>5. AbsentInv'
    BY <1>2 DEF QuietStep, Noisy, PatchInv, AbsentInv
  <2> QED
    BY <2>1, <2>2, <2>3, <2>4, <2>5 DEF PatchInv
<1> QED
  BY <1>1, <1>2 DEF QuietStep

(* The steps that propose, write, list, record or compute patches.         *)
LEMMA HandlesKeeps ==
  ASSUME TypeOK, ControlInv, PatchInv, Handles
  PROVE  PatchInv'
<1> USE DEF ControlInv, PatchInv
<1>1. ASSUME NEW r \in BOOLEAN, ExecutorBlocks(r) PROVE PatchInv'
  <2>1. UNCHANGED <<disk, changes, manifest, patches>>
    BY <1>1 DEF ExecutorBlocks, history
  <2>2. /\ proc'.pc = "clearing"
        /\ proc'.answer = NoChanges
        /\ proc'.overlay = proc.overlay
        /\ proc'.dry = proc.dry
    BY <1>1 DEF ExecutorBlocks, TypeOK, Process
  <2>3. OverlayInv' /\ NewAnswerInv' /\ CommitInv'
    BY <2>2 DEF OverlayInv, NewAnswerInv, Answering, CommitInv
  <2>4. ListsInv'
    BY <2>1, <2>2 DEF ListsInv, Numbered, NoChanges, TypeOK
  <2>5. DiskInv' /\ AbsentInv'
    BY <2>1, <2>2 DEF DiskInv, AtMostOnce, AbsentInv
  <2> QED
    BY <2>3, <2>4, <2>5
<1>2. ASSUME ExecutorClears PROVE PatchInv'
  <2>1. UNCHANGED <<disk, manifest, patches>> /\ changes' = NoChanges
    BY <1>2 DEF ExecutorClears, history
  <2>2. /\ proc'.pc = "recover"
        /\ proc'.answer = proc.answer
        /\ proc'.overlay = proc.overlay
        /\ proc'.dry = proc.dry
    BY <1>2 DEF ExecutorClears, Goto, TypeOK, Process
  <2>3. OverlayInv' /\ NewAnswerInv' /\ CommitInv'
    BY <2>2 DEF OverlayInv, NewAnswerInv, Answering, CommitInv
  <2>4. ListsInv'
    BY <2>1, <2>2 DEF ListsInv, Numbered, NoChanges, TypeOK
  <2>5. DiskInv' /\ AbsentInv'
    BY <2>1, <2>2 DEF DiskInv, AtMostOnce, AbsentInv
  <2> QED
    BY <2>3, <2>4, <2>5
<1>3. ASSUME NEW S \in SUBSET Files, ExecutorProposes(S) PROVE PatchInv'
  <2> DEFINE id == IF S = {} THEN 0 ELSE patches + 1
             answer == IF S = {} THEN NoChanges ELSE [id |-> id, files |-> S, on |-> View]
  <2>1. UNCHANGED <<disk, changes, manifest>>
    BY <1>3 DEF ExecutorProposes, outputs
  <2>2. patches' = IF S = {} THEN patches ELSE patches + 1
    BY <1>3 DEF ExecutorProposes
  <2>3. /\ proc'.pc = IF proc.dry THEN "succeeded" ELSE "committing"
        /\ proc'.answer = answer
        /\ proc'.dry = proc.dry
        /\ proc'.cmd = proc.cmd
        /\ ~proc.dry => proc'.overlay = proc.overlay
    BY <1>3 DEF ExecutorProposes, TypeOK, Process
  <2>4. /\ answer.id = id
        /\ answer.files = S
        /\ S # {} => answer.on = View
    BY DEF NoChanges
  <2> HIDE DEF answer
  <2>5. id \in Nat /\ id <= patches' /\ (S # {} => id = patches + 1 /\ id \in Patches)
    BY <1>3, <2>2, PipelineAssumption DEF ExecutorProposes, TypeOK, Patches
  <2>6. OverlayInv'
    BY <2>3 DEF OverlayInv
  <2>7. ListsInv'
    BY <2>1, <2>2, <2>3, <2>4, <2>5
       DEF ListsInv, Numbered, TypeOK, ChangeList, Manifest
  <2>8. NewAnswerInv'
    BY <2>1, <2>3, <2>4, <2>5 DEF NewAnswerInv, ListsInv, TypeOK, Manifest
  <2>9. DiskInv'
    BY <2>1, <2>2 DEF DiskInv, AtMostOnce, Patches, TypeOK
  <2>10. \A f \in S : disk[f][id] = 0
    BY <2>5 DEF DiskInv, AtMostOnce, TypeOK
  <2>11. CommitInv'
    <3>1. ~proc.dry => \A f \in Files : View[f] = disk[f]
      BY DEF View, OverlayInv, NoOverlay
    <3>2. ~proc.dry => \A f \in S : proc'.answer.on[f] = disk'[f]
      BY <2>1, <2>3, <2>4, <3>1
    <3>3. ~proc.dry => \A f \in S : disk'[f][proc'.answer.id] = 0
      BY <2>1, <2>3, <2>4, <2>10
    <3>4. proc'.written = {}
      BY <1>3 DEF ExecutorProposes, TypeOK, Process
    <3> QED
      BY <2>3, <2>4, <2>9, <3>2, <3>3, <3>4 DEF CommitInv, DiskInv
  <2>12. AbsentInv'
    BY <2>1, <2>3, <2>4, <2>10 DEF AbsentInv, Absent
  <2> QED
    BY <2>6, <2>7, <2>8, <2>9, <2>11, <2>12
<1>4. ASSUME NEW f \in Files, CommitFile(f) PROVE PatchInv'
  <2>1. UNCHANGED <<changes, manifest, patches>>
    BY <1>4 DEF CommitFile, outputs, history
  <2>2. disk' = [disk EXCEPT ![f] = Patched(proc.answer.on[f], proc.answer.id)]
    BY <1>4 DEF CommitFile
  <2>3. /\ proc'.pc = "committing"
        /\ proc'.answer = proc.answer
        /\ proc'.dry = proc.dry
        /\ proc'.cmd = proc.cmd
        /\ proc'.overlay = proc.overlay
        /\ proc'.written = proc.written \union {f}
    BY <1>4 DEF CommitFile, At, TypeOK, Process
  <2>4. proc.pc = "committing" /\ f \in proc.answer.files
    BY <1>4 DEF CommitFile, At
  <2>5. OverlayInv' /\ ListsInv' /\ NewAnswerInv'
    BY <2>1, <2>3, <2>4 DEF OverlayInv, ListsInv, Numbered, NewAnswerInv, Answering
  <2>6. disk'[f] = Patched(proc.answer.on[f], proc.answer.id)
    BY <2>2 DEF TypeOK, Project
  <2>7. \A g \in Files : g # f => disk'[g] = disk[g]
    BY <2>2 DEF TypeOK, Project
  <2>8. proc.answer \in ChangeList
    BY DEF TypeOK, Process
  <2>9. AtMostOnce(disk'[f])
    <3>1. proc.answer.on[f] \in Content /\ proc.answer.id \in 0..MaxPatches
      BY <2>8 DEF ChangeList, Project
    <3>2. AtMostOnce(proc.answer.on[f]) /\ proc.answer.on[f][proc.answer.id] = 0
      BY <2>4 DEF CommitInv
    <3>3. proc.answer.id <= patches
      BY DEF ListsInv, Numbered
    <3> QED
      BY <2>6, <3>1, <3>2, <3>3 DEF AtMostOnce, Patched, Content, Patches, TypeOK
  <2>10. DiskInv'
    BY <2>1, <2>7, <2>9 DEF DiskInv, AtMostOnce
  <2>11. CommitInv'
    BY <2>1, <2>3, <2>4, <2>7, <2>8 DEF CommitInv, AtMostOnce, ChangeList
  <2>12. AbsentInv'
    BY <2>1, <2>3 DEF AbsentInv
  <2> QED
    BY <2>5, <2>10, <2>11, <2>12
<1>5. ASSUME CommitFails PROVE PatchInv'
  <2>1. UNCHANGED <<changes, manifest, patches>>
    BY <1>5 DEF CommitFails, history
  <2>2. PICK S \in Undone : disk' = RolledBack(S)
    BY <1>5 DEF CommitFails
  <2>3. /\ proc'.pc \in {"idle", "clearing"}
        /\ proc'.answer \in {proc.answer, NoChanges}
        /\ \/ proc'.overlay = NoOverlay
           \/ proc'.overlay = proc.overlay /\ proc'.dry = proc.dry
    <3>1. CASE proc' = NoCommand
      BY <3>1 DEF NoCommand, Begin
    <3>2. CASE proc' = [proc EXCEPT !.pc = "clearing", !.retryable = FALSE]
      BY <3>2 DEF TypeOK, Process
    <3> QED
      BY <1>5, <3>1, <3>2 DEF CommitFails
  <2>4. OverlayInv' /\ NewAnswerInv' /\ CommitInv'
    BY <2>3 DEF OverlayInv, NewAnswerInv, Answering, CommitInv
  <2>5. ListsInv'
    BY <2>1, <2>3 DEF ListsInv, Numbered, NoChanges, TypeOK
  <2>6. DiskInv'
    <3>1. proc.pc = "committing"
      BY <1>5 DEF CommitFails, At
    <3>2. \A f \in Files : f \in proc.answer.files => AtMostOnce(proc.answer.on[f])
      BY <3>1 DEF CommitInv
    <3>3. S \subseteq proc.answer.files
      BY <3>1 DEF Undone, CommitInv
    <3> QED
      BY <2>1, <2>2, <3>2, <3>3 DEF DiskInv, AtMostOnce, RolledBack
  <2>7. AbsentInv'
    BY <2>1, <2>3 DEF AbsentInv
  <2> QED
    BY <2>4, <2>5, <2>6, <2>7
<1>6. ASSUME CommitEnds PROVE PatchInv'
  <2>1. UNCHANGED <<disk, changes, manifest, patches>>
    BY <1>6 DEF CommitEnds, outputs, history
  <2>2. /\ \/ proc'.pc = "marking"
           \/ proc'.pc = "succeeded" /\ proc.cmd # "apply"
        /\ proc'.answer = proc.answer
        /\ proc'.dry = proc.dry
        /\ proc'.cmd = proc.cmd
        /\ proc'.overlay = proc.overlay
    BY <1>6 DEF CommitEnds, Goto, TypeOK, Process
  <2>3. OverlayInv' /\ ListsInv' /\ CommitInv' /\ DiskInv'
    BY <2>1, <2>2 DEF OverlayInv, ListsInv, Numbered, CommitInv, DiskInv, AtMostOnce
  <2>4. proc.pc = "committing"
    BY <1>6 DEF CommitEnds, At
  <2>5. NewAnswerInv'
    BY <2>1, <2>2, <2>4 DEF NewAnswerInv, Answering
  <2>6. AbsentInv'
    BY <2>1, <2>2, <2>4 DEF DryInv, AbsentInv
  <2> QED
    BY <2>3, <2>5, <2>6
<1>7. ASSUME ExecutorSucceeds PROVE PatchInv'
  <2>1. UNCHANGED <<disk, changes, manifest, patches>>
    BY <1>7 DEF ExecutorSucceeds, history
  <2>2. /\ proc'.pc = "listing"
        /\ proc'.answer = proc.answer
        /\ proc'.dry = proc.dry
        /\ proc'.overlay = proc.overlay
        /\ proc.pc = "succeeded"
    BY <1>7 DEF ExecutorSucceeds, At, Goto, TypeOK, Process
  <2>3. OverlayInv' /\ ListsInv' /\ NewAnswerInv' /\ CommitInv'
    BY <2>1, <2>2
       DEF OverlayInv, ListsInv, Numbered, NewAnswerInv, Answering, CommitInv
  <2>4. DiskInv' /\ AbsentInv'
    BY <2>1, <2>2 DEF DiskInv, AtMostOnce, AbsentInv, Absent
  <2> QED
    BY <2>3, <2>4
<1>8. ASSUME ExecutorLists PROVE PatchInv'
  <2>1. UNCHANGED <<disk, manifest, patches>> /\ changes' = proc.answer
    BY <1>8 DEF ExecutorLists, history
  <2>2. /\ proc'.pc \in {"hooks", "restore"}
        /\ proc'.answer = NoChanges
        /\ proc'.dry = proc.dry
        /\ proc'.overlay = proc.overlay
        /\ proc.pc = "listing"
    BY <1>8 DEF ExecutorLists, At, TypeOK, Process
  <2>3. OverlayInv' /\ NewAnswerInv' /\ CommitInv'
    BY <2>1, <2>2 DEF OverlayInv, NewAnswerInv, Answering, CommitInv
  <2>4. ListsInv'
    BY <2>1, <2>2 DEF ListsInv, Numbered, NewAnswerInv, Answering, NoChanges, TypeOK
  <2>5. DiskInv' /\ AbsentInv'
    BY <2>1, <2>2 DEF DiskInv, AtMostOnce, AbsentInv, Absent
  <2> QED
    BY <2>3, <2>4, <2>5
<1>9. ASSUME WriteManifest PROVE PatchInv'
  <2>1. UNCHANGED <<disk, changes, patches>>
    BY <1>9 DEF WriteManifest, history
  <2>2. /\ proc'.pc = "recording"
        /\ proc'.answer = proc.answer
        /\ proc'.dry = proc.dry
        /\ proc'.overlay = proc.overlay
        /\ proc.pc = "hooks"
    BY <1>9 DEF WriteManifest, At, Goto, TypeOK, Process
  <2>3. \/ /\ proc.dry /\ changes.files # {}
           /\ manifest' = [of |-> changes.id, files |-> changes.files, base |-> disk]
        \/ UNCHANGED manifest
    BY <1>9 DEF WriteManifest, PendingPatch
  <2>4. OverlayInv' /\ NewAnswerInv' /\ CommitInv'
    BY <2>2 DEF OverlayInv, NewAnswerInv, Answering, CommitInv
  <2>5. ListsInv'
    BY <2>1, <2>2, <2>3 DEF ListsInv, Numbered
  <2>6. DiskInv'
    BY <2>1 DEF DiskInv, AtMostOnce
  <2>7. AbsentInv'
    BY <2>1, <2>2, <2>3 DEF AbsentInv, Absent
  <2> QED
    BY <2>4, <2>5, <2>6, <2>7
<1>10. ASSUME BeginApply PROVE PatchInv'
  <2>1. UNCHANGED <<disk, changes, manifest, patches>>
    BY <1>10 DEF BeginApply, outputs
  <2>2. /\ proc'.pc = "applying"
        /\ proc'.answer = NoChanges
        /\ proc'.overlay = NoOverlay
    BY <1>10 DEF BeginApply, Begin
  <2>3. OverlayInv' /\ NewAnswerInv' /\ CommitInv'
    BY <2>2 DEF OverlayInv, NewAnswerInv, Answering, CommitInv
  <2>4. ListsInv'
    BY <2>1, <2>2 DEF ListsInv, Numbered, NoChanges, TypeOK
  <2>5. Absent(changes)
    BY <1>10 DEF BeginApply, MayApply, ManifestMatches, Drifted, ListsInv, AbsentInv, Absent
  <2>6. DiskInv' /\ AbsentInv'
    BY <2>1, <2>2, <2>5 DEF DiskInv, AtMostOnce, AbsentInv, Absent
  <2> QED
    BY <2>3, <2>4, <2>6
<1>11. ASSUME ApplyComputes PROVE PatchInv'
  <2>1. UNCHANGED <<disk, changes, manifest, patches>>
    BY <1>11 DEF ApplyComputes, outputs, history
  <2>2. CASE proc' = NoCommand
    <3>1. QuietStep
      BY <2>1, <2>2 DEF QuietStep, NoCommand, Begin, Noisy
    <3> QED
      BY <3>1, QuietKeeps
  <2>3. CASE proc' = [proc EXCEPT !.pc = "committing", !.written = {},
                                  !.answer = [changes EXCEPT !.on = disk]]
    <3>1. /\ proc'.pc = "committing"
          /\ proc'.answer = [changes EXCEPT !.on = disk]
          /\ proc'.dry = proc.dry
          /\ proc'.cmd = proc.cmd
          /\ proc'.overlay = proc.overlay
      BY <2>3 DEF TypeOK, Process
    <3>2. /\ proc'.answer.id = changes.id
          /\ proc'.answer.files = changes.files
          /\ proc'.answer.on = disk
          /\ proc'.written = {}
      BY <2>3, <3>1 DEF TypeOK, ChangeList, Process
    <3>3. proc.pc = "applying" /\ proc.cmd = "apply"
      BY <1>11 DEF ApplyComputes, At, PlaceInv
    <3>4. OverlayInv' /\ NewAnswerInv'
      BY <3>1, <3>3 DEF OverlayInv, NewAnswerInv, Answering
    <3>5. ListsInv'
      BY <2>1, <3>2 DEF ListsInv, Numbered
    <3>6. DiskInv'
      BY <2>1 DEF DiskInv, AtMostOnce
    <3>7. CommitInv'
      BY <2>1, <3>2, <3>3 DEF CommitInv, DiskInv, AtMostOnce, AbsentInv, Absent, TypeOK,
                              ChangeList
    <3>8. AbsentInv'
      BY <2>1, <3>1 DEF AbsentInv
    <3> QED
      BY <3>4, <3>5, <3>6, <3>7, <3>8
  <2> QED
    BY <1>11, <2>2, <2>3 DEF ApplyComputes
<1>12. ASSUME NEW f \in Files, ExternalEdit(f) PROVE PatchInv'
  <2>1. UNCHANGED <<changes, manifest, patches, proc>> /\ proc.pc = "idle"
    BY <1>12 DEF ExternalEdit, outputs, history, At
  <2>2. \A g \in Files, p \in Patches : disk'[g][p] = disk[g][p]
    BY <1>12 DEF ExternalEdit, Patched, Edit, Patches, TypeOK, Project, Content
  <2>3. OverlayInv' /\ ListsInv' /\ NewAnswerInv' /\ CommitInv' /\ AbsentInv'
    BY <2>1 DEF OverlayInv, ListsInv, Numbered, NewAnswerInv, Answering, CommitInv, AbsentInv
  <2>4. DiskInv'
    BY <2>1, <2>2 DEF DiskInv, AtMostOnce
  <2> QED
    BY <2>3, <2>4
<1> QED
  BY <1>1, <1>2, <1>3, <1>4, <1>5, <1>6, <1>7, <1>8, <1>9, <1>10, <1>11, <1>12 DEF Handles

(* A refused answer is undone, unless the undoing itself fails.            *)
LEMMA RefusedStep ==
  ASSUME "rollback" \notin Faults, TypeOK, ControlInv, PatchInv, RefusedPatchIsUndone,
         [Next]_vars
  PROVE  RefusedPatchIsUndone'
<1>1. CASE ~Handles
  <2>1. QuietStep
    BY <1>1, QuietSteps
  <2> QED
    BY <2>1 DEF QuietStep, Noisy, RefusedPatchIsUndone
<1>2. ASSUME NEW r \in BOOLEAN, ExecutorBlocks(r) PROVE RefusedPatchIsUndone'
  <2>1. proc'.answer = NoChanges
    BY <1>2 DEF ExecutorBlocks, TypeOK, Process
  <2> QED
    BY <2>1 DEF RefusedPatchIsUndone, NoChanges
<1>3. ASSUME ExecutorClears PROVE RefusedPatchIsUndone'
  <2>1. proc.pc = "clearing" /\ proc'.answer = proc.answer /\ UNCHANGED disk
    BY <1>3 DEF ExecutorClears, At, Goto, TypeOK, Process
  <2> QED
    BY <2>1 DEF RefusedPatchIsUndone
<1>4. ASSUME CommitFails PROVE RefusedPatchIsUndone'
  <2>1. proc.pc = "committing" /\ disk' = RolledBack(proc.written)
    BY <1>4 DEF CommitFails, At, Undone
  <2>2. proc'.pc = "idle" \/ proc'.answer = proc.answer
    <3>1. CASE proc' = NoCommand
      BY <3>1 DEF NoCommand, Begin
    <3>2. CASE proc' = [proc EXCEPT !.pc = "clearing", !.retryable = FALSE]
      BY <3>2 DEF TypeOK, Process
    <3> QED
      BY <1>4, <3>1, <3>2 DEF CommitFails
  <2>3. \A f \in proc.answer.files : disk'[f] = proc.answer.on[f]
    BY <2>1 DEF RolledBack, PatchInv, CommitInv, TypeOK, Process, ChangeList
  <2>4. \A f \in proc.answer.files : disk'[f][proc.answer.id] = 0
    BY <2>1, <2>3 DEF PatchInv, CommitInv
  <2> QED
    BY <2>2, <2>4 DEF RefusedPatchIsUndone
<1>5. ASSUME NEW S \in SUBSET Files, ExecutorProposes(S) PROVE RefusedPatchIsUndone'
  <2>1. proc'.pc \in {"succeeded", "committing"}
    BY <1>5 DEF ExecutorProposes, TypeOK, Process
  <2> QED
    BY <2>1 DEF RefusedPatchIsUndone
<1>6. ASSUME NEW f \in Files, CommitFile(f) PROVE RefusedPatchIsUndone'
  <2>1. proc'.pc = "committing"
    BY <1>6 DEF CommitFile, At, TypeOK, Process
  <2> QED
    BY <2>1 DEF RefusedPatchIsUndone
<1>7. ASSUME CommitEnds \/ ExecutorSucceeds \/ ExecutorLists \/ WriteManifest
      PROVE  RefusedPatchIsUndone'
  <2>1. proc'.pc \in {"marking", "succeeded", "listing", "hooks", "restore", "recording"}
    BY <1>7 DEF CommitEnds, ExecutorSucceeds, ExecutorLists, WriteManifest, Goto, TypeOK, Process
  <2> QED
    BY <2>1 DEF RefusedPatchIsUndone
<1>8. ASSUME BeginApply PROVE RefusedPatchIsUndone'
  BY <1>8 DEF BeginApply, Begin, RefusedPatchIsUndone
<1>9. ASSUME ApplyComputes PROVE RefusedPatchIsUndone'
  <2>1. proc'.pc \in {"idle", "committing"}
    <3>1. CASE proc' = NoCommand
      BY <3>1 DEF NoCommand, Begin
    <3>2. CASE proc' = [proc EXCEPT !.pc = "committing", !.written = {},
                                    !.answer = [changes EXCEPT !.on = disk]]
      BY <3>2 DEF TypeOK, Process
    <3> QED
      BY <1>9, <3>1, <3>2 DEF ApplyComputes
  <2> QED
    BY <2>1 DEF RefusedPatchIsUndone
<1>10. ASSUME NEW f \in Files, ExternalEdit(f) PROVE RefusedPatchIsUndone'
  <2>1. proc' = proc /\ proc.pc = "idle"
    BY <1>10 DEF ExternalEdit, At
  <2> QED
    BY <2>1 DEF RefusedPatchIsUndone
<1> QED
  BY <1>1, <1>2, <1>3, <1>4, <1>5, <1>6, <1>7, <1>8, <1>9, <1>10 DEF Handles

LEMMA PatchStep ==
  ASSUME TypeOK, ControlInv, PatchInv, [Next]_vars
  PROVE  PatchInv'
BY QuietSteps, QuietKeeps, HandlesKeeps

LEMMA PatchInit == Init => PatchInv
<1> SUFFICES ASSUME Init PROVE PatchInv
  OBVIOUS
<1>1. /\ proc.pc = "architect"
      /\ proc.answer = NoChanges
      /\ proc.overlay = NoOverlay
  BY DEF Init, Begin
<1>2. changes = NoChanges /\ manifest = None /\ patches = 0 /\ disk = Untouched
  BY DEF Init
<1>3. OverlayInv /\ NewAnswerInv /\ CommitInv /\ AbsentInv
  BY <1>1, <1>2 DEF OverlayInv, NewAnswerInv, Answering, CommitInv, AbsentInv
<1>4. ListsInv
  BY <1>1, <1>2 DEF ListsInv, Numbered, NoChanges
<1>5. DiskInv
  BY <1>2, PipelineAssumption DEF DiskInv, AtMostOnce, Untouched, Clean, Patches
<1> QED
  BY <1>3, <1>4, <1>5 DEF PatchInv

-----------------------------------------------------------------------------
(***************************************************************************)
(* What is applied and what is approved: ApplyInv, AppliedInv and OrderInv *)
(* of RunPipelineInv.                                                      *)
(***************************************************************************)

(* The stages of a flow whose executor has answered, and those of a review *)
(* that has.                                                               *)
Answered == {"listing", "hooks", "recording", "review", "reviewing", "judge"}
Judged == {"judge", "knowledge", "finish"}

(* Most steps leave answer and review as they are and nothing is applied;  *)
(* they end the command or go to its next stage.                           *)
RoutineStep ==
  /\ UNCHANGED <<result, changes, review, bypassed>>
  /\ log'.status \in {log.status, "running", "failed", "partial"}
  /\ meta'.life \in {meta.life} \union (Lifecycle \ {"APPLIED"})
  /\ \/ UNCHANGED proc
     \/ proc' = NoCommand
     \/ /\ proc'.cmd = proc.cmd /\ proc'.backup = proc.backup
        /\ proc.pc \notin Judged
        /\ proc'.pc \notin {"knowledge", "finish"}
        /\ proc'.pc \in Answered => proc.pc \in Answered

(* The others.                                                             *)
Decides ==
  \/ \E r \in BOOLEAN : ExecutorBlocks(r)
  \/ ExecutorClears \/ CommitFails \/ CommitEnds \/ ExecutorSucceeds \/ ExecutorLists
  \/ \E s \in {"approved", "rejected", "blocked"} : ReviewAnswers(s)
  \/ Judge \/ KnowledgeAnswers \/ Finish
  \/ BeginResume \/ BeginApply \/ \E step \in Phase : BeginReplay(step)
  \/ RestoreMetadata

LEMMA RoutineSteps ==
  ASSUME TypeOK, ControlInv, [Next]_vars, ~Decides
  PROVE  RoutineStep
<1> USE DEF RoutineStep
<1>1. CASE UNCHANGED vars
  BY <1>1 DEF vars, outputs, history
<1>2. ASSUME ArchitectThrows PROVE RoutineStep
  BY <1>2
     DEF ArchitectThrows, Abort, At, NoCommand, Begin, TypeOK, Process, Metadata, RunLog,
         Lifecycle, Answered, Judged, ControlInv, PlaceInv, InFlow, outputs, history
<1>3. ASSUME NEW v \in {"approved", "blocked", "invalid"}, ArchitectPlans(v) PROVE RoutineStep
  BY <1>3
     DEF ArchitectPlans, Goto, At, NoCommand, Begin, TypeOK, Process, Metadata, RunLog,
         Lifecycle, Answered, Judged, ControlInv, PlaceInv, InFlow, outputs, history
<1>4. ASSUME ArchitectGate PROVE RoutineStep
  BY ZenonT(40), <1>4
     DEF ArchitectGate, Goto, Abort, At, NoCommand, Begin, TypeOK, Process, Metadata, RunLog,
         Lifecycle, Answered, Judged, ControlInv, PlaceInv, InFlow, outputs, history
<1>5. ASSUME StartExecutor PROVE RoutineStep
  <2>1. UNCHANGED <<result, changes, review, bypassed>> /\ proc.pc = "executor"
    BY <1>5 DEF StartExecutor, StartStage, At, outputs, history
  <2>2. CASE Abort(FALSE) /\ UNCHANGED meta
    BY <2>1, <2>2 DEF Abort, TypeOK, Metadata, RunLog
  <2>3. CASE /\ SetLife("EXECUTING")
             /\ log' = Started(log)
             /\ proc' = [proc EXCEPT !.pc = "executing", !.micro = 1]
    BY <2>1, <2>3
       DEF SetLife, Started, Judged, Answered, Lifecycle, TypeOK, Metadata, RunLog, Process
  <2> QED
    BY <1>5, <2>2, <2>3 DEF StartExecutor, StartStage
<1>6. ASSUME AgentThrows PROVE RoutineStep
  BY ZenonT(40), <1>6
     DEF AgentThrows, Throw, Goto, Abort, At, NoCommand, Begin, TypeOK, Process, Metadata,
         RunLog, Lifecycle, Answered, Judged, ControlInv, PlaceInv, InFlow, outputs, history
<1>7. ASSUME NEW S \in SUBSET Files, ExecutorProposes(S) PROVE RoutineStep
  BY <1>7
     DEF ExecutorProposes, At, NoCommand, Begin, TypeOK, Process, Metadata, RunLog, Lifecycle,
         Answered, Judged, ControlInv, PlaceInv, InFlow, outputs, history
<1>8. ASSUME NEW f \in Files, CommitFile(f) PROVE RoutineStep
  BY <1>8
     DEF CommitFile, At, NoCommand, Begin, TypeOK, Process, Metadata, RunLog, Lifecycle,
         Answered, Judged, ControlInv, PlaceInv, InFlow, outputs, history
<1>9. ASSUME Recover PROVE RoutineStep
  <2>1. UNCHANGED <<result, changes, review, bypassed>> /\ proc.pc = "recover"
    BY <1>9 DEF Recover, At, outputs, history
  <2>2. CASE Goto("restore") /\ UNCHANGED <<meta, log>>
    BY <2>1, <2>2 DEF Goto, Judged, Answered, TypeOK, Process
  <2>3. CASE /\ SetLife("RECOVERING") /\ UNCHANGED log
             /\ proc' = [proc EXCEPT !.pc = "executing", !.micro = @ + 1, !.retryable = FALSE]
    BY <2>1, <2>3 DEF SetLife, Judged, Answered, Lifecycle, TypeOK, Metadata, Process
  <2>4. CASE /\ SetLife(IF proc.retryable THEN "RETRY_EXHAUSTED" ELSE "RECOVERY_FAILED")
             /\ Abort(TRUE)
    BY <2>1, <2>4 DEF SetLife, Abort, Lifecycle, TypeOK, Metadata, RunLog
  <2> QED
    BY <1>9, <2>2, <2>3, <2>4 DEF Recover
<1>10. ASSUME WriteManifest PROVE RoutineStep
  BY <1>10
     DEF WriteManifest, Goto, At, NoCommand, Begin, TypeOK, Process, Metadata, RunLog, Lifecycle,
         Answered, Judged, ControlInv, PlaceInv, InFlow, outputs, history
<1>11. ASSUME RecordPending PROVE RoutineStep
  BY <1>11
     DEF RecordPending, Goto, At, NoCommand, Begin, TypeOK, Process, Metadata, RunLog, Lifecycle,
         Answered, Judged, ControlInv, PlaceInv, InFlow, outputs, history
<1>12. ASSUME StartReview PROVE RoutineStep
  BY ZenonT(40), <1>12
     DEF StartReview, StartStage, SetLife, Started, Abort, At, NoCommand, Begin, TypeOK, Process,
         Metadata, RunLog, Lifecycle, Answered, Judged, ControlInv, PlaceInv, InFlow, outputs,
         history
<1>13. ASSUME CorrectionAnswers PROVE RoutineStep
  BY <1>13
     DEF CorrectionAnswers, Goto, At, NoCommand, Begin, TypeOK, Process, Metadata, RunLog,
         Lifecycle, Answered, Judged, ControlInv, PlaceInv, InFlow, outputs, history
<1>14. ASSUME Assess PROVE RoutineStep
  BY <1>14
     DEF Assess, At, NoCommand, Begin, TypeOK, Process, Metadata, RunLog, Lifecycle, Answered,
         Judged, ControlInv, PlaceInv, InFlow, outputs, history
<1>15. ASSUME ResumeIsLockedOut PROVE RoutineStep
  BY <1>15
     DEF ResumeIsLockedOut, At, NoCommand, Begin, TypeOK, Process, Metadata, RunLog, Lifecycle,
         Answered, Judged, ControlInv, PlaceInv, InFlow, outputs, history
<1>16. ASSUME ApplyComputes PROVE RoutineStep
  BY ZenonT(40), <1>16
     DEF ApplyComputes, SetLife, At, NoCommand, Begin, TypeOK, Process, Metadata, RunLog,
         Lifecycle, Answered, Judged, ControlInv, PlaceInv, InFlow, outputs, history
<1>17. ASSUME MarkApplied PROVE RoutineStep
  BY <1>17
     DEF MarkApplied, At, NoCommand, Begin, TypeOK, Process, Metadata, RunLog, Lifecycle,
         Answered, Judged, ControlInv, PlaceInv, InFlow, outputs, history
<1>18. ASSUME Kill PROVE RoutineStep
  BY <1>18
     DEF Kill, At, NoCommand, Begin, TypeOK, Process, Metadata, RunLog, Lifecycle, Answered,
         Judged, ControlInv, PlaceInv, InFlow, outputs, history
<1>19. ASSUME NEW f \in Files, ExternalEdit(f) PROVE RoutineStep
  BY <1>19
     DEF ExternalEdit, At, NoCommand, Begin, TypeOK, Process, Metadata, RunLog, Lifecycle,
         Answered, Judged, ControlInv, PlaceInv, InFlow, outputs, history
<1> QED
  BY <1>1, <1>2, <1>3, <1>4, <1>5, <1>6, <1>7, <1>8, <1>9, <1>10, <1>11, <1>12, <1>13, <1>14,
     <1>15, <1>16, <1>17, <1>18, <1>19
     DEF Next, Work, Decides

(* A flow that is at none of the stages after a review has no approval.    *)
LEMMA NotYetApproved ==
  ASSUME TypeOK, ControlInv, OrderInv, ~bypassed,
         proc.cmd # "apply", proc.pc \notin {"idle"} \union Judged
  PROVE  InFlow /\ review.status # "approved" /\ log.status # "success"
<1>1. proc.cmd \notin {"none", "replay"}
  BY DEF ControlInv, PlaceInv, OrderInv
<1>2. InFlow
  BY <1>1 DEF InFlow, TypeOK, Process
<1> QED
  BY <1>2 DEF OrderInv, Judged

LEMMA OrderStep ==
  ASSUME TypeOK, ControlInv, OrderInv, [Next]_vars
  PROVE  OrderInv'
<1> USE DEF ControlInv
<1>1. CASE ~Decides
  <2>1. RoutineStep
    BY <1>1, RoutineSteps
  <2>2. CASE UNCHANGED proc
    BY <2>1, <2>2 DEF RoutineStep, OrderInv, InFlow
  <2>3. CASE proc' = NoCommand
    BY <2>1, <2>3 DEF RoutineStep, OrderInv, InFlow, NoCommand, Begin
  <2>4. CASE /\ proc'.cmd = proc.cmd
             /\ proc.pc \notin Judged
             /\ proc'.pc \notin {"knowledge", "finish"}
             /\ proc'.pc \in Answered => proc.pc \in Answered
    BY <2>1, <2>4 DEF RoutineStep, OrderInv, InFlow, Judged, Answered
  <2> QED
    BY <2>1, <2>2, <2>3, <2>4 DEF RoutineStep
<1>2. ASSUME UNCHANGED <<review, log, bypassed>>,
             proc.cmd # "apply", proc.pc \notin {"idle"} \union Judged,
             proc'.cmd = proc.cmd,
             proc'.pc \notin {"knowledge", "finish"},
             proc'.pc \in Answered => result' = "success"
      PROVE  OrderInv'
  BY <1>2, NotYetApproved DEF OrderInv, InFlow, Answered
<1>3. ASSUME NEW r \in BOOLEAN, ExecutorBlocks(r) PROVE OrderInv'
  BY <1>2, <1>3
     DEF ExecutorBlocks, At, PlaceInv, Judged, Answered, TypeOK, Process, outputs, history
<1>4. ASSUME ExecutorClears PROVE OrderInv'
  BY <1>2, <1>4
     DEF ExecutorClears, At, Goto, PlaceInv, Judged, Answered, TypeOK, Process, outputs, history
<1>5. ASSUME CommitFails PROVE OrderInv'
  <2>1. CASE proc.cmd = "apply"
    BY <1>5, <2>1 DEF CommitFails, NoCommand, Begin, OrderInv, InFlow, history
  <2>2. CASE proc.cmd # "apply"
    BY <1>2, <1>5, <2>2 DEF CommitFails, At, Judged, Answered, TypeOK, Process, history
  <2> QED
    BY <2>1, <2>2
<1>6. ASSUME CommitEnds PROVE OrderInv'
  <2>1. CASE proc.cmd = "apply"
    BY <1>6, <2>1
       DEF CommitEnds, Goto, OrderInv, InFlow, TypeOK, Process, outputs, history
  <2>2. CASE proc.cmd # "apply"
    BY <1>2, <1>6, <2>2
       DEF CommitEnds, Goto, At, Judged, Answered, TypeOK, Process, outputs, history
  <2> QED
    BY <2>1, <2>2
<1>7. ASSUME ExecutorSucceeds PROVE OrderInv'
  BY <1>2, <1>7
     DEF ExecutorSucceeds, At, Goto, PlaceInv, Judged, Answered, TypeOK, Process, history
<1>8. ASSUME ExecutorLists PROVE OrderInv'
  <2>1. /\ proc.pc = "listing" /\ proc.cmd # "apply"
        /\ UNCHANGED <<result, review, log, bypassed>>
        /\ proc'.cmd = proc.cmd
        /\ proc'.pc \in {"hooks", "restore"}
    BY <1>8 DEF ExecutorLists, At, PlaceInv, TypeOK, Process, history
  <2>2. ~bypassed => result' = "success"
    BY <2>1 DEF OrderInv
  <2> QED
    BY <1>2, <2>1, <2>2 DEF Judged, OrderInv
<1>9. ASSUME NEW s \in {"approved", "rejected", "blocked"}, ReviewAnswers(s) PROVE OrderInv'
  <2>1. /\ proc.pc = "reviewing" /\ proc.cmd # "apply"
        /\ UNCHANGED <<result, changes, log, bypassed>>
        /\ review' = [status |-> s, of |-> changes.id]
        /\ proc'.cmd = proc.cmd
        /\ proc'.pc = IF InFlow THEN "judge" ELSE "restore"
    BY <1>9 DEF ReviewAnswers, At, Goto, PlaceInv, TypeOK, Process, history
  <2>2. ASSUME ~bypassed PROVE InFlow /\ log.status # "success" /\ result = "success"
    BY <2>1, <2>2, NotYetApproved DEF OrderInv, Judged
  <2> QED
    BY <2>1, <2>2 DEF OrderInv, InFlow
<1>10. ASSUME Judge PROVE OrderInv'
  <2>1. /\ proc.pc = "judge" /\ InFlow /\ UNCHANGED <<result, changes, review, bypassed>>
        /\ \/ proc' = NoCommand /\ log'.status = "partial"
           \/ /\ log'.status = "running" /\ proc'.cmd = proc.cmd
              /\ \/ proc'.pc = "knowledge" /\ review.status = "approved"
                 \/ proc'.pc = "correcting" /\ review.status = "rejected"
    BY <1>10
       DEF Judge, End, Goto, Started, SetLife, At, PlaceInv, TypeOK, Process, RunLog, outputs,
           history
  <2> QED
    BY <2>1 DEF OrderInv, InFlow, NoCommand, Begin
<1>11. ASSUME KnowledgeAnswers PROVE OrderInv'
  BY <1>11
     DEF KnowledgeAnswers, At, Goto, OrderInv, InFlow, TypeOK, Process, outputs, history
<1>12. ASSUME Finish PROVE OrderInv'
  BY <1>12
     DEF Finish, End, At, OrderInv, InFlow, NoCommand, Begin, outputs, history
<1>13. ASSUME BeginResume PROVE OrderInv'
  <2>1. /\ UNCHANGED <<result, changes, review>>
        /\ bypassed' = (bypassed \/ waiting # NextPhase)
        /\ log'.status \in {log.status, "running"}
        /\ proc'.cmd = "resume"
        /\ proc'.pc = IF waiting = "correction" THEN "correcting" ELSE waiting
        /\ waiting \in Phase
    BY <1>13 DEF BeginResume, Begin, Started, TypeOK, RunLog, outputs
  <2>2. ASSUME ~bypassed', review.status = "approved" PROVE FALSE
    BY <2>1, <2>2 DEF OrderInv, NextPhase, NotResumable, Phase
  <2>3. ~bypassed' /\ waiting = "review" => result = "success"
    BY <2>1 DEF NextPhase, NotResumable, AfterReview
  <2> QED
    BY <2>1, <2>2, <2>3 DEF OrderInv, InFlow, Phase
<1>14. ASSUME BeginApply PROVE OrderInv'
  BY <1>14 DEF BeginApply, MayApply, Begin, OrderInv, InFlow, outputs
<1>15. ASSUME NEW step \in Phase, BeginReplay(step) PROVE OrderInv'
  BY <1>15 DEF BeginReplay, OrderInv
<1>16. ASSUME RestoreMetadata PROVE OrderInv'
  BY <1>16 DEF RestoreMetadata, OrderInv, InFlow, NoCommand, Begin, outputs, history
<1> QED
  BY <1>1, <1>3, <1>4, <1>5, <1>6, <1>7, <1>8, <1>9, <1>10, <1>11, <1>12, <1>13, <1>14, <1>15,
     <1>16
     DEF Decides

(* What apply writes is the patch of the manifest, all of it.              *)
LEMMA ApplyStep ==
  ASSUME TypeOK, ControlInv, PatchInv, ApplyInv, [Next]_vars, ControlInv'
  PROVE  ApplyInv'
<1> USE DEF ControlInv
<1>1. CASE ~Handles
  <2>1. QuietStep
    BY <1>1, QuietSteps
  <2>2. CASE proc'.pc \notin Noisy
    BY <2>2 DEF ApplyInv, PlaceInv, Noisy
  <2>3. CASE UNCHANGED proc /\ ~Decides
    <3>1. RoutineStep
      BY <2>3, RoutineSteps
    <3> QED
      BY <2>1, <2>3, <3>1 DEF QuietStep, RoutineStep, ApplyInv, ManifestMatches
  <2>4. CASE UNCHANGED proc /\ Decides
    <3>1. proc.pc \in {"reviewing", "judge", "knowledge", "finish", "idle", "restore"}
      BY <1>1, <2>4
         DEF Decides, Handles, ReviewAnswers, Judge, KnowledgeAnswers, Finish, BeginResume,
             BeginApply, BeginReplay, Returns, RestoreMetadata, At
    <3> QED
      BY <2>4, <3>1 DEF ApplyInv, PlaceInv
  <2> QED
    BY <2>1, <2>2, <2>3, <2>4 DEF QuietStep
<1>2. ASSUME proc.pc \in {"executing", "clearing", "succeeded", "listing", "hooks"},
             proc'.cmd = proc.cmd
      PROVE  ApplyInv'
  BY <1>2 DEF ApplyInv, PlaceInv
<1>3. ASSUME NEW r \in BOOLEAN, ExecutorBlocks(r) PROVE ApplyInv'
  BY <1>2, <1>3 DEF ExecutorBlocks, At, TypeOK, Process
<1>4. ASSUME ExecutorClears PROVE ApplyInv'
  BY <1>2, <1>4 DEF ExecutorClears, At, Goto, TypeOK, Process
<1>5. ASSUME NEW S \in SUBSET Files, ExecutorProposes(S) PROVE ApplyInv'
  BY <1>2, <1>5 DEF ExecutorProposes, At, TypeOK, Process
<1>6. ASSUME ExecutorSucceeds PROVE ApplyInv'
  BY <1>2, <1>6 DEF ExecutorSucceeds, At, Goto, TypeOK, Process
<1>7. ASSUME ExecutorLists PROVE ApplyInv'
  BY <1>2, <1>7 DEF ExecutorLists, At, TypeOK, Process
<1>8. ASSUME WriteManifest PROVE ApplyInv'
  BY <1>2, <1>8 DEF WriteManifest, At, Goto, TypeOK, Process
<1>9. ASSUME NEW f \in Files, CommitFile(f) PROVE ApplyInv'
  <2> SUFFICES ASSUME proc'.cmd = "apply" PROVE ApplyInv'
    BY DEF ApplyInv
  <2>1. UNCHANGED <<meta, changes, manifest>>
    BY <1>9 DEF CommitFile, outputs
  <2>2. /\ proc.pc = "committing" /\ proc.cmd = "apply"
        /\ proc'.answer = proc.answer
        /\ proc'.pc = proc.pc
        /\ proc'.written = proc.written \union {f}
        /\ f \in proc.answer.files
    BY <1>9 DEF CommitFile, At, TypeOK, Process
  <2>3. /\ \A g \in Files : g # f => disk'[g] = disk[g]
        /\ disk'[f] = Patched(proc.answer.on[f], proc.answer.id)
    BY <1>9 DEF CommitFile, TypeOK, Project
  <2>4. proc.answer.on[f] \in Content /\ proc.answer.id \in 0..MaxPatches
    BY DEF TypeOK, Process, ChangeList, Project
  <2>5. disk'[f][proc.answer.id] = 1
    <3>1. proc.answer.on[f][proc.answer.id] = 0
      BY <2>2 DEF PatchInv, CommitInv
    <3>2. Patched(proc.answer.on[f], proc.answer.id)[proc.answer.id] = 0 + 1
      BY <2>4, <3>1 DEF Patched, Content
    <3> QED
      BY <2>3, <3>2
  <2>6. \A g \in proc.written : disk[g][changes.id] = 1 /\ g \in Files
    BY <2>2 DEF ApplyInv, TypeOK, Process
  <2> QED
    BY <2>1, <2>2, <2>3, <2>5, <2>6 DEF ApplyInv, ManifestMatches
<1>10. ASSUME CommitFails PROVE ApplyInv'
  <2>1. CASE proc.cmd = "apply"
    BY <1>10, <2>1 DEF CommitFails, NoCommand, Begin, ApplyInv
  <2>2. CASE proc.cmd # "apply"
    BY <1>10, <2>2 DEF CommitFails, ApplyInv, TypeOK, Process
  <2> QED
    BY <2>1, <2>2
<1>11. ASSUME CommitEnds PROVE ApplyInv'
  BY <1>11 DEF CommitEnds, Goto, ApplyInv, TypeOK, Process
<1>12. ASSUME BeginApply PROVE ApplyInv'
  <2>1. /\ UNCHANGED <<changes, manifest>>
        /\ manifest # None /\ ManifestMatches
        /\ meta'.life = "APPLYING" /\ proc'.pc = "applying"
    BY <1>12 DEF BeginApply, MayApply, SetLife, Begin, outputs, TypeOK, Metadata
  <2> QED
    BY <2>1 DEF ApplyInv, ManifestMatches
<1>13. ASSUME ApplyComputes PROVE ApplyInv'
  <2>1. UNCHANGED <<changes, manifest>> /\ proc.pc = "applying"
    BY <1>13 DEF ApplyComputes, At, outputs
  <2>2. CASE proc' = NoCommand
    BY <2>2 DEF NoCommand, Begin, ApplyInv
  <2>3. CASE /\ proc' = [proc EXCEPT !.pc = "committing", !.written = {},
                                     !.answer = [changes EXCEPT !.on = disk]]
             /\ UNCHANGED meta
    <3>1. /\ proc'.answer.id = changes.id
          /\ proc'.answer.files = changes.files
          /\ proc'.written = {}
          /\ proc'.cmd = proc.cmd
      BY <2>3 DEF TypeOK, ChangeList, Process
    <3> QED
      BY <2>1, <2>3, <3>1 DEF ApplyInv, ManifestMatches
  <2> QED
    BY <1>13, <2>2, <2>3 DEF ApplyComputes
<1>14. ASSUME NEW f \in Files, ExternalEdit(f) PROVE ApplyInv'
  BY <1>14 DEF ExternalEdit, At, ApplyInv, PlaceInv
<1> QED
  BY <1>1, <1>3, <1>4, <1>5, <1>6, <1>7, <1>8, <1>9, <1>10, <1>11, <1>12, <1>13, <1>14
     DEF Handles

(* Nothing but the end of apply's commit makes a run count as applied.     *)
LEMMA OnlyApplyMarks ==
  ASSUME TypeOK, ControlInv, AppliedInv, [Next]_vars, Applied'
  PROVE  \/ CommitEnds /\ proc.cmd = "apply"
         \/ Applied /\ ~InFlow'
<1> USE DEF ControlInv
<1>1. ASSUME meta'.life \in {meta.life} \union (Lifecycle \ {"APPLIED"}),
             \/ UNCHANGED proc
             \/ proc' = NoCommand
             \/ proc'.cmd = proc.cmd /\ proc'.backup = proc.backup
      PROVE  Applied /\ ~InFlow'
  BY <1>1 DEF Applied, AppliedInv, InFlow, NoCommand, Begin
<1>2. CASE ~Decides
  BY <1>1, <1>2, RoutineSteps DEF RoutineStep
<1>3. ASSUME NEW r \in BOOLEAN, ExecutorBlocks(r) PROVE Applied /\ ~InFlow'
  BY <1>1, <1>3 DEF ExecutorBlocks, TypeOK, Process
<1>4. CASE ExecutorClears
  BY <1>1, <1>4 DEF ExecutorClears, Goto, TypeOK, Process
<1>5. CASE CommitFails
  <2>1. CASE proc.cmd = "apply"
    BY <1>1, <1>5, <2>1 DEF CommitFails, SetLife, Lifecycle, TypeOK, Metadata
  <2>2. CASE proc.cmd # "apply"
    BY <1>1, <1>5, <2>2 DEF CommitFails, TypeOK, Process
  <2> QED
    BY <2>1, <2>2
<1>6. CASE CommitEnds /\ proc.cmd # "apply"
  BY <1>1, <1>6 DEF CommitEnds, Goto, TypeOK, Process
<1>7. CASE ExecutorSucceeds
  BY <1>1, <1>7 DEF ExecutorSucceeds, Goto, TypeOK, Process
<1>8. CASE ExecutorLists
  <2>1. meta'.life \in {meta.life, "RECOVERED"}
    BY <1>8 DEF ExecutorLists, TypeOK, Metadata
  <2>2. proc'.cmd = proc.cmd /\ proc'.backup = proc.backup
    BY <1>8 DEF ExecutorLists, TypeOK, Process
  <2> QED
    BY <1>1, <2>1, <2>2 DEF Lifecycle
<1>9. ASSUME NEW s \in {"approved", "rejected", "blocked"}, ReviewAnswers(s)
      PROVE  Applied /\ ~InFlow'
  BY <1>1, <1>9 DEF ReviewAnswers, Goto, TypeOK, Process
<1>10. CASE Judge
  <2>1. meta'.life \in {meta.life, "CORRECTING"}
    BY <1>10 DEF Judge, SetLife, TypeOK, Metadata
  <2>2. proc' = NoCommand \/ (proc'.cmd = proc.cmd /\ proc'.backup = proc.backup)
    BY <1>10 DEF Judge, Goto, End, TypeOK, Process
  <2> QED
    BY <1>1, <2>1, <2>2 DEF Lifecycle
<1>11. CASE KnowledgeAnswers
  <2>1. meta'.life \in {meta.life, "AWAITING_APPLY"}
    BY <1>11 DEF KnowledgeAnswers, TypeOK, Metadata
  <2>2. proc'.cmd = proc.cmd /\ proc'.backup = proc.backup
    BY <1>11 DEF KnowledgeAnswers, Goto, TypeOK, Process
  <2> QED
    BY <1>1, <2>1, <2>2 DEF Lifecycle
<1>12. CASE Finish
  BY <1>1, <1>12 DEF Finish, End
<1>13. CASE BeginResume
  BY <1>13 DEF BeginResume, Begin, Applied, TypeOK, Metadata
<1>14. CASE BeginApply
  BY <1>14 DEF BeginApply, SetLife, Begin, Applied, TypeOK, Metadata
<1>15. ASSUME NEW step \in Phase, BeginReplay(step) PROVE Applied /\ ~InFlow'
  <2>1. meta'.life = "REPLAYING" /\ proc'.backup = meta /\ proc'.cmd = "replay"
    BY <1>15 DEF BeginReplay, SetLife, Begin, TypeOK, Metadata
  <2> QED
    BY <2>1 DEF Applied, InFlow
<1>16. CASE RestoreMetadata
  BY <1>16 DEF RestoreMetadata, At, PlaceInv, Applied, InFlow, NoCommand, Begin
<1> QED
  BY <1>2, <1>3, <1>4, <1>5, <1>6, <1>7, <1>8, <1>9, <1>10, <1>11, <1>12, <1>13, <1>14, <1>15,
     <1>16
     DEF Decides

(* A run that counts as applied keeps the patch of its manifest.           *)
LEMMA AppliedStep ==
  ASSUME TypeOK, ControlInv, PatchInv, ApplyInv, AppliedInv, [Next]_vars
  PROVE  AppliedInv'
<1> USE DEF ControlInv
<1> SUFFICES ASSUME Applied' PROVE AppliedInv'
  BY DEF AppliedInv
<1>1. CASE CommitEnds /\ proc.cmd = "apply"
  <2>1. /\ UNCHANGED <<disk, changes, manifest>>
        /\ proc.pc = "committing" /\ proc.written = proc.answer.files
        /\ proc'.cmd = "apply" /\ proc'.pc = "marking"
    BY <1>1 DEF CommitEnds, At, Goto, outputs, TypeOK, Process
  <2>2. /\ manifest # None /\ manifest.of = changes.id
        /\ manifest.files = proc.written
        /\ \A f \in proc.written : disk[f][changes.id] = 1
    BY <1>1, <2>1 DEF ApplyInv, ManifestMatches, PatchInv, ListsInv
  <2> QED
    BY <2>1, <2>2 DEF AppliedInv, InFlow
<1>2. CASE ~(CommitEnds /\ proc.cmd = "apply")
  <2>1. /\ Applied /\ ~InFlow'
        /\ ~InFlow /\ manifest # None
        /\ \A f \in manifest.files :
             /\ disk[f][manifest.of] = 1
             /\ proc.pc = "committing" /\ f \in proc.answer.files =>
                  proc.answer.on[f][manifest.of] = 1
    BY <1>2, OnlyApplyMarks DEF AppliedInv
  <2>2. manifest.files \subseteq Files /\ manifest.of \in Patches
    BY <2>1 DEF TypeOK, Manifest, PatchInv, ListsInv, Patches
  <2>3. proc.pc = "committing" => proc.cmd = "replay"
    BY <2>1 DEF ApplyInv, Applied, InFlow, PlaceInv, TypeOK, Process
  <2>4. ASSUME UNCHANGED <<disk, manifest>>, proc'.pc # "committing" PROVE AppliedInv'
    BY <2>1, <2>4 DEF AppliedInv
  <2>5. CASE ~Handles
    <3>1. QuietStep
      BY <2>5, QuietSteps
    <3>2. CASE UNCHANGED proc
      BY <2>1, <3>1, <3>2 DEF QuietStep, AppliedInv
    <3> QED
      BY <2>4, <3>1, <3>2 DEF QuietStep, Noisy
  <2>6. ASSUME NEW r \in BOOLEAN, ExecutorBlocks(r) PROVE AppliedInv'
    BY <2>4, <2>6 DEF ExecutorBlocks, TypeOK, Process
  <2>7. CASE ExecutorClears
    BY <2>4, <2>7 DEF ExecutorClears, Goto, TypeOK, Process
  <2>8. ASSUME NEW S \in SUBSET Files, ExecutorProposes(S) PROVE AppliedInv'
    <3> DEFINE answer == IF S = {} THEN NoChanges
                         ELSE [id |-> IF S = {} THEN 0 ELSE patches + 1, files |-> S, on |-> View]
    <3>1. UNCHANGED <<disk, manifest>>
      BY <2>8 DEF ExecutorProposes, outputs
    <3>2. /\ proc'.pc = IF proc.dry THEN "succeeded" ELSE "committing"
          /\ proc'.answer = answer
      BY <2>8 DEF ExecutorProposes, TypeOK, Process
    <3>3. answer.files = S /\ (S # {} => answer.on = View)
      BY DEF NoChanges
    <3> HIDE DEF answer
    <3>4. ~proc.dry => \A f \in Files : View[f] = disk[f]
      BY DEF View, PatchInv, OverlayInv, NoOverlay
    <3> QED
      BY <2>1, <2>2, <3>1, <3>2, <3>3, <3>4 DEF AppliedInv
  <2>9. ASSUME NEW f \in Files, CommitFile(f) PROVE AppliedInv'
    <3>1. UNCHANGED manifest
      BY <2>9 DEF CommitFile, outputs
    <3>2. /\ proc.pc = "committing" /\ proc'.pc = proc.pc
          /\ proc'.answer = proc.answer
          /\ f \in proc.answer.files
      BY <2>9 DEF CommitFile, At, TypeOK, Process
    <3>3. /\ \A g \in Files : g # f => disk'[g] = disk[g]
          /\ disk'[f] = Patched(proc.answer.on[f], proc.answer.id)
      BY <2>9 DEF CommitFile, TypeOK, Project
    <3>4. proc.answer.on[f] \in Content /\ proc.answer.id \in 0..MaxPatches
      BY DEF TypeOK, Process, ChangeList, Project
    <3>5. manifest.of # proc.answer.id
      BY <2>1, <2>3, <3>2 DEF PatchInv, NewAnswerInv, Answering
    <3>6. disk'[f][manifest.of] = proc.answer.on[f][manifest.of]
      BY <2>2, <3>3, <3>4, <3>5 DEF Patched, Content, Patches
    <3> QED
      BY <2>1, <2>2, <3>1, <3>2, <3>3, <3>6 DEF AppliedInv
  <2>10. CASE CommitFails
    <3>1. UNCHANGED manifest /\ proc.pc = "committing" /\ proc'.pc \in {"idle", "clearing"}
      <4>1. CASE proc' = NoCommand
        BY <2>10, <4>1 DEF CommitFails, At, NoCommand, Begin
      <4>2. CASE proc' = [proc EXCEPT !.pc = "clearing", !.retryable = FALSE]
        BY <2>10, <4>2 DEF CommitFails, At, TypeOK, Process
      <4> QED
        BY <2>10, <4>1, <4>2 DEF CommitFails
    <3>2. PICK S \in Undone : disk' = RolledBack(S)
      BY <2>10 DEF CommitFails
    <3>3. S \subseteq proc.answer.files
      BY <3>1 DEF Undone, PatchInv, CommitInv
    <3>4. \A f \in manifest.files : disk'[f][manifest.of] = 1
      BY <2>1, <2>2, <3>1, <3>2, <3>3 DEF RolledBack
    <3> QED
      BY <2>1, <3>1, <3>4 DEF AppliedInv
  <2>11. CASE CommitEnds
    BY <1>2, <2>4, <2>11 DEF CommitEnds, Goto, outputs, TypeOK, Process
  <2>12. CASE ExecutorSucceeds
    BY <2>4, <2>12 DEF ExecutorSucceeds, Goto, TypeOK, Process
  <2>13. CASE ExecutorLists
    BY <2>4, <2>13 DEF ExecutorLists, TypeOK, Process
  <2>14. CASE WriteManifest
    BY <2>1, <2>14 DEF WriteManifest, At, PlaceInv
  <2>15. CASE BeginApply
    BY <2>4, <2>15 DEF BeginApply, Begin, outputs
  <2>16. CASE ApplyComputes
    BY <2>1, <2>16 DEF ApplyComputes, At, PlaceInv, ApplyInv, Applied
  <2>17. ASSUME NEW f \in Files, ExternalEdit(f) PROVE AppliedInv'
    <3>1. UNCHANGED <<manifest, proc>> /\ proc.pc = "idle"
      BY <2>17 DEF ExternalEdit, At, outputs
    <3>2. \A g \in manifest.files : disk'[g][manifest.of] = disk[g][manifest.of]
      BY <2>2, <2>17, EditKeepsPatches
    <3> QED
      BY <2>1, <3>1, <3>2 DEF AppliedInv
  <2> QED
    BY <2>5, <2>6, <2>7, <2>8, <2>9, <2>10, <2>11, <2>12, <2>13, <2>14, <2>15, <2>16, <2>17
       DEF Handles
<1> QED
  BY <1>1, <1>2

(* What is applied is not pending: PendingInv of RunPipelineInv.  Most     *)
(* steps leave the mode, the pending mark and the result file of apply.    *)
ModeKept ==
  /\ UNCHANGED physical
  /\ meta'.mode = meta.mode
  /\ meta'.pending = meta.pending
  /\ meta'.life = "APPLIED" => meta.life = "APPLIED"
  /\ \/ proc' = NoCommand
     \/ /\ UNCHANGED <<proc.cmd, proc.dry, proc.backup>>
        /\ proc'.pc = "marking" => proc.pc = "marking"
        /\ proc.pc \in {"architect", "gate"} => proc'.pc \in {"architect", "gate"}

(* The others.                                                             *)
Marks ==
  \/ ArchitectGate \/ RecordPending \/ CommitEnds \/ MarkApplied \/ RestoreMetadata
  \/ BeginResume \/ BeginApply \/ \E step \in Phase : BeginReplay(step)

(* A step that gives the run another lifecycle state, but not APPLIED.     *)
LEMMA LifeKeepsMode ==
  ASSUME TypeOK, NEW life \in Lifecycle \ {"APPLIED"}, meta' = [meta EXCEPT !.life = life]
  PROVE  /\ meta'.mode = meta.mode
         /\ meta'.pending = meta.pending
         /\ meta'.life = "APPLIED" => meta.life = "APPLIED"
BY DEF TypeOK, Metadata

LEMMA ModeSteps ==
  ASSUME TypeOK, [Next]_vars, ~Marks
  PROVE  ModeKept
<1> USE DEF ModeKept, outputs, history
<1>1. CASE UNCHANGED vars
  BY <1>1 DEF vars
<1>2. CASE ArchitectThrows
  BY <1>2 DEF ArchitectThrows, Abort
<1>3. ASSUME NEW v \in {"approved", "blocked", "invalid"}, ArchitectPlans(v) PROVE ModeKept
  BY <1>3 DEF ArchitectPlans, Goto, At, TypeOK, Process
<1>4. ASSUME NEW stage \in {"executor", "review"}, NEW next \in {"executing", "reviewing"},
             NEW life \in {"EXECUTING", "REVIEWING"}, StartStage(stage, next, life)
      PROVE  ModeKept
  <2>1. CASE Abort(FALSE) /\ UNCHANGED meta
    BY <1>4, <2>1 DEF StartStage, Abort
  <2>2. CASE SetLife(life) /\ proc' = [proc EXCEPT !.pc = next, !.micro = 1]
    <3>1. /\ UNCHANGED <<proc.cmd, proc.dry, proc.backup>>
          /\ proc'.pc = next
          /\ proc.pc = stage
      BY <1>4, <2>2 DEF StartStage, At, TypeOK, Process
    <3> QED
      BY <1>4, <2>2, <3>1, LifeKeepsMode DEF StartStage, SetLife, Lifecycle
  <2> QED
    BY <1>4, <2>1, <2>2 DEF StartStage
<1>5. CASE StartExecutor \/ StartReview
  BY <1>4, <1>5 DEF StartExecutor, StartReview
<1>6. CASE AgentThrows
  BY <1>6 DEF AgentThrows, Throw, Abort, Goto, At, TypeOK, Process
<1>7. ASSUME NEW r \in BOOLEAN, ExecutorBlocks(r) PROVE ModeKept
  BY <1>7 DEF ExecutorBlocks, At, TypeOK, Process
<1>8. CASE ExecutorClears
  BY <1>8 DEF ExecutorClears, Goto, At, TypeOK, Process
<1>9. ASSUME NEW S \in SUBSET Files, ExecutorProposes(S) PROVE ModeKept
  BY <1>9 DEF ExecutorProposes, At, TypeOK, Process
<1>10. ASSUME NEW f \in Files, CommitFile(f) PROVE ModeKept
  BY <1>10 DEF CommitFile, At, TypeOK, Process
<1>11. CASE CommitFails
  <2>1. CASE SetLife("FAILED") /\ proc' = NoCommand
    BY <1>11, <2>1, LifeKeepsMode DEF CommitFails, SetLife, Lifecycle
  <2>2. CASE UNCHANGED meta /\ proc' = [proc EXCEPT !.pc = "clearing", !.retryable = FALSE]
    BY <1>11, <2>2 DEF CommitFails, At, TypeOK, Process
  <2> QED
    BY <1>11, <2>1, <2>2 DEF CommitFails
<1>12. CASE ExecutorSucceeds
  BY <1>12 DEF ExecutorSucceeds, Goto, At, TypeOK, Process
<1>13. CASE ExecutorLists
  <2>1. /\ UNCHANGED <<physical, proc.cmd, proc.dry, proc.backup>>
        /\ proc'.pc \in {"hooks", "restore"}
        /\ proc.pc = "listing"
    BY <1>13 DEF ExecutorLists, At, TypeOK, Process
  <2>2. meta' = [meta EXCEPT !.life = "RECOVERED"] \/ UNCHANGED meta
    BY <1>13 DEF ExecutorLists
  <2> QED
    BY <2>1, <2>2, LifeKeepsMode DEF Lifecycle
<1>14. CASE Recover
  <2>1. UNCHANGED physical /\ proc.pc = "recover"
    BY <1>14 DEF Recover, At
  <2>2. CASE Goto("restore") /\ UNCHANGED meta
    BY <2>1, <2>2 DEF Goto, TypeOK, Process
  <2>3. CASE /\ SetLife("RECOVERING")
             /\ proc' = [proc EXCEPT !.pc = "executing", !.micro = @ + 1, !.retryable = FALSE]
    BY <2>1, <2>3, LifeKeepsMode DEF SetLife, Lifecycle, TypeOK, Process
  <2>4. CASE /\ SetLife(IF proc.retryable THEN "RETRY_EXHAUSTED" ELSE "RECOVERY_FAILED")
             /\ Abort(TRUE)
    BY <2>1, <2>4, LifeKeepsMode DEF SetLife, Abort, Lifecycle
  <2> QED
    BY <1>14, <2>2, <2>3, <2>4 DEF Recover
<1>15. CASE WriteManifest
  BY <1>15 DEF WriteManifest, Goto, At, TypeOK, Process
<1>16. ASSUME NEW s \in {"approved", "rejected", "blocked"}, ReviewAnswers(s) PROVE ModeKept
  BY <1>16 DEF ReviewAnswers, Goto, At, TypeOK, Process
<1>17. CASE Judge
  <2>1. UNCHANGED physical /\ proc.pc = "judge"
    BY <1>17 DEF Judge, At
  <2>2. CASE Goto("knowledge") /\ UNCHANGED meta
    BY <2>1, <2>2 DEF Goto, TypeOK, Process
  <2>3. CASE SetLife("CORRECTING") /\ Goto("correcting")
    BY <2>1, <2>3, LifeKeepsMode DEF SetLife, Goto, Lifecycle, TypeOK, Process
  <2>4. CASE End("partial") /\ UNCHANGED meta
    BY <2>1, <2>4 DEF End
  <2> QED
    BY <1>17, <2>2, <2>3, <2>4 DEF Judge
<1>18. CASE CorrectionAnswers
  BY <1>18 DEF CorrectionAnswers, Goto, At, TypeOK, Process
<1>19. CASE KnowledgeAnswers
  <2>1. /\ UNCHANGED <<physical, proc.cmd, proc.dry, proc.backup>>
        /\ proc'.pc = "finish"
        /\ proc.pc = "knowledge"
    BY <1>19 DEF KnowledgeAnswers, Goto, At, TypeOK, Process
  <2>2. meta' = [meta EXCEPT !.life = "AWAITING_APPLY"] \/ UNCHANGED meta
    BY <1>19 DEF KnowledgeAnswers
  <2> QED
    BY <2>1, <2>2, LifeKeepsMode DEF Lifecycle
<1>20. CASE Finish
  BY <1>20 DEF Finish, End
<1>21. CASE Assess \/ ResumeIsLockedOut
  BY <1>21 DEF Assess, ResumeIsLockedOut
<1>22. CASE ApplyComputes
  <2>1. CASE SetLife("FAILED") /\ proc' = NoCommand
    BY <1>22, <2>1, LifeKeepsMode DEF ApplyComputes, SetLife, Lifecycle
  <2>2. CASE ~(SetLife("FAILED") /\ proc' = NoCommand)
    BY <1>22, <2>2 DEF ApplyComputes, At, TypeOK, Process
  <2> QED
    BY <2>1, <2>2
<1>23. CASE Kill
  BY <1>23 DEF Kill
<1>24. ASSUME NEW f \in Files, ExternalEdit(f) PROVE ModeKept
  BY <1>24 DEF ExternalEdit
<1> QED
  BY <1>1, <1>2, <1>3, <1>5, <1>6, <1>7, <1>8, <1>9, <1>10, <1>11, <1>12, <1>13, <1>14, <1>15,
     <1>16, <1>17, <1>18, <1>19, <1>20, <1>21, <1>22, <1>23, <1>24
     DEF Next, Work, Marks

LEMMA PendingStep ==
  ASSUME TypeOK, ControlInv, PendingInv, [Next]_vars
  PROVE  PendingInv'
<1> USE DEF PendingInv
<1>1. CASE ~Marks
  <2>1. ModeKept
    BY <1>1, ModeSteps
  <2>2. CASE proc' = NoCommand
    BY <2>1, <2>2 DEF ModeKept, NoCommand, Begin
  <2>3. CASE proc' # NoCommand
    BY <2>1, <2>3 DEF ModeKept
  <2> QED
    BY <2>2, <2>3
<1>2. CASE ArchitectGate
  <2>1. UNCHANGED physical /\ proc.pc = "gate" /\ proc.cmd = "run" /\ meta.mode = "none"
    BY <1>2 DEF ArchitectGate, At, outputs, ControlInv, PlaceInv
  <2>2. meta.life # "APPLIED" /\ ~physical
    BY <2>1
  <2>3. CASE Abort(TRUE) /\ UNCHANGED meta
    BY <2>1, <2>2, <2>3 DEF Abort, NoCommand, Begin
  <2>4. CASE /\ meta' = [meta EXCEPT !.mode = IF proc.dry THEN "dry_run" ELSE "apply",
                                     !.pending = FALSE]
             /\ Goto("executor")
    <3>1. /\ meta'.mode = IF proc.dry THEN "dry_run" ELSE "apply"
          /\ meta'.pending = FALSE
          /\ meta'.life = meta.life
      BY <2>4 DEF TypeOK, Metadata
    <3>2. proc'.cmd = "run" /\ proc'.pc = "executor" /\ proc'.dry = proc.dry
      BY <2>1, <2>4 DEF Goto, TypeOK, Process
    <3> QED
      BY <2>1, <2>2, <3>1, <3>2
  <2> QED
    BY <1>2, <2>3, <2>4 DEF ArchitectGate
<1>3. CASE RecordPending
  <2>1. /\ UNCHANGED physical
        /\ meta'.mode = meta.mode
        /\ meta'.life = meta.life
        /\ meta'.pending => proc.dry
    BY <1>3 DEF RecordPending, PendingPatch, outputs, TypeOK, Metadata
  <2>2. /\ proc.pc = "recording"
        /\ proc.cmd # "replay"
        /\ proc'.pc = "review"
        /\ UNCHANGED <<proc.cmd, proc.dry>>
    BY <1>3 DEF RecordPending, At, Goto, ControlInv, PlaceInv, InFlow, TypeOK, Process
  <2> QED
    BY <2>1, <2>2
<1>4. CASE CommitEnds
  <2>1. UNCHANGED physical /\ proc.pc = "committing"
    BY <1>4 DEF CommitEnds, At, outputs
  <2>2. CASE /\ proc.cmd = "apply"
             /\ meta' = [mode |-> "apply", pending |-> FALSE, life |-> "APPLIED"]
             /\ Goto("marking")
    <3>1. proc'.cmd = "apply" /\ proc'.pc = "marking" /\ proc'.dry = proc.dry
      BY <2>2 DEF Goto, TypeOK, Process
    <3>2. meta'.mode = "apply" /\ meta'.pending = FALSE
      BY <2>2
    <3>3. ~proc.dry
      BY <2>2
    <3> QED
      BY <3>1, <3>2, <3>3
  <2>3. CASE UNCHANGED meta /\ Goto("succeeded")
    <3>1. proc'.pc = "succeeded" /\ UNCHANGED <<proc.cmd, proc.dry, proc.backup>>
      BY <2>3 DEF Goto, TypeOK, Process
    <3> QED
      BY <2>1, <2>3, <3>1
  <2> QED
    BY <1>4, <2>2, <2>3 DEF CommitEnds
<1>5. CASE MarkApplied
  BY <1>5 DEF MarkApplied, At, NoCommand, Begin
<1>6. CASE RestoreMetadata
  <2>1. proc.cmd = "replay"
    BY <1>6 DEF RestoreMetadata, At, ControlInv, PlaceInv
  <2> QED
    BY <1>6, <2>1 DEF RestoreMetadata, NoCommand, Begin, outputs
<1>7. CASE BeginResume
  <2>1. /\ UNCHANGED physical
        /\ proc'.cmd = "resume"
        /\ proc'.dry = (meta.mode = "dry_run")
        /\ proc'.pc \in {"correcting", "executor", "review"}
    BY <1>7 DEF BeginResume, Begin, ReturnsDry, Phase, TypeOK, outputs
  <2>2. /\ meta'.mode = meta.mode
        /\ meta'.pending = meta.pending
        /\ meta'.life # "APPLIED"
    BY <1>7 DEF BeginResume, TypeOK, Metadata
  <2> QED
    BY <2>1, <2>2
<1>8. CASE BeginApply
  <2>1. /\ UNCHANGED physical
        /\ proc'.cmd = "apply" /\ proc'.dry = FALSE /\ proc'.pc = "applying"
    BY <1>8 DEF BeginApply, Begin, outputs
  <2>2. /\ meta'.mode = meta.mode
        /\ meta'.pending = meta.pending
        /\ meta'.life # "APPLIED"
    BY <1>8 DEF BeginApply, SetLife, TypeOK, Metadata
  <2> QED
    BY <2>1, <2>2
<1>9. ASSUME NEW step \in Phase, BeginReplay(step) PROVE PendingInv'
  <2>1. /\ UNCHANGED physical
        /\ proc'.cmd = "replay"
        /\ proc'.dry = (meta.mode = "dry_run")
        /\ proc'.backup = meta
        /\ proc'.pc \in {"executing", "reviewing", "correcting"}
    BY <1>9 DEF BeginReplay, Begin, ReplayStage, ReturnsDry, Phase, outputs
  <2>2. /\ meta'.mode = meta.mode
        /\ meta'.pending = meta.pending
        /\ meta'.life # "APPLIED"
    BY <1>9 DEF BeginReplay, SetLife, TypeOK, Metadata
  <2> QED
    BY <2>1, <2>2
<1> QED
  BY <1>1, <1>2, <1>3, <1>4, <1>5, <1>6, <1>7, <1>8, <1>9 DEF Marks

LEMMA ApprovalInit == Init => ApplyInv /\ AppliedInv /\ PendingInv /\ OrderInv
BY DEF Init, Begin, NoExecution, ApplyInv, AppliedInv, Applied, PendingInv, OrderInv, InFlow

(* The places, the modes, the patches, what is applied and what a review   *)
(* has approved stay consistent.                                           *)
THEOREM PipelineInvariantHolds == Spec => []PipelineInvariant
<1>1. Init => PipelineInvariant
  BY PatchInit, PipelineTypeInit, ControlInit, ApprovalInit DEF PipelineInvariant
<1>2. PipelineInvariant /\ [Next]_vars => PipelineInvariant'
  BY PipelineTypeStep, ControlStep, PatchStep, ApplyStep, AppliedStep, PendingStep, OrderStep
     DEF PipelineInvariant
<1> QED
  BY <1>1, <1>2, PTL DEF Spec

(* No patch is written twice into a file, however the commands are killed  *)
(* and repeated: apply compares the files with the base of the manifest,   *)
(* and the base never has the patch.                                       *)
THEOREM NoPatchTwice == Spec => []AppliedOnce
<1>1. PipelineInvariant => AppliedOnce
  BY DEF PipelineInvariant, PatchInv, DiskInv, AtMostOnce, AppliedOnce
<1> QED
  BY <1>1, PipelineInvariantHolds, PTL

(* A run that counts as applied has its patch in every file of the         *)
(* manifest, whatever was killed, rolled back or replayed since: only the  *)
(* end of apply's commit says APPLIED, and nothing it did not write counts.*)
THEOREM AppliedRunsAreWhole == Spec => []AppliedWhole
<1>1. PipelineInvariant => AppliedWhole
  BY DEF PipelineInvariant, AppliedInv, Applied, AppliedWhole
<1> QED
  BY <1>1, PipelineInvariantHolds, PTL

(* However a run was killed, resumed or replayed, it never counts as       *)
(* applied while it still waits to be applied: a replay gives back the     *)
(* metadata it found, and a command that comes back is dry exactly for a   *)
(* dry run.                                                                *)
THEOREM AppliedRunsDoNotWait == Spec => []NeverAppliedAndPending
<1>1. PipelineInvariant => NeverAppliedAndPending
  BY DEF PipelineInvariant, PendingInv, NeverAppliedAndPending
<1> QED
  BY <1>1, PipelineInvariantHolds, PTL

(* apply writes the very changes that a review approved: no approval of an *)
(* earlier patch set covers a later one, as long as no stage was replayed. *)
THEOREM ApplyWritesApproved == Spec => []OnlyApprovedIsApplied
<1>1. PipelineInvariant => OnlyApprovedIsApplied
  BY DEF PipelineInvariant, OrderInv, OnlyApprovedIsApplied
<1> QED
  BY <1>1, PipelineInvariantHolds, PTL

(* A run that ended in success has an executor result and an approval of   *)
(* just these changes, however often it was corrected or resumed.          *)
THEOREM SuccessIsApproved == Spec => []SuccessMeansApproved
<1>1. PipelineInvariant => SuccessMeansApproved
  BY DEF PipelineInvariant, OrderInv, SuccessMeansApproved
<1> QED
  BY <1>1, PipelineInvariantHolds, PTL

(* An answer of the executor that is refused leaves no patch in the        *)
(* project, whichever file could not be written, as long as the files can  *)
(* be written back.                                                        *)
THEOREM RefusalUndoes ==
  ASSUME "rollback" \notin Faults
  PROVE  Spec => []RefusedPatchIsUndone
<1>1. Init => RefusedPatchIsUndone
  BY DEF Init, Begin, RefusedPatchIsUndone
<1>2. PipelineInvariant /\ RefusedPatchIsUndone /\ [Next]_vars => RefusedPatchIsUndone'
  BY RefusedStep DEF PipelineInvariant
<1> QED
  BY <1>1, <1>2, PipelineInvariantHolds, PTL DEF Spec

=============================================================================
