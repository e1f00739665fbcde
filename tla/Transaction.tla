------------------------------ MODULE Transaction ------------------------------
(***************************************************************************)
(* The transaction contract of a run, in shadow mode: a checkpoint with a  *)
(* snapshot after every stage, beside the checkpoints that resume writes   *)
(* for itself.  A command goes from step to step, one write each; it may   *)
(* be killed before any of them, which tears the file it was about to      *)
(* write, and another command may resume the run.  The successors of a     *)
(* state are a set, so that other modules can step it.                     *)
(*                                                                         *)
(*   contract   transaction-runtime.json, Null if missing, Torn if a kill  *)
(*              left half of it                                            *)
(*   snaps      the snapshots of execution-snapshots: the checkpoint each  *)
(*              was taken for; its file is named by number and hook        *)
(*   legacy     the phases in runtime-checkpoints.json                     *)
(*   disk       the artifacts of the run that are looked at                *)
(*   at         the step the command is at, and what it is for             *)
(*   killed     it was killed; commands, corrections: how many so far      *)
(*   seams      where in the contract another command took over            *)
(*   whole      no file was ever torn                                      *)
(***************************************************************************)
EXTENDS Integers, Sequences, SequencesExt

CONSTANTS Null, Torn,
          MaxCommands, MaxCorrections   \* bounds of the model

-----------------------------------------------------------------------------
HookTransitions ==
  [start |-> {"preflight"}, preflight |-> {"architect"}, architect |-> {"plan", "executor"},
   plan |-> {"executor"}, executor |-> {"validation"}, validation |-> {"risk"},
   risk |-> {"review"}, review |-> {"correction", "knowledge"}, correction |-> {"executor"},
   knowledge |-> {}]

ValidateHookFsm(hooks) ==
  \A i \in DOMAIN hooks :
    hooks[i] \in HookTransitions[IF i = 1 THEN "start" ELSE hooks[i - 1]]

(* Five of the hooks have a phase in the checkpoints of resume.            *)
LegacyHooks == {"preflight", "architect", "executor", "review", "correction"}

Readable(file) == file \notin {Null, Torn}

HooksOf(contract) == [i \in DOMAIN contract.checkpoints |-> contract.checkpoints[i].hook]

ValidateReplayContinuity(hooks, legacy, disk) ==
  /\ ValidateHookFsm(hooks)
  /\ Readable(legacy) => ToSet(hooks) \cap LegacyHooks \subseteq legacy
  /\ hooks[Len(hooks)] = "validation" => disk.results
  /\ hooks[Len(hooks)] = "risk" => disk.risk

(* Where a run can be resumed, Null if it cannot.                          *)
AssessResume(disk) ==
  CASE ~disk.executor -> IF disk.architect THEN "executor" ELSE Null
    [] disk.executor /\ disk.review = "none" -> "review"
    [] disk.executor /\ disk.review = "rejected" ->
         IF disk.instructions THEN "executor" ELSE "correction"
    [] disk.executor /\ disk.review \in {"approved", "blocked", "stuck"} -> Null

EmptyContract(disk) ==
  [plan |-> disk.plan, status |-> "draft", checkpoints |-> <<>>, continuous |-> TRUE,
   resumable |-> TRUE, seen |-> <<>>]

-----------------------------------------------------------------------------
(* The steps of a command, <<what, for what>>: a stage runs, then writes    *)
(* its phase into the checkpoints of resume, if it has one, and its hook   *)
(* into the contract.  The contract is written twice for a hook: to bind   *)
(* it to the plan, and after the snapshot.                                 *)
Rest == <<"rest", "none">>

Record_ContractFirst(step, next) ==
  CASE step[1] = "bind" -> <<"commit", step[2]>>
    [] step[1] = "commit" -> <<"snapshot", step[2]>>
    [] step[1] = "snapshot" -> next

Record(step, next) ==
  CASE step[1] = "bind" -> <<"snapshot", step[2]>>
    [] step[1] = "snapshot" -> <<"commit", step[2]>>
    [] step[1] = "commit" -> next

AfterStage(h) ==
  IF h \in {"preflight", "architect", "review", "correction"} THEN <<"legacy", h>> ELSE <<"bind", h>>

(* The phase of the executor is written when validation and risk are done. *)
AfterLegacy(h) == IF h = "executor" THEN <<"run", "review">> ELSE <<"bind", h>>

AfterRecord(h) ==
  CASE h = "preflight" -> <<"run", "architect">>
    [] h = "architect" -> <<"run", "plan">>
    [] h \in {"plan", "correction"} -> <<"run", "executor">>
    [] h = "executor" -> <<"run", "validation">>
    [] h = "validation" -> <<"run", "risk">>
    [] h = "risk" -> <<"legacy", "executor">>
    [] h = "review" -> <<"decide", "review">>
    [] h = "knowledge" -> <<"finish", "completed">>

(* A command boots the contract and starts with the preflight, or with the *)
(* stage where it resumes.                                                 *)
After(step) ==
  CASE step[1] = "boot" ->
         IF step[2] = "preflight" THEN AfterStage("preflight") ELSE <<"run", step[2]>>
    [] step[1] = "run" -> AfterStage(step[2])
    [] step[1] = "legacy" -> AfterLegacy(step[2])
    [] step[1] \in {"bind", "snapshot", "commit"} -> Record(step, AfterRecord(step[2]))
    [] step[1] = "finish" -> Rest

Begin ==
  [contract |-> Null, snaps |-> {}, legacy |-> Null,
   disk |-> [architect |-> FALSE, plan |-> FALSE, executor |-> FALSE, results |-> FALSE,
             risk |-> FALSE, review |-> "none", instructions |-> FALSE],
   at |-> <<"boot", "preflight">>, killed |-> FALSE, commands |-> 1, corrections |-> 0,
   seams |-> {}, whole |-> TRUE]

-----------------------------------------------------------------------------
(* refreshPlanBinding: the transaction gets another id once there is a     *)
(* plan; the checkpoints that are there keep theirs.                       *)
Bound(s) ==
  IF Readable(s.contract) THEN [s.contract EXCEPT !.plan = @ \/ s.disk.plan] ELSE s.contract

Doc(s) == IF Readable(s.contract) THEN s.contract ELSE EmptyContract(s.disk)

Checkpoint(s, h) ==
  [plan |-> Doc(s).plan, seq |-> Len(Doc(s).checkpoints) + 1, hook |-> h]

(* A snapshot replaces one of the same name.                               *)
Snapshot(s, h) ==
  LET new == Checkpoint(s, h)
  IN  [s EXCEPT !.snaps = {c \in @ : c.seq # new.seq \/ c.hook # h} \cup {new}]

(* The analysis of the recovery reads the contract of the checkpoint       *)
(* before.                                                                 *)
Analysed(s, doc) ==
  [doc EXCEPT !.resumable = AssessResume(s.disk) # Null,
              !.seen = IF Readable(s.contract) THEN HooksOf(s.contract) ELSE <<>>]

Commit(s, h) ==
  LET doc == [Doc(s) EXCEPT !.checkpoints = Append(@, Checkpoint(s, h)),
                            !.status = IF h = "knowledge" THEN @ ELSE "running"]
  IN  [s EXCEPT !.contract =
         [Analysed(s, doc) EXCEPT !.continuous =
            ValidateReplayContinuity(HooksOf(doc), s.legacy, s.disk)]]

(* The end of a command that returns changes a contract that can be read,  *)
(* that of one that throws makes one if need be.                           *)
Finish(s, status) ==
  [s EXCEPT !.contract =
     IF Readable(s.contract) \/ status = "failed" THEN [Analysed(s, Doc(s)) EXCEPT !.status = status]
     ELSE s.contract]

Boot(s) ==
  [s EXCEPT !.contract = IF @ = Null THEN EmptyContract(s.disk) ELSE Bound(s)]

LegacyCheckpoint(s, h) ==
  [s EXCEPT !.legacy = IF Readable(@) THEN @ \cup {h} ELSE {h}]

End(s, status) == [s EXCEPT !.at = <<"finish", status>>]

(* A stage writes what it is for or throws.  The executor refuses before   *)
(* or after it has overwritten its result; a plan, a validation and a risk *)
(* analysis are optional, and governance may stop a run after validation.  *)
Run(s, stage) ==
  LET disk == s.disk
      Wrote(d) == [s EXCEPT !.disk = d]
  IN  CASE stage = "architect" ->
             {Wrote([disk EXCEPT !.architect = TRUE]), End(s, "failed"), End(s, "partial")}
        [] stage = "plan" -> {Wrote([disk EXCEPT !.plan = p]) : p \in BOOLEAN}
        [] stage = "executor" ->
             {Wrote([disk EXCEPT !.executor = TRUE]), End(s, "failed"),
              End(Wrote([disk EXCEPT !.executor = FALSE]), "failed")}
        [] stage = "validation" ->
             {Wrote([disk EXCEPT !.results = r \/ @]) : r \in BOOLEAN}
             \cup {End(Wrote([disk EXCEPT !.results = TRUE]), "failed")}
        [] stage = "risk" -> {Wrote([disk EXCEPT !.risk = r \/ @]) : r \in BOOLEAN}
        [] stage = "review" ->
             {Wrote([disk EXCEPT !.review = r]) : r \in {"approved", "rejected", "blocked", "stuck"}}
             \cup {End(s, "failed")}
        [] stage = "correction" ->
             {Wrote([disk EXCEPT !.instructions = TRUE]), End(s, "failed")}

Decide(s) ==
  CASE s.disk.review = "approved" -> [s EXCEPT !.at = <<"bind", "knowledge">>]
    [] s.disk.review = "blocked" -> End(s, "partial")
    [] s.disk.review = "stuck" -> End(s, "failed")
    [] s.disk.review = "rejected" ->
         IF s.corrections >= MaxCorrections THEN End(s, "partial")
         ELSE [s EXCEPT !.at = <<"run", "correction">>, !.corrections = @ + 1]

Perform(s) ==
  LET x == s.at[2]
      t == [s EXCEPT !.at = After(@)]
  IN  CASE s.at[1] = "boot" -> {Boot(t)}
        [] s.at[1] = "bind" -> {[t EXCEPT !.contract = Bound(t)]}
        [] s.at[1] = "snapshot" -> {Snapshot(t, x)}
        [] s.at[1] = "commit" -> {Commit(t, x)}
        [] s.at[1] = "legacy" -> {LegacyCheckpoint(t, x)}
        [] s.at[1] = "run" -> Run(t, x)
        [] s.at[1] = "decide" -> {Decide(s)}
        [] s.at[1] = "finish" -> {Finish(t, x)}

Kill(s) ==
  LET dead == [s EXCEPT !.at = Rest, !.killed = TRUE]
  IN  {dead}
      \cup (IF s.at[1] \in {"boot", "bind", "commit", "finish"}
            THEN {[dead EXCEPT !.contract = Torn, !.seams = {}, !.whole = FALSE]} ELSE {})
      \cup (IF s.at[1] = "legacy" THEN {[dead EXCEPT !.legacy = Torn, !.whole = FALSE]} ELSE {})

ResumeRun(s) ==
  IF s.commands = MaxCommands \/ AssessResume(s.disk) = Null THEN {}
  ELSE {[s EXCEPT !.at = <<"boot", AssessResume(s.disk)>>, !.killed = FALSE, !.commands = @ + 1,
                  !.corrections = IF AssessResume(s.disk) = "correction" /\ @ = 0 THEN 1 ELSE @,
                  !.seams = @ \cup {Len(Doc(s).checkpoints) + 1}]}

Successors(s) == IF s.at = Rest THEN ResumeRun(s) ELSE Perform(s) \cup Kill(s)

-----------------------------------------------------------------------------
(* Every checkpoint has its number and the snapshot that was taken for it, *)
(* and those after the plan carry its id.                                  *)
CheckpointsAreWhole(s) ==
  Readable(s.contract) =>
    LET c == s.contract.checkpoints
    IN  \A i \in DOMAIN c : /\ c[i].seq = i /\ c[i] \in s.snaps
                            /\ c[i].hook \notin {"preflight", "architect"} => c[i].plan = s.disk.plan

(* A command that was not killed leaves a contract that says how it ended  *)
(* and whether it can be resumed, and the contract of a run is completed   *)
(* exactly after an approval.                                              *)
EndsAreOnRecord(s) ==
  /\ s.at = Rest /\ ~s.killed =>
       /\ Readable(s.contract)
       /\ s.contract.status \in {"completed", "partial", "failed"}
       /\ s.contract.resumable <=> AssessResume(s.disk) # Null
       /\ s.contract.status = "completed" <=> s.disk.executor /\ s.disk.review = "approved"
  /\ Readable(s.contract) /\ s.contract.status = "completed" =>
       s.contract.checkpoints[Len(s.contract.checkpoints)].hook = "knowledge"

(* A record is continuous only if every command took over between two      *)
(* stages, and that of a run that was approved in one go and by which no   *)
(* file was torn is.                                                       *)
ContinuityIsTold(s) ==
  Readable(s.contract) =>
    LET hooks == HooksOf(s.contract)
    IN  /\ s.contract.continuous =>
             \A p \in s.seams \cap DOMAIN hooks :
               p > 1 /\ <<hooks[p - 1], hooks[p]>> \in
                          {<<"architect", "executor">>, <<"plan", "executor">>,
                           <<"correction", "executor">>, <<"risk", "review">>,
                           <<"review", "correction">>}
        /\ s.contract.status = "completed" /\ s.whole /\ s.seams = {} => s.contract.continuous

TransactionSound(s) == CheckpointsAreWhole(s) /\ EndsAreOnRecord(s) /\ ContinuityIsTold(s)
=============================================================================
