----------------------------- MODULE RunRecords -----------------------------
(***************************************************************************)
(* What a run leaves on disk from command to command: the transaction      *)
(* contract with its snapshots (module Transaction), and the memory, the   *)
(* lineage and the analysis of the corrections (module Correction).  The   *)
(* two are written by different parts of the code and share no file.  The  *)
(* input is a case and the state of that one; a step is one write or one   *)
(* kill.                                                                   *)
(***************************************************************************)
EXTENDS Cases, Integers, Sequences

CONSTANTS
  Torn,            \* a file of which a kill left the first half
  MaxCommands, MaxCorrections, MaxResumes,   \* bounds of the models
  Troubles,        \* what a review may leave: facts of module Correction
  RetryThresholds, \* the repeat thresholds of the environment, Null if not set
  Limits           \* the correction limits of a run

T == INSTANCE Transaction
C == INSTANCE Correction

-----------------------------------------------------------------------------
(* What the files of a run hold when they are whole.                       *)
Hooks == DOMAIN T!HookTransitions \ {"start"}

Checkpoints == [plan : BOOLEAN, seq : Nat, hook : Hooks]

Contracts ==
  [plan : BOOLEAN, status : {"draft", "running", "completed", "partial", "failed"},
   checkpoints : Seq(Checkpoints),
   continuous : BOOLEAN, resumable : BOOLEAN, seen : Seq(Hooks)]

Signatures == {C!Signature(f) : f \in Troubles}

Memories ==
  [last : {Null} \cup Signatures, streak : Nat, retries : Seq({"made", "suppressed"})]

NodeIds == Nat \X Signatures \X {"generated", "suppressed"}

Lineages == Seq([id : NodeIds, parent : {Null} \cup NodeIds])

(* A file that is missing or torn is told from one that is whole.          *)
ASSUME FilesAssumption ==
  /\ \A file \in {Null, Torn} :
       file \notin Contracts /\ \A phases \in SUBSET T!LegacyHooks : file # phases
  /\ Torn \notin Memories /\ Torn \notin Lineages

ASSUME LimitsAssumption == RetryThresholds \subseteq Int \cup {Null} /\ Limits \subseteq Nat

-----------------------------------------------------------------------------
Transactions == {[case |-> "transaction", state |-> T!Begin]}

Corrections ==
  {[case |-> "correction", state |-> C!Begin(mode, env, cap)] :
     mode \in {"off", "guided", "active"}, env \in RetryThresholds, cap \in Limits}

StepTransaction ==
  /\ input.case = "transaction"
  /\ \E t \in T!Successors(input.state) : input' = [case |-> "transaction", state |-> t]

StepCorrection ==
  /\ input.case = "correction"
  /\ \E t \in C!Successors(input.state, Troubles) : input' = [case |-> "correction", state |-> t]

RecordsInit == input \in Transactions \cup Corrections

RecordsNext == StepTransaction \/ StepCorrection

RecordsSpec == RecordsInit /\ [][RecordsNext]_input

-----------------------------------------------------------------------------
(* The contract of a run and its snapshots belong together after any kill, *)
(* it tells how the last command ended, and where commands were cut; the   *)
(* gate of the corrections counts every repeat over kills and resumes, no  *)
(* run is corrected more often than its limit, and what is on record of    *)
(* its corrections agrees.                                                 *)
RecordsSurviveKills ==
  /\ input.case = "transaction" => T!TransactionSound(input.state)
  /\ input.case = "correction" => C!CorrectionSound(input.state)
=============================================================================
