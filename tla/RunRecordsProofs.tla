-------------------------- MODULE RunRecordsProofs --------------------------
(***************************************************************************)
(* The records of a run survive every kill and resume (RecordsSurviveKills *)
(* of RunRecords), for any number of commands, corrections and resumes,    *)
(* any failures and any limits.                                            *)
(***************************************************************************)
EXTENDS RunRecords, SequenceTheorems, TLAPS

-----------------------------------------------------------------------------
(* The transaction contract: its inductive invariant.                      *)
Writes == {"bind", "snapshot", "commit"}

Steps ==
  ({"boot"} \X {"preflight", "executor", "review", "correction"})
  \cup ({"run"} \X (Hooks \ {"preflight", "knowledge"}))
  \cup ({"legacy"} \X T!LegacyHooks)
  \cup (Writes \X Hooks)
  \cup {<<"decide", "review">>, T!Rest}
  \cup ({"finish"} \X {"completed", "partial", "failed"})

Judged == {"approved", "blocked", "stuck"}

Disks ==
  [architect : BOOLEAN, plan : BOOLEAN, executor : BOOLEAN, results : BOOLEAN, risk : BOOLEAN,
   review : {"none", "rejected"} \cup Judged, instructions : BOOLEAN]

(* The checkpoints of the contract, none if it cannot be read.             *)
Done(s) == T!Doc(s).checkpoints

TxType(s) ==
  /\ DOMAIN s = {"contract", "snaps", "legacy", "disk", "at", "killed", "commands", "corrections",
                 "seams", "whole"}
  /\ s.contract \in {Null, Torn} \cup Contracts
  /\ s.legacy \in {Null, Torn} \cup SUBSET T!LegacyHooks
  /\ s.disk \in Disks
  /\ s.at \in Steps

(* Nothing was planned yet.                                                *)
Early(at) == at[2] \in {"preflight", "architect"} \/ at = <<"run", "plan">>

(* The executor has succeeded.                                             *)
Executed(at) ==
  \/ at[2] \in {"validation", "risk", "review", "correction", "knowledge", "completed"}
  \/ at[2] = "executor" /\ at[1] \in Writes \cup {"legacy"}

(* The review has decided.                                                 *)
Settled(at) ==
  \/ at[2] = "review" /\ at[1] \in Writes \cup {"legacy", "decide"}
  \/ at[2] = "knowledge"
  \/ at[1] \in {"finish", "rest"}

Approved(s) == s.disk.executor /\ s.disk.review = "approved"

TxPlan(s) ==
  /\ T!Readable(s.contract) /\ s.contract.plan => s.disk.plan
  /\ s.at[1] \in {"snapshot", "commit"} => T!Doc(s).plan = s.disk.plan

TxShot(s) == s.at[1] = "commit" => T!Checkpoint(s, s.at[2]) \in s.snaps

TxEarly(s) ==
  Early(s.at) =>
    /\ ~s.disk.plan /\ ~s.disk.executor
    /\ s.seams = {}
    /\ IF s.at = <<"boot", "preflight">> THEN s.contract = Null ELSE T!Readable(s.contract)
    /\ \A i \in DOMAIN Done(s) : Done(s)[i].hook \in {"preflight", "architect"}

TxDisk(s) ==
  /\ s.disk.review \in Judged => Settled(s.at) /\ s.disk.executor
  /\ Executed(s.at) => s.disk.executor
  /\ s.at[2] = "review" /\ s.at[1] \in Writes \cup {"legacy", "decide"} => s.disk.review # "none"

TxEnd(s) ==
  /\ s.at[1] = "decide" \/ s.at[2] = "knowledge" => T!Readable(s.contract)
  /\ s.at[2] = "knowledge" => s.disk.review = "approved"
  /\ s.at[1] = "finish" => /\ s.at[2] = "failed" \/ T!Readable(s.contract)
                           /\ s.at[2] = "completed" <=> Approved(s)
  /\ s.at[2] = "completed" => Done(s) # <<>> /\ Done(s)[Len(Done(s))].hook = "knowledge"
  /\ T!Readable(s.contract) /\ s.contract.status = "completed" =>
       /\ s.at = T!Rest /\ Approved(s)
       /\ Done(s) # <<>> /\ Done(s)[Len(Done(s))].hook = "knowledge"

TxRest(s) ==
  s.at = T!Rest /\ ~s.killed =>
    /\ T!Readable(s.contract)
    /\ s.contract.status \in {"completed", "partial", "failed"}
    /\ s.contract.resumable <=> T!AssessResume(s.disk) # Null
    /\ s.contract.status = "completed" <=> Approved(s)

(* A command took over here, and has not recorded a hook yet.              *)
TakesOver(at) ==
  \/ at[2] \in {"executor", "review", "correction"} /\ at[1] # "decide" /\ at # <<"legacy", "executor">>
  \/ at \in {T!Rest, <<"finish", "failed">>}

TxSeams(s) ==
  /\ s.seams \subseteq 1..(Len(Done(s)) + 1)
  /\ \A p \in s.seams \cap DOMAIN Done(s) : Done(s)[p].hook \in {"executor", "review", "correction"}
  /\ Len(Done(s)) + 1 \in s.seams => TakesOver(s.at)
  /\ s.at[1] = "boot" /\ s.at[2] # "preflight" => s.seams # {}

(* The hooks of checkpoints c follow one another.                          *)
Legal(c) ==
  \A i \in DOMAIN c :
    c[i].hook \in T!HookTransitions[IF i = 1 THEN "start" ELSE c[i - 1].hook]

TxTold(s) == T!Readable(s.contract) /\ s.contract.continuous => Legal(Done(s))

(* The hook that is recorded next.                                         *)
Upcoming(at) ==
  IF at = <<"legacy", "executor">> THEN "review"
  ELSE IF at[1] = "decide" THEN "knowledge" ELSE at[2]

Follows(c, h) == h \in T!HookTransitions[IF c = <<>> THEN "start" ELSE c[Len(c)].hook]

InLegacy(s, h) == T!Readable(s.legacy) /\ h \in s.legacy

(* The phase of the executor is still to be written.                       *)
Owed(at) == at[2] \in {"validation", "risk"} \/ at = <<"legacy", "executor">>

TxWhole(s) ==
  s.whole /\ s.seams = {} =>
    /\ s.at[1] \notin {"finish", "rest"} =>
         /\ Legal(Done(s))
         /\ Follows(Done(s), Upcoming(s.at))
         /\ \A i \in DOMAIN Done(s) :
              Done(s)[i].hook \in T!LegacyHooks =>
                InLegacy(s, Done(s)[i].hook) \/ (Done(s)[i].hook = "executor" /\ Owed(s.at))
         /\ s.at[1] \in Writes /\ s.at[2] \in T!LegacyHooks \ {"executor"} => InLegacy(s, s.at[2])
    /\ s.at[2] = "completed" => s.contract.continuous
    /\ T!Readable(s.contract) /\ s.contract.status = "completed" => s.contract.continuous

TxInv(s) ==
  /\ TxType(s)
  /\ T!CheckpointsAreWhole(s)
  /\ TxPlan(s)
  /\ TxShot(s)
  /\ TxEarly(s)
  /\ TxDisk(s)
  /\ TxEnd(s)
  /\ TxRest(s)
  /\ TxSeams(s)
  /\ TxTold(s)
  /\ TxWhole(s)

-----------------------------------------------------------------------------
(* The corrections: their inductive invariant.                             *)
Gated == {"refuse", "forget", "report"}
Correcting == {"correct", "remember", "analyse", "instruct"}
Resting == {"approved", "stopped", "failed", "killed"}

CoType(s) ==
  /\ DOMAIN s = {"mode", "threshold", "cap", "memory", "lineage", "analysis", "iterations",
                 "instructions", "facts", "at", "base", "resumes", "gates", "made", "gated"}
  /\ s.mode \in {"off", "guided", "active"}
  /\ s.threshold \in Int /\ s.threshold >= 2
  /\ s.cap \in Nat
  /\ s.memory \in {Torn} \cup Memories
  /\ s.lineage \in {Torn} \cup Lineages
  /\ s.iterations \in Nat
  /\ s.instructions \in BOOLEAN
  /\ s.facts \in {Null} \cup Troubles
  /\ s.at \in {"review", "gate", "increment"} \cup Gated \cup Correcting \cup Resting
  /\ s.at \in {"gate", "increment"} \cup Gated \cup Correcting => s.facts \in Troubles
  /\ s.base \in Memories
  /\ s.resumes \in Nat
  /\ s.gates \in Seq(Signatures)
  /\ s.made \in Seq(Signatures)
  /\ s.gated \in BOOLEAN

(* The last n signatures of q are the same, and no more.                   *)
IsStreak(q, n) ==
  /\ n \in 1..Len(q)
  /\ \A i \in (Len(q) - n + 1)..Len(q) : q[i] = q[Len(q)]
  /\ n < Len(q) => q[Len(q) - n] # q[Len(q)]

Counts(memory, q) ==
  IF q = <<>> THEN memory.streak = 0
  ELSE memory.last = q[Len(q)] /\ IsStreak(q, memory.streak)

CoStreak(s) ==
  /\ s.memory # Torn => Counts(s.memory, s.gates)
  /\ s.memory = Torn => s.gates = <<>>
  /\ s.mode # "active" => s.gates = <<>>

CoGate(s) ==
  /\ s.at \in Gated => s.mode = "active" /\ s.memory # Torn /\ s.memory.streak >= s.threshold
  /\ s.at \in {"refuse", "forget"} => s.base = s.memory
  /\ s.mode = "active" /\ s.gated /\ s.at \in {"increment"} \cup Correcting =>
       s.memory # Torn /\ s.memory.streak < s.threshold

CoLimits(s) ==
  /\ Len(s.made) <= s.iterations
  /\ s.iterations <= s.cap \/ (s.iterations <= 1 /\ s.resumes > 0)
  /\ s.at \in {"gate", "increment"} => s.iterations < s.cap
  /\ s.at \in Correcting => Len(s.made) < s.iterations
  /\ ~s.instructions => s.made = <<>>

Tag(node) == IF node.id[3] = "suppressed" THEN "suppressed" ELSE "made"

CoStory(s) ==
  s.resumes = 0 /\ s.at # "killed" =>
    /\ s.memory # Torn /\ s.lineage # Torn
    /\ Len(s.lineage) = Len(s.memory.retries) + (IF s.at \in {"forget", "remember"} THEN 1 ELSE 0)
    /\ \A i \in 1..Len(s.memory.retries) : s.memory.retries[i] = Tag(s.lineage[i])
    /\ s.at = "forget" => Tag(s.lineage[Len(s.lineage)]) = "suppressed"
    /\ s.at = "remember" => Tag(s.lineage[Len(s.lineage)]) = "made"

CoNames(s) ==
  s.resumes = 0 /\ s.at # "killed" =>
    /\ \A i, j \in 1..Len(s.lineage) : i # j => s.lineage[i].id # s.lineage[j].id
    /\ \A i \in 1..Len(s.lineage) :
         /\ s.lineage[i].id[1] <= s.iterations
         /\ s.at = "correct" => s.lineage[i].id[1] < s.iterations
         /\ s.at \notin {"forget", "report", "stopped"} => s.lineage[i].id[3] = "generated"
    /\ s.mode # "off" =>
         Len(s.lineage) >= Len(s.made) + (IF s.at \in Correcting \ {"correct"} THEN 1 ELSE 0)

CoInv(s) ==
  /\ CoType(s)
  /\ CoStreak(s)
  /\ CoGate(s)
  /\ CoLimits(s)
  /\ CoStory(s)
  /\ CoNames(s)
  /\ C!RefusalsAreTold(s)

RecordsInv ==
  \/ input.case = "transaction" /\ TxInv(input.state)
  \/ input.case = "correction" /\ CoInv(input.state)

-----------------------------------------------------------------------------
(* What each step of a command changes.                                    *)

Only(s, t, changed) == DOMAIN t = DOMAIN s /\ \A f \in DOMAIN s \ changed : t[f] = s[f]

Moved(s) == [s EXCEPT !.at = T!After(@)]

LEMMA MovedOnly ==
  ASSUME NEW s, TxType(s)
  PROVE  Only(s, Moved(s), {"at"}) /\ Moved(s).at = T!After(s.at)
BY DEF TxType, Only, Moved

LEMMA DoBoot ==
  ASSUME NEW s, TxType(s), s.at[1] = "boot", NEW t \in T!Perform(s)
  PROVE  /\ Only(s, t, {"at", "contract"})
         /\ t.at = IF s.at[2] = "preflight" THEN <<"legacy", "preflight">> ELSE <<"run", s.at[2]>>
         /\ t.contract = IF s.contract = Null THEN T!EmptyContract(s.disk) ELSE T!Bound(s)
<1>1. t = T!Boot(Moved(s))
  BY DEF T!Perform, Moved
<1>2. T!After(s.at) = IF s.at[2] = "preflight" THEN <<"legacy", "preflight">> ELSE <<"run", s.at[2]>>
  BY DEF T!After, T!AfterStage
<1> QED
  BY <1>1, <1>2, MovedOnly DEF TxType, Only, T!Boot, T!Bound

LEMMA DoBind ==
  ASSUME NEW s, TxType(s), s.at[1] = "bind", NEW t \in T!Perform(s)
  PROVE  /\ Only(s, t, {"at", "contract"})
         /\ t.at = <<"snapshot", s.at[2]>>
         /\ t.contract = T!Bound(s)
<1>1. t = [Moved(s) EXCEPT !.contract = T!Bound(Moved(s))]
  BY DEF T!Perform, Moved
<1>2. T!After(s.at) = <<"snapshot", s.at[2]>>
  BY DEF T!After, T!Record
<1> QED
  BY <1>1, <1>2, MovedOnly DEF TxType, Only, T!Bound

LEMMA DoSnapshot ==
  ASSUME NEW s, TxType(s), s.at[1] = "snapshot", NEW t \in T!Perform(s)
  PROVE  /\ Only(s, t, {"at", "snaps"})
         /\ t.at = <<"commit", s.at[2]>>
         /\ t.snaps = {c \in s.snaps : c.seq # T!Checkpoint(s, s.at[2]).seq \/ c.hook # s.at[2]}
                      \cup {T!Checkpoint(s, s.at[2])}
<1>1. t = T!Snapshot(Moved(s), s.at[2])
  BY DEF T!Perform, Moved
<1>2. T!After(s.at) = <<"commit", s.at[2]>>
  BY DEF T!After, T!Record
<1>3. T!Checkpoint(Moved(s), s.at[2]) = T!Checkpoint(s, s.at[2])
  BY MovedOnly DEF TxType, Only, T!Checkpoint, T!Doc
<1> QED
  BY <1>1, <1>2, <1>3, MovedOnly DEF TxType, Only, T!Snapshot

LEMMA DoCommit ==
  ASSUME NEW s, TxType(s), s.at[1] = "commit", NEW t \in T!Perform(s)
  PROVE  /\ Only(s, t, {"at", "contract"})
         /\ t.at = T!AfterRecord(s.at[2])
         /\ t = T!Commit(Moved(s), s.at[2])
<1>1. t = T!Commit(Moved(s), s.at[2])
  BY DEF T!Perform, Moved
<1>2. T!After(s.at) = T!AfterRecord(s.at[2])
  BY DEF T!After, T!Record
<1> QED
  BY <1>1, <1>2, MovedOnly DEF TxType, Only, T!Commit

LEMMA DoLegacy ==
  ASSUME NEW s, TxType(s), s.at[1] = "legacy", NEW t \in T!Perform(s)
  PROVE  /\ Only(s, t, {"at", "legacy"})
         /\ t.at = T!AfterLegacy(s.at[2])
         /\ t.legacy = IF T!Readable(s.legacy) THEN s.legacy \cup {s.at[2]} ELSE {s.at[2]}
<1>1. t = T!LegacyCheckpoint(Moved(s), s.at[2])
  BY DEF T!Perform, Moved
<1>2. T!After(s.at) = T!AfterLegacy(s.at[2])
  BY DEF T!After
<1> QED
  BY <1>1, <1>2, MovedOnly DEF TxType, Only, T!LegacyCheckpoint

LEMMA DoDecide ==
  ASSUME NEW s, TxType(s), s.at[1] = "decide", s.disk.review # "none", NEW t \in T!Perform(s)
  PROVE  /\ Only(s, t, {"at", "corrections"})
         /\ \/ s.disk.review = "approved" /\ t.at = <<"bind", "knowledge">>
            \/ s.disk.review = "blocked" /\ t.at = <<"finish", "partial">>
            \/ s.disk.review = "stuck" /\ t.at = <<"finish", "failed">>
            \/ s.disk.review = "rejected" /\ t.at \in {<<"finish", "partial">>, <<"run", "correction">>}
<1>1. t = T!Decide(s)
  BY DEF T!Perform
<1>2. s.disk.review \in {"approved", "blocked", "stuck", "rejected"}
  BY DEF TxType, Disks, Judged
<1>3. \A status : Only(s, T!End(s, status), {"at"}) /\ T!End(s, status).at = <<"finish", status>>
  BY DEF TxType, Only, T!End
<1>4. CASE s.disk.review = "approved"
  BY <1>1, <1>4 DEF TxType, Only, T!Decide
<1>5. CASE s.disk.review = "blocked"
  BY <1>1, <1>3, <1>5 DEF Only, T!Decide
<1>6. CASE s.disk.review = "stuck"
  BY <1>1, <1>3, <1>6 DEF Only, T!Decide
<1>7. CASE s.disk.review = "rejected"
  <2>1. CASE s.corrections >= MaxCorrections
    BY <1>1, <1>3, <1>7, <2>1 DEF Only, T!Decide
  <2>2. CASE ~(s.corrections >= MaxCorrections)
    BY <1>1, <1>7, <2>2 DEF TxType, Only, T!Decide
  <2> QED
    BY <2>1, <2>2
<1> QED
  BY <1>2, <1>4, <1>5, <1>6, <1>7

LEMMA DoFinish ==
  ASSUME NEW s, TxType(s), s.at[1] = "finish", NEW t \in T!Perform(s)
  PROVE  /\ Only(s, t, {"at", "contract"})
         /\ t.at = T!Rest
         /\ t.contract = IF T!Readable(s.contract) \/ s.at[2] = "failed"
                         THEN [T!Analysed(s, T!Doc(s)) EXCEPT !.status = s.at[2]]
                         ELSE s.contract
<1>1. t = T!Finish(Moved(s), s.at[2])
  BY DEF T!Perform, Moved
<1>2. T!After(s.at) = T!Rest
  BY DEF T!After
<1>3. T!Analysed(Moved(s), T!Doc(Moved(s))) = T!Analysed(s, T!Doc(s))
  BY MovedOnly DEF TxType, Only, T!Doc, T!Analysed
<1> QED
  BY <1>1, <1>2, <1>3, MovedOnly DEF TxType, Only, T!Finish

LEMMA HooksAre ==
  Hooks = {"preflight", "architect", "plan", "executor", "validation", "risk", "review", "correction",
           "knowledge"}
BY DEF Hooks, T!HookTransitions

(* What a step is for.                                                     *)
LEMMA StepKinds ==
  ASSUME NEW at \in Steps
  PROVE  /\ at = <<at[1], at[2]>>
         /\ at[1] \in {"boot", "run", "legacy", "decide", "finish", "rest"} \cup Writes
         /\ at[1] = "boot" => at[2] \in {"preflight", "executor", "review", "correction"}
         /\ at[1] = "run" =>
              at[2] \in {"architect", "plan", "executor", "validation", "risk", "review", "correction"}
         /\ at[1] = "legacy" => at[2] \in {"preflight", "architect", "executor", "review", "correction"}
         /\ at[1] \in Writes => at[2] \in Hooks
         /\ at[1] = "decide" => at[2] = "review"
         /\ at[1] = "finish" => at[2] \in {"completed", "partial", "failed"}
         /\ at[1] = "rest" => at = T!Rest /\ at[2] = "none"
<1>0. \A A, B : at \in A \X B => at = <<at[1], at[2]>> /\ at[1] \in A /\ at[2] \in B
  OBVIOUS
<1>1. CASE at \in {"boot"} \X {"preflight", "executor", "review", "correction"}
  <2>1. at = <<at[1], at[2]>> /\ at[1] = "boot" /\ at[2] \in {"preflight", "executor", "review", "correction"}
    BY <1>0, <1>1
  <2> QED
    BY <2>1 DEF Writes
<1>2. CASE at \in {"run"} \X (Hooks \ {"preflight", "knowledge"})
  <2>1. at = <<at[1], at[2]>> /\ at[1] = "run" /\ at[2] \in Hooks \ {"preflight", "knowledge"}
    BY <1>0, <1>2
  <2> QED
    BY <2>1, HooksAre DEF Writes
<1>3. CASE at \in {"legacy"} \X T!LegacyHooks
  <2>1. at = <<at[1], at[2]>> /\ at[1] = "legacy" /\ at[2] \in T!LegacyHooks
    BY <1>0, <1>3
  <2> QED
    BY <2>1 DEF Writes, T!LegacyHooks
<1>4. CASE at \in Writes \X Hooks
  <2>1. at = <<at[1], at[2]>> /\ at[1] \in Writes /\ at[2] \in Hooks
    BY <1>0, <1>4
  <2> QED
    BY <2>1 DEF Writes
<1>5. CASE at = <<"decide", "review">>
  BY <1>5 DEF Writes
<1>6. CASE at = T!Rest
  BY <1>6 DEF Writes, T!Rest
<1>7. CASE at \in {"finish"} \X {"completed", "partial", "failed"}
  <2>1. at = <<at[1], at[2]>> /\ at[1] = "finish" /\ at[2] \in {"completed", "partial", "failed"}
    BY <1>0, <1>7
  <2> QED
    BY <2>1 DEF Writes
<1> QED
  BY <1>1, <1>2, <1>3, <1>4, <1>5, <1>6, <1>7 DEF Steps

LEMMA DoRun ==
  ASSUME NEW s, TxType(s), s.at[1] = "run", NEW t \in T!Perform(s)
  PROVE  /\ Only(s, t, {"at", "disk"})
         /\ t.disk \in Disks
         /\ \/ t.at = T!AfterStage(s.at[2])
            \/ t.at = <<"finish", "failed">> /\ s.at[2] # "plan"
            \/ t.at = <<"finish", "partial">> /\ s.at[2] = "architect"
         /\ s.at[2] # "plan" => t.disk.plan = s.disk.plan
         /\ s.at[2] # "executor" => t.disk.executor = s.disk.executor
         /\ s.at[2] = "executor" => t.disk.executor \/ t.at = <<"finish", "failed">>
         /\ s.at[2] # "review" => t.disk.review = s.disk.review
         /\ s.at[2] = "review" => \/ t.disk.review # "none" /\ t.at = T!AfterStage("review")
                                  \/ t.disk.review = s.disk.review /\ t.at = <<"finish", "failed">>
<1> DEFINE m == Moved(s)
           Wrote(d) == [m EXCEPT !.disk = d]
<1>1. t \in T!Run(m, s.at[2])
  BY DEF T!Perform, Moved
<1>2. T!After(s.at) = T!AfterStage(s.at[2])
  BY DEF T!After
<1>3. Only(s, m, {"at"}) /\ m.at = T!AfterStage(s.at[2]) /\ m.disk = s.disk /\ s.disk \in Disks
  BY <1>2, MovedOnly DEF TxType, Only
<1> HIDE DEF m
<1>4. \A d : /\ Only(s, Wrote(d), {"at", "disk"})
             /\ Wrote(d).disk = d /\ Wrote(d).at = T!AfterStage(s.at[2])
  BY <1>3 DEF TxType, Only
<1>5. \A x : /\ Only(s, T!End(m, x), {"at", "disk"})
             /\ T!End(m, x).disk = s.disk /\ T!End(m, x).at = <<"finish", x>>
  BY <1>3 DEF TxType, Only, T!End
<1>6. \A d, x : /\ Only(s, T!End(Wrote(d), x), {"at", "disk"})
                /\ T!End(Wrote(d), x).disk = d /\ T!End(Wrote(d), x).at = <<"finish", x>>
  BY <1>3 DEF TxType, Only, T!End
<1>7. CASE s.at[2] = "architect"
  <2>1. t \in {Wrote([s.disk EXCEPT !.architect = TRUE]), T!End(m, "failed"), T!End(m, "partial")}
    BY <1>1, <1>3, <1>7 DEF T!Run
  <2>2. [s.disk EXCEPT !.architect = TRUE] \in Disks
    BY <1>3 DEF Disks
  <2> HIDE DEF Wrote
  <2> QED
    BY <1>3, <1>4, <1>5, <1>7, <2>1, <2>2 DEF Disks
<1>8. CASE s.at[2] = "plan"
  <2>1. PICK p \in BOOLEAN : t = Wrote([s.disk EXCEPT !.plan = p])
    BY <1>1, <1>3, <1>8 DEF T!Run
  <2>2. [s.disk EXCEPT !.plan = p] \in Disks
    BY <1>3 DEF Disks
  <2> HIDE DEF Wrote
  <2> QED
    BY <1>3, <1>4, <1>8, <2>1, <2>2 DEF Disks
<1>9. CASE s.at[2] = "executor"
  <2>1. t \in {Wrote([s.disk EXCEPT !.executor = TRUE]), T!End(m, "failed"),
               T!End(Wrote([s.disk EXCEPT !.executor = FALSE]), "failed")}
    BY <1>1, <1>3, <1>9 DEF T!Run
  <2>2. [s.disk EXCEPT !.executor = TRUE] \in Disks /\ [s.disk EXCEPT !.executor = FALSE] \in Disks
    BY <1>3 DEF Disks
  <2> HIDE DEF Wrote
  <2>3. CASE t = Wrote([s.disk EXCEPT !.executor = TRUE])
    BY <1>3, <1>4, <1>9, <2>2, <2>3 DEF Disks
  <2>4. CASE t = T!End(m, "failed")
    BY <1>3, <1>5, <1>9, <2>4
  <2>5. CASE t = T!End(Wrote([s.disk EXCEPT !.executor = FALSE]), "failed")
    <3>1. /\ Only(s, t, {"at", "disk"})
          /\ t.disk = [s.disk EXCEPT !.executor = FALSE] /\ t.at = <<"finish", "failed">>
      BY <1>6, <2>5
    <3>2. t.disk.plan = s.disk.plan /\ t.disk.review = s.disk.review
      BY <1>3, <3>1 DEF Disks
    <3> QED
      BY <1>3, <1>9, <2>2, <3>1, <3>2
  <2> QED
    BY <2>1, <2>3, <2>4, <2>5
<1>10. CASE s.at[2] = "validation"
  <2>1. \/ t = T!End(Wrote([s.disk EXCEPT !.results = TRUE]), "failed")
        \/ \E r \in BOOLEAN : t = Wrote([s.disk EXCEPT !.results = r \/ s.disk.results])
    BY <1>1, <1>3, <1>10 DEF T!Run
  <2>2. \E b \in BOOLEAN : \/ t = T!End(Wrote([s.disk EXCEPT !.results = b]), "failed")
                         \/ t = Wrote([s.disk EXCEPT !.results = b])
    <3> HIDE DEF Wrote
    <3>1. CASE t = T!End(Wrote([s.disk EXCEPT !.results = TRUE]), "failed")
      BY <3>1
    <3>2. ASSUME NEW r \in BOOLEAN, t = Wrote([s.disk EXCEPT !.results = r \/ s.disk.results])
          PROVE  \E b \in BOOLEAN : t = Wrote([s.disk EXCEPT !.results = b])
      <4>1. (r \/ s.disk.results) \in BOOLEAN
        OBVIOUS
      <4> QED
        BY <3>2, <4>1
    <3> QED
      BY <2>1, <3>1, <3>2
  <2>3. PICK b \in BOOLEAN : \/ t = T!End(Wrote([s.disk EXCEPT !.results = b]), "failed")
                            \/ t = Wrote([s.disk EXCEPT !.results = b])
    BY <2>2
  <2>4. [s.disk EXCEPT !.results = b] \in Disks
    BY <1>3 DEF Disks
  <2> HIDE DEF Wrote
  <2> QED
    BY <1>3, <1>4, <1>6, <1>10, <2>3, <2>4 DEF Disks
<1>11. CASE s.at[2] = "risk"
  <2>1. \E b \in BOOLEAN : t = Wrote([s.disk EXCEPT !.risk = b])
    <3>1. PICK r \in BOOLEAN : t = Wrote([s.disk EXCEPT !.risk = r \/ s.disk.risk])
      BY <1>1, <1>3, <1>11 DEF T!Run
    <3>2. (r \/ s.disk.risk) \in BOOLEAN
      OBVIOUS
    <3> HIDE DEF Wrote
    <3> QED
      BY <3>1, <3>2
  <2>2. PICK b \in BOOLEAN : t = Wrote([s.disk EXCEPT !.risk = b])
    BY <2>1
  <2>3. [s.disk EXCEPT !.risk = b] \in Disks
    BY <1>3 DEF Disks
  <2> HIDE DEF Wrote
  <2> QED
    BY <1>3, <1>4, <1>11, <2>2, <2>3 DEF Disks
<1>12. CASE s.at[2] = "review"
  <2>1. \/ t = T!End(m, "failed")
        \/ \E r \in {"approved", "rejected", "blocked", "stuck"} : t = Wrote([s.disk EXCEPT !.review = r])
    BY <1>1, <1>3, <1>12 DEF T!Run
  <2>2. \A r \in {"approved", "rejected", "blocked", "stuck"} :
          [s.disk EXCEPT !.review = r] \in Disks
    BY <1>3 DEF Disks, Judged
  <2> HIDE DEF Wrote
  <2> QED
    BY <1>3, <1>4, <1>5, <1>12, <2>1, <2>2 DEF Disks
<1>13. CASE s.at[2] = "correction"
  <2>1. t \in {Wrote([s.disk EXCEPT !.instructions = TRUE]), T!End(m, "failed")}
    BY <1>1, <1>3, <1>13 DEF T!Run
  <2>2. [s.disk EXCEPT !.instructions = TRUE] \in Disks
    BY <1>3 DEF Disks
  <2> HIDE DEF Wrote
  <2> QED
    BY <1>3, <1>4, <1>5, <1>13, <2>1, <2>2 DEF Disks
<1> QED
  BY <1>7, <1>8, <1>9, <1>10, <1>11, <1>12, <1>13, StepKinds DEF TxType

LEMMA DocTyped ==
  ASSUME NEW s, TxType(s)
  PROVE  /\ T!Doc(s) \in Contracts
         /\ T!Readable(s.contract) <=> s.contract \in Contracts
         /\ T!Readable(s.contract) => T!Doc(s) = s.contract
         /\ ~T!Readable(s.contract) => Done(s) = <<>> /\ T!Doc(s).plan = s.disk.plan
         /\ Done(s) \in Seq(Checkpoints) /\ Len(Done(s)) \in Nat
         /\ DOMAIN Done(s) = 1..Len(Done(s))
         /\ \A i \in DOMAIN Done(s) : Done(s)[i] \in Checkpoints
<1>1. T!EmptyContract(s.disk) \in Contracts
  BY DEF TxType, Disks, T!EmptyContract, Contracts
<1>2. T!Readable(s.contract) <=> s.contract \in Contracts
  BY FilesAssumption DEF TxType, T!Readable
<1>3. T!Doc(s) \in Contracts
  BY <1>1, <1>2 DEF T!Doc
<1>4. Done(s) \in Seq(Checkpoints)
  BY <1>3 DEF Contracts, Done
<1>5. Len(Done(s)) \in Nat /\ DOMAIN Done(s) = 1..Len(Done(s))
      /\ \A i \in DOMAIN Done(s) : Done(s)[i] \in Checkpoints
  BY <1>4, LenProperties, ElementOfSeq
<1>6. ~T!Readable(s.contract) => Done(s) = <<>> /\ T!Doc(s).plan = s.disk.plan
  BY DEF Done, T!Doc, T!EmptyContract
<1> QED
  BY <1>2, <1>3, <1>4, <1>5, <1>6 DEF T!Doc

(* The contract is bound to the plan and changed in nothing else.          *)
LEMMA BoundKeeps ==
  ASSUME NEW s, TxType(s)
  PROVE  /\ ~T!Readable(s.contract) => T!Bound(s) = s.contract
         /\ T!Readable(s.contract) =>
              /\ T!Bound(s) \in Contracts
              /\ T!Bound(s).plan = (s.contract.plan \/ s.disk.plan)
              /\ T!Bound(s).checkpoints = s.contract.checkpoints
              /\ T!Bound(s).status = s.contract.status
              /\ T!Bound(s).continuous = s.contract.continuous
              /\ T!Bound(s).resumable = s.contract.resumable
<1>1. CASE T!Readable(s.contract)
  <2>1. s.contract \in Contracts /\ s.disk.plan \in BOOLEAN
    BY <1>1, DocTyped DEF TxType, Disks
  <2> DEFINE p == s.contract.plan \/ s.disk.plan
  <2>2. p \in BOOLEAN
    OBVIOUS
  <2>3. T!Bound(s) = [s.contract EXCEPT !.plan = p]
    BY <1>1 DEF T!Bound
  <2> HIDE DEF p
  <2>4. T!Bound(s) \in Contracts
    BY <2>1, <2>2, <2>3 DEF Contracts
  <2>5. T!Bound(s).plan = p /\ T!Bound(s).checkpoints = s.contract.checkpoints
        /\ T!Bound(s).status = s.contract.status /\ T!Bound(s).continuous = s.contract.continuous
        /\ T!Bound(s).resumable = s.contract.resumable
    BY <2>1, <2>3 DEF Contracts
  <2> QED
    BY <1>1, <2>4, <2>5 DEF p
<1>2. CASE ~T!Readable(s.contract)
  BY <1>2 DEF T!Bound
<1> QED
  BY <1>1, <1>2

(* What the two ways to bind a contract leave.                             *)
Rebound(s, t) ==
  /\ t.contract \in {Null, Torn} \cup Contracts
  /\ Done(t) = Done(s)
  /\ T!Readable(s.contract) =>
       /\ T!Readable(t.contract)
       /\ t.contract.plan = (s.contract.plan \/ s.disk.plan)
       /\ t.contract.status = s.contract.status
       /\ t.contract.continuous = s.contract.continuous
  /\ ~T!Readable(s.contract) /\ T!Readable(t.contract) =>
       t.contract = T!EmptyContract(s.disk) /\ Done(s) = <<>>

LEMMA BootRebinds ==
  ASSUME NEW s, NEW t, TxType(s), t.disk = s.disk,
         \/ t.contract = T!Bound(s)
         \/ t.contract = T!EmptyContract(s.disk) /\ s.contract = Null
  PROVE  Rebound(s, t)
<1>1. T!EmptyContract(s.disk) \in Contracts
  BY DEF TxType, Disks, T!EmptyContract, Contracts
<1>2. \A c \in Contracts : T!Readable(c)
  BY FilesAssumption DEF T!Readable
<1>3. CASE T!Readable(s.contract)
  <2>1. t.contract = T!Bound(s) /\ T!Readable(t.contract)
    BY <1>2, <1>3, BoundKeeps DEF T!Readable
  <2>2. Done(t) = Done(s)
    BY <1>3, <2>1, BoundKeeps DEF Done, T!Doc
  <2> QED
    BY <1>3, <2>1, <2>2, BoundKeeps DEF Rebound
<1>4. CASE ~T!Readable(s.contract)
  <2>1. Done(s) = <<>>
    BY <1>4, DocTyped
  <2>2. CASE t.contract = T!Bound(s)
    <3>1. t.contract = s.contract
      BY <1>4, <2>2, BoundKeeps
    <3> QED
      BY <1>4, <2>1, <3>1 DEF TxType, Rebound, Done, T!Doc
  <2>3. CASE t.contract = T!EmptyContract(s.disk)
    <3>1. T!Readable(t.contract)
      BY <1>1, <1>2, <2>3
    <3>2. Done(t) = <<>>
      BY <2>3, <3>1 DEF Done, T!Doc, T!EmptyContract
    <3> QED
      BY <1>1, <1>4, <2>1, <2>3, <3>1, <3>2 DEF Rebound
  <2> QED
    BY <2>2, <2>3
<1> QED
  BY <1>3, <1>4

LEMMA HooksTyped ==
  ASSUME NEW c, c.checkpoints \in Seq(Checkpoints)
  PROVE  /\ T!HooksOf(c) \in Seq(Hooks)
         /\ Len(T!HooksOf(c)) = Len(c.checkpoints)
         /\ DOMAIN T!HooksOf(c) = DOMAIN c.checkpoints
         /\ \A i \in DOMAIN c.checkpoints : T!HooksOf(c)[i] = c.checkpoints[i].hook
         /\ T!ValidateHookFsm(T!HooksOf(c)) <=> Legal(c.checkpoints)
<1> DEFINE q == c.checkpoints
           h == T!HooksOf(c)
<1>1. Len(q) \in Nat /\ DOMAIN q = 1..Len(q) /\ \A i \in 1..Len(q) : q[i] \in Checkpoints
  BY LenProperties, ElementOfSeq
<1>2. DOMAIN h = 1..Len(q) /\ \A i \in 1..Len(q) : h[i] = q[i].hook
  BY <1>1 DEF T!HooksOf
<1>3. \A i \in 1..Len(q) : q[i].hook \in Hooks
  BY <1>1 DEF Checkpoints
<1>4. h = [i \in 1..Len(q) |-> q[i].hook]
  BY <1>1 DEF T!HooksOf
<1>5. h \in [1..Len(q) -> Hooks]
  BY <1>3, <1>4
<1>6. h \in Seq(Hooks)
  BY <1>1, <1>5, SeqDef
<1>7. Len(h) = Len(q)
  BY <1>1, <1>2, <1>6, LenProperties
<1>8. T!ValidateHookFsm(h) <=> Legal(q)
  <2> HIDE DEF h, q
  <2> SUFFICES ASSUME NEW i \in 1..Len(q)
               PROVE  (h[i] \in T!HookTransitions[IF i = 1 THEN "start" ELSE h[i - 1]])
                        <=> (q[i].hook \in T!HookTransitions[IF i = 1 THEN "start" ELSE q[i - 1].hook])
    BY <1>1, <1>2 DEF T!ValidateHookFsm, Legal
  <2>1. h[i] = q[i].hook
    BY <1>2
  <2>2. CASE i = 1
    BY <2>1, <2>2
  <2>3. CASE i # 1
    <3>1. i - 1 \in 1..Len(q)
      BY <1>1, <2>3
    <3>2. h[i - 1] = q[i - 1].hook
      BY <1>2, <3>1
    <3> QED
      BY <2>1, <2>3, <3>2
  <2> QED
    BY <2>2, <2>3
<1> QED
  BY <1>1, <1>2, <1>6, <1>7, <1>8

(* The analysis of the recovery leaves the rest of a contract alone.       *)
LEMMA AnalysedKeeps ==
  ASSUME NEW s, NEW doc \in Contracts, TxType(s)
  PROVE  /\ T!Analysed(s, doc) \in Contracts
         /\ T!Analysed(s, doc).plan = doc.plan
         /\ T!Analysed(s, doc).status = doc.status
         /\ T!Analysed(s, doc).checkpoints = doc.checkpoints
         /\ T!Analysed(s, doc).continuous = doc.continuous
         /\ T!Analysed(s, doc).resumable = (T!AssessResume(s.disk) # Null)
<1> DEFINE seen == IF T!Readable(s.contract) THEN T!HooksOf(s.contract) ELSE <<>>
           res == T!AssessResume(s.disk) # Null
<1>1. seen \in Seq(Hooks)
  <2>1. CASE T!Readable(s.contract)
    BY <2>1, DocTyped, HooksTyped DEF Contracts
  <2>2. CASE ~T!Readable(s.contract)
    BY <2>2
  <2> QED
    BY <2>1, <2>2
<1>2. res \in BOOLEAN
  OBVIOUS
<1>3. T!Analysed(s, doc) = [doc EXCEPT !.resumable = res, !.seen = seen]
  BY DEF T!Analysed
<1> HIDE DEF seen, res
<1>4. T!Analysed(s, doc) \in Contracts
  BY <1>1, <1>2, <1>3 DEF Contracts
<1>5. /\ T!Analysed(s, doc).plan = doc.plan /\ T!Analysed(s, doc).status = doc.status
      /\ T!Analysed(s, doc).checkpoints = doc.checkpoints
      /\ T!Analysed(s, doc).continuous = doc.continuous /\ T!Analysed(s, doc).resumable = res
  BY <1>3 DEF Contracts
<1> QED
  BY <1>4, <1>5 DEF res

LEMMA CheckpointTyped ==
  ASSUME NEW s, TxType(s), NEW h \in Hooks
  PROVE  /\ T!Checkpoint(s, h) \in Checkpoints
         /\ T!Checkpoint(s, h).plan = T!Doc(s).plan
         /\ T!Checkpoint(s, h).seq = Len(Done(s)) + 1
         /\ T!Checkpoint(s, h).hook = h
<1>1. T!Checkpoint(s, h) = [plan |-> T!Doc(s).plan, seq |-> Len(Done(s)) + 1, hook |-> h]
  BY DEF T!Checkpoint, Done
<1> QED
  BY <1>1, DocTyped DEF Checkpoints, Contracts

(* What recording hook h leaves.                                           *)
LEMMA CommitRecords ==
  ASSUME NEW s, TxType(s), s.at[1] = "commit", NEW h \in Hooks, h = s.at[2], NEW t, t = T!Commit(Moved(s), h)
  PROVE  /\ t.contract \in Contracts
         /\ t.contract.plan = T!Doc(s).plan
         /\ t.contract.checkpoints = Append(Done(s), T!Checkpoint(s, h))
         /\ t.contract.status = IF h = "knowledge" THEN T!Doc(s).status ELSE "running"
         /\ t.contract.continuous => Legal(t.contract.checkpoints)
         /\ /\ Legal(t.contract.checkpoints)
            /\ h = "knowledge"
            /\ \A i \in DOMAIN t.contract.checkpoints :
                 LET k == t.contract.checkpoints[i].hook
                 IN  k \in T!LegacyHooks => InLegacy(s, k) \/ ~T!Readable(s.legacy)
            => t.contract.continuous
<1> DEFINE m == Moved(s)
           c == T!Checkpoint(s, h)
           status == IF h = "knowledge" THEN T!Doc(s).status ELSE "running"
           doc == [T!Doc(s) EXCEPT !.checkpoints = Append(@, c), !.status = status]
           cont == T!ValidateReplayContinuity(T!HooksOf(doc), s.legacy, s.disk)
<1>1. m.contract = s.contract /\ m.disk = s.disk /\ m.legacy = s.legacy
      /\ DOMAIN m = DOMAIN s /\ T!Doc(m) = T!Doc(s)
  BY MovedOnly DEF TxType, Only, T!Doc
<1>2. T!Checkpoint(m, h) = c
  BY <1>1 DEF T!Checkpoint
<1>3. T!Analysed(m, doc) = T!Analysed(s, doc)
  BY <1>1 DEF T!Analysed
<1>4. t = [m EXCEPT !.contract = [T!Analysed(s, doc) EXCEPT !.continuous = cont]]
  BY <1>1, <1>2, <1>3 DEF T!Commit
<1>5. c \in Checkpoints /\ T!Doc(s) \in Contracts /\ Done(s) \in Seq(Checkpoints)
  BY CheckpointTyped, DocTyped
<1>6. Append(Done(s), c) \in Seq(Checkpoints)
  BY <1>5, AppendProperties
<1>7. status \in {"draft", "running", "completed", "partial", "failed"}
  BY <1>5 DEF Contracts
<1>8. /\ doc \in Contracts /\ doc.plan = T!Doc(s).plan /\ doc.checkpoints = Append(Done(s), c)
      /\ doc.status = status
  <2> HIDE DEF c, status
  <2> QED
    BY <1>5, <1>6, <1>7 DEF Contracts, Done
<1>9. cont \in BOOLEAN
  BY DEF T!ValidateReplayContinuity, T!ValidateHookFsm
<1> HIDE DEF m, c, status, doc, cont
<1>10. /\ t.contract \in Contracts /\ t.contract.plan = T!Doc(s).plan
       /\ t.contract.checkpoints = Append(Done(s), c) /\ t.contract.status = status
       /\ t.contract.continuous = cont
  <2>1. t.contract = [T!Analysed(s, doc) EXCEPT !.continuous = cont]
    BY <1>1, <1>4 DEF TxType
  <2>2. /\ T!Analysed(s, doc) \in Contracts /\ T!Analysed(s, doc).plan = doc.plan
        /\ T!Analysed(s, doc).status = doc.status /\ T!Analysed(s, doc).checkpoints = doc.checkpoints
    BY <1>8, AnalysedKeeps
  <2> QED
    BY <1>8, <1>9, <2>1, <2>2 DEF Contracts
<1> DEFINE q == t.contract.checkpoints
           g == T!HooksOf(doc)
<1>11. q = doc.checkpoints /\ q \in Seq(Checkpoints)
  BY <1>6, <1>8, <1>10
<1>12. /\ Len(g) = Len(q) /\ DOMAIN g = DOMAIN q
       /\ \A i \in DOMAIN q : g[i] = q[i].hook
       /\ T!ValidateHookFsm(g) <=> Legal(q)
  BY <1>11, HooksTyped
<1>13. t.contract.continuous => Legal(q)
  BY <1>10, <1>12 DEF cont, T!ValidateReplayContinuity
<1>14. Len(q) = Len(Done(s)) + 1 /\ q[Len(q)] = c /\ Len(q) \in DOMAIN q
  BY <1>5, <1>10, AppendProperties, LenProperties
<1>15. g[Len(g)] = h
  BY <1>12, <1>14, CheckpointTyped DEF c
<1>16. ASSUME Legal(q), h = "knowledge",
              \A i \in DOMAIN q : LET k == q[i].hook
                                  IN  k \in T!LegacyHooks => InLegacy(s, k) \/ ~T!Readable(s.legacy)
       PROVE  t.contract.continuous
  <2> HIDE DEF q, g
  <2>1. T!ValidateHookFsm(g)
    BY <1>12, <1>16
  <2>2. ASSUME T!Readable(s.legacy), NEW k \in T!ToSet(g) \cap T!LegacyHooks
        PROVE  k \in s.legacy
    <3>1. PICK i \in DOMAIN g : k = g[i]
      BY DEF T!ToSet
    <3> QED
      BY <1>12, <1>16, <2>2, <3>1 DEF InLegacy
  <2>3. cont
    BY <1>15, <1>16, <2>1, <2>2 DEF cont, g, T!ValidateReplayContinuity
  <2> QED
    BY <1>10, <2>3
<1> QED
  BY <1>10, <1>13, <1>16 DEF c, status

LEMMA EmptyTyped ==
  ASSUME NEW s, TxType(s)
  PROVE  LET c == T!EmptyContract(s.disk)
         IN  /\ c \in Contracts /\ T!Readable(c)
             /\ c.plan = s.disk.plan /\ c.status = "draft" /\ c.checkpoints = <<>>
             /\ c.continuous
<1>1. T!EmptyContract(s.disk) \in Contracts
  BY DEF TxType, Disks, T!EmptyContract, Contracts
<1>2. T!Readable(T!EmptyContract(s.disk))
  BY <1>1, FilesAssumption DEF T!Readable
<1> QED
  BY <1>1, <1>2 DEF T!EmptyContract

LEMMA WholeMeans ==
  ASSUME NEW s, TxType(s)
  PROVE  T!CheckpointsAreWhole(s) <=>
           \A i \in DOMAIN Done(s) :
             /\ Done(s)[i].seq = i /\ Done(s)[i] \in s.snaps
             /\ Done(s)[i].hook \notin {"preflight", "architect"} => Done(s)[i].plan = s.disk.plan
<1>1. CASE T!Readable(s.contract)
  BY <1>1, DocTyped DEF T!CheckpointsAreWhole, Done
<1>2. CASE ~T!Readable(s.contract)
  BY <1>2, DocTyped DEF T!CheckpointsAreWhole
<1> QED
  BY <1>1, <1>2

(* Steps that leave contract, legacy file and disk alone.                  *)
LEMMA SameContract ==
  ASSUME NEW s, NEW t, TxType(s), t.contract = s.contract, t.disk = s.disk
  PROVE  T!Doc(t) = T!Doc(s) /\ Done(t) = Done(s) /\ \A h : T!Checkpoint(t, h) = T!Checkpoint(s, h)
BY DEF T!Doc, Done, T!Checkpoint

LEMMA BootKeeps ==
  ASSUME NEW s, TxInv(s), s.at[1] = "boot", NEW t \in T!Perform(s)
  PROVE  TxInv(t)
<1> DEFINE x == s.at[2]
<1>0. TxType(s)
  BY DEF TxInv
<1>1. /\ DOMAIN t = DOMAIN s
      /\ t.snaps = s.snaps /\ t.legacy = s.legacy /\ t.disk = s.disk /\ t.killed = s.killed
      /\ t.seams = s.seams /\ t.whole = s.whole
      /\ t.at = IF x = "preflight" THEN <<"legacy", "preflight">> ELSE <<"run", x>>
      /\ t.contract = IF s.contract = Null THEN T!EmptyContract(s.disk) ELSE T!Bound(s)
  BY <1>0, DoBoot DEF TxType, Only
<1>2. s.at = <<"boot", x>> /\ x \in {"preflight", "executor", "review", "correction"}
  BY <1>0, StepKinds DEF TxType
<1>3. Rebound(s, t)
  BY <1>0, <1>1, BootRebinds
<1> HIDE DEF x
<1>4. TxType(t)
  <2>1. t.at \in Steps
    BY <1>1, <1>2, HooksAre DEF Steps, T!LegacyHooks
  <2> QED
    BY <1>0, <1>1, <1>3, <2>1 DEF TxType, Rebound
<1>5. T!CheckpointsAreWhole(t)
  BY <1>0, <1>1, <1>3, <1>4, WholeMeans DEF Rebound, TxInv
<1>6. CASE x = "preflight"
  <2>1. t.at = <<"legacy", "preflight">>
    BY <1>1, <1>6
  <2>2. s.contract = Null /\ s.seams = {} /\ ~s.disk.plan /\ ~s.disk.executor
    BY <1>2, <1>6 DEF TxInv, TxEarly, Early
  <2>3. t.contract = T!EmptyContract(s.disk)
    BY <1>1, <2>2
  <2>4. T!Readable(t.contract) /\ t.contract.plan = FALSE /\ t.contract.status = "draft"
        /\ Done(t) = <<>>
    BY <1>0, <2>2, <2>3, EmptyTyped DEF Done, T!Doc
  <2>5. TxPlan(t)
    BY <2>1, <2>4 DEF TxPlan
  <2>6. TxShot(t)
    BY <2>1 DEF TxShot
  <2>7. TxEarly(t)
    BY <1>1, <2>1, <2>2, <2>4 DEF TxEarly
  <2>8. TxDisk(t)
    BY <1>1, <1>2, <1>6, <2>1, <2>2 DEF TxDisk, Executed, Writes, TxInv, Settled
  <2>9. TxEnd(t)
    BY <2>1, <2>4 DEF TxEnd
  <2>10. TxRest(t)
    BY <2>1 DEF TxRest, T!Rest
  <2>11. TxSeams(t)
    BY <1>1, <2>1, <2>2 DEF TxSeams
  <2>12. Legal(Done(t)) /\ TxTold(t)
    BY <2>4 DEF TxTold, Legal
  <2>13. Follows(Done(t), "preflight")
    BY <2>4 DEF Follows, T!HookTransitions
  <2>14. TxWhole(t)
    BY <2>1, <2>4, <2>12, <2>13 DEF TxWhole, Upcoming, Writes
  <2> QED
    BY <1>4, <1>5, <2>5, <2>6, <2>7, <2>8, <2>9, <2>10, <2>11, <2>12, <2>14 DEF TxInv
<1>7. CASE x # "preflight"
  <2>1. t.at = <<"run", x>> /\ x \in {"executor", "review", "correction"}
    BY <1>1, <1>2, <1>7
  <2>2. T!Readable(t.contract) => \/ t.contract.plan => t.disk.plan
                                 \/ T!Readable(s.contract)
    BY <1>0, <1>1, <1>3, EmptyTyped DEF Rebound
  <2>3. TxPlan(t)
    <3>1. CASE T!Readable(s.contract)
      <4>1. ASSUME t.contract.plan
            PROVE  s.contract.plan \/ s.disk.plan
        BY <1>3, <3>1, <4>1 DEF Rebound
      <4>2. s.contract.plan => s.disk.plan
        BY <3>1 DEF TxInv, TxPlan
      <4> QED
        BY <1>1, <2>1, <4>1, <4>2 DEF TxPlan
    <3>2. CASE ~T!Readable(s.contract)
      BY <2>1, <2>2, <3>2 DEF TxPlan
    <3> QED
      BY <3>1, <3>2
  <2>4. TxShot(t)
    BY <2>1 DEF TxShot
  <2>5. TxEarly(t)
    BY <2>1 DEF TxEarly, Early
  <2>6. TxDisk(t)
    BY <1>1, <1>2, <2>1 DEF TxDisk, Executed, Writes, TxInv, Settled
  <2>7. ~(T!Readable(t.contract) /\ t.contract.status = "completed")
    <3>1. CASE T!Readable(s.contract)
      BY <1>2, <1>3, <3>1 DEF TxEnd, Rebound, TxInv, T!Rest
    <3>2. CASE ~T!Readable(s.contract)
      BY <1>0, <1>3, <3>2, EmptyTyped DEF Rebound
    <3> QED
      BY <3>1, <3>2
  <2>8. TxEnd(t)
    BY <2>1, <2>7 DEF TxEnd
  <2>9. TxRest(t)
    BY <2>1 DEF TxRest, T!Rest
  <2>10. TxSeams(t)
    BY <1>1, <1>2, <1>3, <2>1 DEF TxSeams, TakesOver, Rebound, TxInv
  <2>11. TxTold(t)
    <3>1. CASE T!Readable(s.contract)
      BY <1>3, <3>1 DEF TxTold, Rebound, TxInv
    <3>2. CASE ~T!Readable(s.contract)
      BY <1>0, <1>3, <3>2, DocTyped DEF Rebound, TxTold, Legal
    <3> QED
      BY <3>1, <3>2
  <2>12. TxWhole(t)
    BY <1>1, <1>2, <1>7 DEF TxWhole, TxSeams, TxInv
  <2> QED
    BY <1>4, <1>5, <2>3, <2>4, <2>5, <2>6, <2>8, <2>9, <2>10, <2>11, <2>12 DEF TxInv
<1> QED
  BY <1>6, <1>7

LEMMA BindKeeps ==
  ASSUME NEW s, TxInv(s), s.at[1] = "bind", NEW t \in T!Perform(s)
  PROVE  TxInv(t)
<1> DEFINE x == s.at[2]
<1>0. TxType(s)
  BY DEF TxInv
<1>1. /\ DOMAIN t = DOMAIN s
      /\ t.snaps = s.snaps /\ t.legacy = s.legacy /\ t.disk = s.disk /\ t.killed = s.killed
      /\ t.seams = s.seams /\ t.whole = s.whole
      /\ t.at = <<"snapshot", x>>
      /\ t.contract = T!Bound(s)
  BY <1>0, DoBind DEF TxType, Only
<1>2. s.at = <<"bind", x>> /\ x \in Hooks
  BY <1>0, StepKinds DEF TxType, Writes
<1>3. Rebound(s, t)
  BY <1>0, <1>1, BootRebinds
<1> HIDE DEF x
<1>4. TxType(t)
  <2>1. t.at \in Steps
    BY <1>1, <1>2 DEF Steps, Writes
  <2> QED
    BY <1>0, <1>1, <1>3, <2>1 DEF TxType, Rebound
<1>5. T!CheckpointsAreWhole(t)
  BY <1>0, <1>1, <1>3, <1>4, WholeMeans DEF Rebound, TxInv
<1>6. T!Readable(t.contract) <=> T!Readable(s.contract)
  BY <1>0, <1>1, <1>3, BoundKeeps DEF Rebound
<1>7. T!Readable(s.contract) => /\ t.contract.status = s.contract.status
                                /\ t.contract.continuous = s.contract.continuous
  BY <1>3 DEF Rebound
<1>8. Done(t) = Done(s)
  BY <1>3 DEF Rebound
<1>9. T!Doc(t).plan = t.disk.plan
  <2>1. CASE T!Readable(s.contract)
    <3>1. s.contract.plan \in BOOLEAN /\ s.disk.plan \in BOOLEAN
      BY <1>0, <2>1, DocTyped DEF Contracts, TxType, Disks
    <3>2. s.contract.plan => s.disk.plan
      BY <2>1 DEF TxInv, TxPlan
    <3>3. T!Doc(t).plan = (s.contract.plan \/ s.disk.plan)
      BY <1>3, <1>6, <2>1 DEF Rebound, T!Doc
    <3>4. (s.contract.plan \/ s.disk.plan) = s.disk.plan
      BY <3>1, <3>2
    <3> QED
      BY <1>1, <3>3, <3>4
  <2>2. CASE ~T!Readable(s.contract)
    BY <1>4, <1>6, <2>2, DocTyped
  <2> QED
    BY <2>1, <2>2
<1>10. TxPlan(t)
  BY <1>4, <1>9, DocTyped DEF TxPlan
<1>11. TxShot(t)
  BY <1>1 DEF TxShot
<1>12. TxEarly(t)
  BY <1>1, <1>2, <1>6, <1>8 DEF TxEarly, TxInv, Early
<1>13. TxDisk(t)
  BY <1>1, <1>2 DEF TxDisk, Executed, Writes, TxInv, Settled
<1>14. ~(T!Readable(t.contract) /\ t.contract.status = "completed")
  BY <1>2, <1>6, <1>7 DEF TxEnd, TxInv, T!Rest
<1>15. TxEnd(t)
  BY <1>1, <1>2, <1>6, <1>14, HooksAre DEF TxEnd, TxInv
<1>16. TxRest(t)
  BY <1>1 DEF TxRest, T!Rest
<1>17. TxSeams(t)
  BY <1>1, <1>2, <1>8 DEF TxSeams, TakesOver, TxInv, T!Rest
<1>18. TxTold(t)
  BY <1>6, <1>7, <1>8 DEF TxTold, TxInv
<1>19. TxWhole(t)
  <2> SUFFICES ASSUME s.whole, s.seams = {} PROVE TxWhole(t)
    BY <1>1 DEF TxWhole
  <2>1. /\ Legal(Done(s)) /\ Follows(Done(s), x)
        /\ \A i \in DOMAIN Done(s) :
             Done(s)[i].hook \in T!LegacyHooks =>
               InLegacy(s, Done(s)[i].hook) \/ (Done(s)[i].hook = "executor" /\ Owed(s.at))
        /\ x \in T!LegacyHooks \ {"executor"} => InLegacy(s, x)
    BY <1>2 DEF TxWhole, TxInv, Upcoming, Writes
  <2>2. Owed(t.at) <=> Owed(s.at)
    BY <1>1, <1>2 DEF Owed
  <2>3. \A h : InLegacy(t, h) <=> InLegacy(s, h)
    BY <1>1 DEF InLegacy
  <2>4. t.at[1] = "snapshot" /\ t.at[2] = x /\ Upcoming(t.at) = x
    BY <1>1 DEF Upcoming
  <2>5. x # "completed"
    BY <1>2, HooksAre
  <2> QED
    BY <1>8, <1>14, <2>1, <2>2, <2>3, <2>4, <2>5 DEF TxWhole
<1> QED
  BY <1>4, <1>5, <1>10, <1>11, <1>12, <1>13, <1>15, <1>16, <1>17, <1>18, <1>19 DEF TxInv

LEMMA SnapshotKeeps ==
  ASSUME NEW s, TxInv(s), s.at[1] = "snapshot", NEW t \in T!Perform(s)
  PROVE  TxInv(t)
<1> DEFINE x == s.at[2]
           new == T!Checkpoint(s, x)
<1>0. TxType(s)
  BY DEF TxInv
<1>1. /\ DOMAIN t = DOMAIN s
      /\ t.contract = s.contract /\ t.legacy = s.legacy /\ t.disk = s.disk /\ t.killed = s.killed
      /\ t.seams = s.seams /\ t.whole = s.whole
      /\ t.at = <<"commit", x>>
      /\ t.snaps = {c \in s.snaps : c.seq # new.seq \/ c.hook # x} \cup {new}
  BY <1>0, DoSnapshot DEF TxType, Only
<1>2. s.at = <<"snapshot", x>> /\ x \in Hooks
  BY <1>0, StepKinds DEF TxType, Writes
<1>3. T!Doc(t) = T!Doc(s) /\ Done(t) = Done(s) /\ T!Checkpoint(t, x) = new
  BY <1>0, <1>1, SameContract
<1>4. TxType(t)
  <2>1. t.at \in Steps
    BY <1>1, <1>2 DEF Steps, Writes
  <2> QED
    BY <1>0, <1>1, <2>1 DEF TxType
<1>5. new.seq = Len(Done(s)) + 1
  BY <1>0, <1>2, CheckpointTyped
<1> HIDE DEF x, new
<1>6. T!CheckpointsAreWhole(t)
  <2>1. \A i \in DOMAIN Done(s) :
          /\ Done(s)[i].seq = i /\ Done(s)[i] \in s.snaps
          /\ Done(s)[i].hook \notin {"preflight", "architect"} => Done(s)[i].plan = s.disk.plan
    BY <1>0, WholeMeans DEF TxInv
  <2>2. \A i \in DOMAIN Done(s) : Done(s)[i] \in t.snaps
    BY <1>0, <1>1, <1>5, <2>1, DocTyped
  <2> QED
    BY <1>1, <1>3, <1>4, <2>1, <2>2, WholeMeans
<1>7. TxPlan(t)
  BY <1>1, <1>2, <1>3 DEF TxPlan, TxInv
<1>8. TxShot(t)
  BY <1>1, <1>3 DEF TxShot
<1>9. TxEarly(t)
  BY <1>1, <1>2, <1>3 DEF TxEarly, TxInv, Early
<1>10. TxDisk(t)
  BY <1>1, <1>2 DEF TxDisk, Executed, Writes, TxInv, Settled
<1>11. TxEnd(t)
  BY <1>1, <1>2, <1>3, HooksAre DEF TxEnd, TxInv, T!Rest
<1>12. TxRest(t)
  BY <1>1 DEF TxRest, T!Rest
<1>13. TxSeams(t)
  BY <1>1, <1>2, <1>3 DEF TxSeams, TakesOver, TxInv, T!Rest
<1>14. TxTold(t)
  BY <1>1, <1>3 DEF TxTold, TxInv
<1>15. TxWhole(t)
  <2> SUFFICES ASSUME s.whole, s.seams = {} PROVE TxWhole(t)
    BY <1>1 DEF TxWhole
  <2>1. /\ Legal(Done(s)) /\ Follows(Done(s), x)
        /\ \A i \in DOMAIN Done(s) :
             Done(s)[i].hook \in T!LegacyHooks =>
               InLegacy(s, Done(s)[i].hook) \/ (Done(s)[i].hook = "executor" /\ Owed(s.at))
        /\ x \in T!LegacyHooks \ {"executor"} => InLegacy(s, x)
    BY <1>2 DEF TxWhole, TxInv, Upcoming, Writes
  <2>2. Owed(t.at) <=> Owed(s.at)
    BY <1>1, <1>2 DEF Owed
  <2>3. \A h : InLegacy(t, h) <=> InLegacy(s, h)
    BY <1>1 DEF InLegacy
  <2>4. t.at[1] = "commit" /\ t.at[2] = x /\ Upcoming(t.at) = x
    BY <1>1 DEF Upcoming
  <2>5. x # "completed"
    BY <1>2, HooksAre
  <2>6. ~(T!Readable(t.contract) /\ t.contract.status = "completed")
    BY <1>1, <1>2 DEF TxEnd, TxInv, T!Rest
  <2> QED
    BY <1>3, <2>1, <2>2, <2>3, <2>4, <2>5, <2>6 DEF TxWhole
<1> QED
  BY <1>4, <1>6, <1>7, <1>8, <1>9, <1>10, <1>11, <1>12, <1>13, <1>14, <1>15 DEF TxInv

LEMMA Appended ==
  ASSUME NEW q \in Seq(Checkpoints), NEW c \in Checkpoints
  PROVE  LET r == Append(q, c)
         IN  /\ r \in Seq(Checkpoints) /\ Len(r) = Len(q) + 1 /\ r # <<>>
             /\ DOMAIN r = DOMAIN q \cup {Len(q) + 1} /\ Len(q) + 1 \notin DOMAIN q
             /\ r[Len(q) + 1] = c
             /\ \A i \in DOMAIN q : r[i] = q[i]
             /\ Legal(r) <=> Legal(q) /\ Follows(q, c.hook)
<1> DEFINE r == Append(q, c)
<1>1. /\ r \in Seq(Checkpoints) /\ Len(r) = Len(q) + 1 /\ r[Len(q) + 1] = c
      /\ \A i \in 1..Len(q) : r[i] = q[i]
  BY AppendProperties
<1>2. Len(q) \in Nat /\ DOMAIN q = 1..Len(q) /\ DOMAIN r = 1..(Len(q) + 1)
  BY <1>1, LenProperties
<1>3. r # <<>>
  BY <1>1, <1>2, EmptySeq
<1> HIDE DEF r
<1>4. q = <<>> <=> Len(q) = 0
  BY EmptySeq
<1>5. Legal(q) <=> \A i \in 1..Len(q) :
                     r[i].hook \in T!HookTransitions[IF i = 1 THEN "start" ELSE r[i - 1].hook]
  <2> SUFFICES ASSUME NEW i \in 1..Len(q)
               PROVE  (q[i].hook \in T!HookTransitions[IF i = 1 THEN "start" ELSE q[i - 1].hook])
                      <=> (r[i].hook \in T!HookTransitions[IF i = 1 THEN "start" ELSE r[i - 1].hook])
    BY <1>2 DEF Legal
  <2>1. CASE i = 1
    BY <1>1, <2>1
  <2>2. CASE i # 1
    <3>1. i - 1 \in 1..Len(q)
      BY <1>2, <2>2
    <3>2. r[i - 1] = q[i - 1] /\ r[i] = q[i]
      BY <1>1, <3>1
    <3> QED
      BY <2>2, <3>2
  <2> QED
    BY <2>1, <2>2
<1> DEFINE n == Len(q) + 1
<1>6. Follows(q, c.hook) <=>
        r[n].hook \in T!HookTransitions[IF n = 1 THEN "start" ELSE r[n - 1].hook]
  <2>1. CASE q = <<>>
    BY <1>1, <1>4, <2>1 DEF Follows
  <2>2. CASE q # <<>>
    <3>1. Len(q) \in 1..Len(q) /\ n # 1 /\ n - 1 = Len(q)
      BY <1>2, <1>4, <2>2
    <3>2. r[Len(q)] = q[Len(q)]
      BY <1>1, <3>1
    <3> QED
      BY <1>1, <2>2, <3>1, <3>2 DEF Follows
  <2> QED
    BY <2>1, <2>2
<1>7. DOMAIN r = (1..Len(q)) \cup {n} /\ n \notin 1..Len(q)
  BY <1>2
<1>8. Legal(r) <=> /\ \A i \in 1..Len(q) :
                        r[i].hook \in T!HookTransitions[IF i = 1 THEN "start" ELSE r[i - 1].hook]
                   /\ r[n].hook \in T!HookTransitions[IF n = 1 THEN "start" ELSE r[n - 1].hook]
  <2> DEFINE Good(i) == r[i].hook \in T!HookTransitions[IF i = 1 THEN "start" ELSE r[i - 1].hook]
  <2>1. Legal(r) <=> \A i \in DOMAIN r : Good(i)
    BY DEF Legal
  <2> HIDE DEF n, Good
  <2>2. Legal(r) <=> (\A i \in 1..Len(q) : Good(i)) /\ Good(n)
    BY <1>7, <2>1
  <2> QED
    BY <2>2 DEF Good
<1>9. Legal(r) <=> Legal(q) /\ Follows(q, c.hook)
  BY <1>5, <1>6, <1>8
<1> QED
  BY <1>1, <1>2, <1>3, <1>7, <1>9 DEF r

LEMMA CommitKeeps ==
  ASSUME NEW s, TxInv(s), s.at[1] = "commit", NEW t \in T!Perform(s)
  PROVE  TxInv(t)
<1> DEFINE x == s.at[2]
           c == T!Checkpoint(s, x)
           q == Append(Done(s), c)
           n == Len(Done(s)) + 1
<1>0. TxType(s)
  BY DEF TxInv
<1>1. /\ DOMAIN t = DOMAIN s
      /\ t.snaps = s.snaps /\ t.legacy = s.legacy /\ t.disk = s.disk /\ t.killed = s.killed
      /\ t.seams = s.seams /\ t.whole = s.whole
      /\ t.at = T!AfterRecord(x)
  BY <1>0, DoCommit DEF TxType, Only
<1>2. s.at = <<"commit", x>> /\ x \in Hooks
  BY <1>0, StepKinds DEF TxType, Writes
<1>3. /\ t.contract \in Contracts /\ t.contract.plan = T!Doc(s).plan /\ t.contract.checkpoints = q
      /\ t.contract.status = IF x = "knowledge" THEN T!Doc(s).status ELSE "running"
      /\ t.contract.continuous => Legal(q)
      /\ /\ Legal(q) /\ x = "knowledge"
         /\ \A i \in DOMAIN q :
              LET k == q[i].hook
              IN  k \in T!LegacyHooks => InLegacy(s, k) \/ ~T!Readable(s.legacy)
         => t.contract.continuous
  <2>1. t = T!Commit(Moved(s), x)
    BY <1>0, DoCommit
  <2> HIDE DEF x, c, q
  <2>2. x = s.at[2]
    BY DEF x
  <2> QED
    <3>1. /\ t.contract \in Contracts /\ t.contract.plan = T!Doc(s).plan
          /\ t.contract.checkpoints = Append(Done(s), T!Checkpoint(s, x))
          /\ t.contract.status = IF x = "knowledge" THEN T!Doc(s).status ELSE "running"
          /\ t.contract.continuous => Legal(t.contract.checkpoints)
          /\ /\ Legal(t.contract.checkpoints) /\ x = "knowledge"
             /\ \A i \in DOMAIN t.contract.checkpoints :
                  LET k == t.contract.checkpoints[i].hook
                  IN  k \in T!LegacyHooks => InLegacy(s, k) \/ ~T!Readable(s.legacy)
             => t.contract.continuous
      BY <1>0, <1>2, <2>1, <2>2, CommitRecords
    <3>2. t.contract.checkpoints = q
      BY <3>1 DEF q, c
    <3> HIDE DEF q
    <3> QED
      BY <3>1, <3>2
<1>4. T!Readable(t.contract) /\ T!Doc(t) = t.contract /\ Done(t) = q
  BY <1>3, FilesAssumption DEF T!Readable, T!Doc, Done
<1>5. /\ c \in Checkpoints /\ c.plan = T!Doc(s).plan /\ c.seq = n /\ c.hook = x
  BY <1>0, <1>2, CheckpointTyped
<1>6. /\ Done(s) \in Seq(Checkpoints) /\ n - 1 \in Nat /\ n - 1 = Len(Done(s))
      /\ DOMAIN Done(s) = 1..(n - 1)
  BY <1>0, DocTyped
<1>7. /\ Len(q) = n /\ q # <<>> /\ DOMAIN q = DOMAIN Done(s) \cup {n} /\ n \notin DOMAIN Done(s)
      /\ q[n] = c /\ \A i \in DOMAIN Done(s) : q[i] = Done(s)[i]
      /\ Legal(q) <=> Legal(Done(s)) /\ Follows(Done(s), x)
  BY <1>5, <1>6, Appended
<1> HIDE DEF x, c, q, n
<1>8. TxType(t)
  <2>1. t.at \in Steps
    BY <1>1, <1>2, HooksAre DEF Steps, T!AfterRecord, T!LegacyHooks
  <2> QED
    BY <1>0, <1>1, <1>3, <2>1 DEF TxType
<1>9. T!CheckpointsAreWhole(t)
  <2>1. \A i \in DOMAIN Done(s) :
          /\ Done(s)[i].seq = i /\ Done(s)[i] \in s.snaps
          /\ Done(s)[i].hook \notin {"preflight", "architect"} => Done(s)[i].plan = s.disk.plan
    BY <1>0, WholeMeans DEF TxInv
  <2>2. c \in s.snaps /\ c.plan = s.disk.plan
    BY <1>2, <1>5 DEF TxInv, TxShot, TxPlan, c
  <2> QED
    BY <1>1, <1>4, <1>5, <1>7, <1>8, <2>1, <2>2, WholeMeans
<1>10. /\ t.at[1] \in {"run", "legacy", "decide", "finish"}
       /\ t.at[1] = "finish" <=> x = "knowledge"
       /\ x = "preflight" => t.at = <<"run", "architect">>
       /\ x = "architect" => t.at = <<"run", "plan">>
       /\ x \in {"plan", "correction"} => t.at = <<"run", "executor">>
       /\ x = "executor" => t.at = <<"run", "validation">>
       /\ x = "validation" => t.at = <<"run", "risk">>
       /\ x = "risk" => t.at = <<"legacy", "executor">>
       /\ x = "review" => t.at = <<"decide", "review">>
       /\ x = "knowledge" => t.at = <<"finish", "completed">>
  BY <1>1, <1>2, HooksAre DEF T!AfterRecord
<1>11. TxPlan(t)
  BY <1>1, <1>2, <1>3, <1>10 DEF TxPlan, TxInv
<1>12. TxShot(t)
  BY <1>10 DEF TxShot
<1>13. TxEarly(t)
  <2> SUFFICES ASSUME Early(t.at) PROVE TxEarly(t)
    BY DEF TxEarly
  <2>1. x \in {"preflight", "architect"}
    BY <1>2, <1>10, HooksAre DEF Early
  <2>2. /\ ~s.disk.plan /\ ~s.disk.executor /\ s.seams = {}
        /\ \A i \in DOMAIN Done(s) : Done(s)[i].hook \in {"preflight", "architect"}
    BY <1>2, <2>1 DEF TxInv, TxEarly, Early
  <2>3. \A i \in DOMAIN q : q[i].hook \in {"preflight", "architect"}
    BY <1>5, <1>7, <2>1, <2>2
  <2>4. t.at # <<"boot", "preflight">>
    BY <1>10
  <2> QED
    BY <1>1, <1>4, <2>2, <2>3, <2>4 DEF TxEarly
<1>14. TxDisk(t)
  <2>1. s.disk.review \in Judged => x \in {"review", "knowledge"} /\ s.disk.executor
    BY <1>2 DEF TxInv, TxDisk, Settled
  <2>2. x \in {"executor", "validation", "risk", "review", "correction", "knowledge"} => s.disk.executor
    BY <1>2 DEF TxInv, TxDisk, Executed, Writes
  <2>3. x = "review" => s.disk.review # "none"
    BY <1>2 DEF TxInv, TxDisk, Writes
  <2>4. s.disk.review \in Judged => Settled(t.at) /\ s.disk.executor
    BY <1>10, <2>1 DEF Settled
  <2>5. Executed(t.at) => s.disk.executor
    BY <1>2, <1>10, <2>2, HooksAre DEF Executed, Writes
  <2>6. t.at[2] = "review" /\ t.at[1] \in Writes \cup {"legacy", "decide"} => s.disk.review # "none"
    BY <1>2, <1>10, <2>3, HooksAre DEF Writes
  <2> QED
    BY <1>1, <2>4, <2>5, <2>6 DEF TxDisk
<1>15. ~(T!Readable(t.contract) /\ t.contract.status = "completed")
  <2>1. CASE x = "knowledge"
    <3>1. T!Readable(s.contract)
      BY <1>2, <2>1 DEF TxInv, TxEnd
    <3>2. s.contract.status # "completed"
      BY <1>2, <3>1 DEF TxInv, TxEnd, T!Rest
    <3> QED
      BY <1>0, <1>3, <2>1, <3>1, <3>2, DocTyped
  <2>2. CASE x # "knowledge"
    BY <1>3, <2>2
  <2> QED
    BY <2>1, <2>2
<1>16. TxEnd(t)
  <2>1. CASE x = "knowledge"
    <3>1. s.disk.review = "approved" /\ s.disk.executor
      BY <1>2, <2>1 DEF TxInv, TxEnd, TxDisk, Executed
    <3> QED
      BY <1>1, <1>4, <1>5, <1>7, <1>10, <1>15, <2>1, <3>1 DEF TxEnd, Approved
  <2>2. CASE x # "knowledge"
    <3>1. t.at[1] # "finish" /\ t.at[2] \notin {"knowledge", "completed"}
      BY <1>2, <1>10, <2>2, HooksAre
    <3> QED
      BY <1>4, <1>15, <3>1 DEF TxEnd
  <2> QED
    BY <2>1, <2>2
<1>17. TxRest(t)
  BY <1>10 DEF TxRest, T!Rest
<1>18. TxSeams(t)
  <2>1. s.seams \subseteq 1..n
    BY DEF TxInv, TxSeams, n
  <2>2. \A p \in s.seams \cap DOMAIN Done(s) : Done(s)[p].hook \in {"executor", "review", "correction"}
    BY DEF TxInv, TxSeams
  <2>3. n \in s.seams => x \in {"executor", "review", "correction"}
    BY <1>2 DEF TxInv, TxSeams, n, TakesOver, T!Rest
  <2>4. s.seams \subseteq 1..(Len(q) + 1) /\ Len(q) + 1 \notin s.seams
    BY <1>6, <1>7, <2>1
  <2>5. \A p \in s.seams \cap DOMAIN q : q[p].hook \in {"executor", "review", "correction"}
    BY <1>5, <1>7, <2>2, <2>3
  <2> QED
    BY <1>1, <1>4, <1>10, <2>4, <2>5 DEF TxSeams
<1>19. TxTold(t)
  BY <1>3, <1>4 DEF TxTold
<1>20. TxWhole(t)
  <2> SUFFICES ASSUME s.whole, s.seams = {} PROVE TxWhole(t)
    BY <1>1 DEF TxWhole
  <2>1. /\ Legal(Done(s)) /\ Follows(Done(s), x)
        /\ \A i \in DOMAIN Done(s) :
             Done(s)[i].hook \in T!LegacyHooks =>
               InLegacy(s, Done(s)[i].hook) \/ (Done(s)[i].hook = "executor" /\ Owed(s.at))
        /\ x \in T!LegacyHooks \ {"executor"} => InLegacy(s, x)
    BY <1>2 DEF TxWhole, TxInv, Upcoming, Writes
  <2>2. Legal(q)
    BY <1>7, <2>1
  <2>3. \A h : InLegacy(t, h) <=> InLegacy(s, h)
    BY <1>1 DEF InLegacy
  <2>4. CASE x = "knowledge"
    <3>1. ~Owed(s.at) /\ x \notin T!LegacyHooks
      BY <1>2, <2>4 DEF Owed, T!LegacyHooks
    <3>2. \A i \in DOMAIN q : q[i].hook \in T!LegacyHooks => InLegacy(s, q[i].hook)
      BY <1>5, <1>7, <2>1, <3>1
    <3>3. t.contract.continuous
      BY <1>3, <2>2, <2>4, <3>2
    <3> QED
      BY <1>10, <2>4, <3>3 DEF TxWhole
  <2>5. CASE x # "knowledge"
    <3>1. Follows(q, Upcoming(t.at))
      <4>1. Upcoming(t.at) \in T!HookTransitions[x]
        BY <1>2, <1>10, <2>5, HooksAre DEF Upcoming, T!HookTransitions
      <4> QED
        BY <1>5, <1>7, <4>1 DEF Follows
    <3>2. Owed(s.at) \/ x = "executor" => Owed(t.at)
      BY <1>2, <1>10 DEF Owed
    <3>3. \A i \in DOMAIN q :
            q[i].hook \in T!LegacyHooks =>
              InLegacy(t, q[i].hook) \/ (q[i].hook = "executor" /\ Owed(t.at))
      BY <1>5, <1>7, <2>1, <2>3, <3>2
    <3>4. t.at[1] \notin Writes /\ t.at[2] # "completed"
      BY <1>2, <1>10, <2>5, HooksAre DEF Writes
    <3> QED
      BY <1>4, <1>15, <2>2, <3>1, <3>3, <3>4 DEF TxWhole
  <2> QED
    BY <2>4, <2>5
<1> QED
  BY <1>8, <1>9, <1>11, <1>12, <1>13, <1>14, <1>16, <1>17, <1>18, <1>19, <1>20 DEF TxInv

LEMMA LegacyKeeps ==
  ASSUME NEW s, TxInv(s), s.at[1] = "legacy", NEW t \in T!Perform(s)
  PROVE  TxInv(t)
<1> DEFINE x == s.at[2]
<1>0. TxType(s)
  BY DEF TxInv
<1>1. /\ DOMAIN t = DOMAIN s
      /\ t.contract = s.contract /\ t.snaps = s.snaps /\ t.disk = s.disk /\ t.killed = s.killed
      /\ t.seams = s.seams /\ t.whole = s.whole
      /\ t.at = T!AfterLegacy(x)
      /\ t.legacy = IF T!Readable(s.legacy) THEN s.legacy \cup {x} ELSE {x}
  <2>1. /\ Only(s, t, {"at", "legacy"}) /\ t.at = T!AfterLegacy(x)
        /\ t.legacy = IF T!Readable(s.legacy) THEN s.legacy \cup {x} ELSE {x}
    BY <1>0, DoLegacy
  <2> HIDE DEF x
  <2> QED
    BY <1>0, <2>1 DEF TxType, Only
<1>2. s.at = <<"legacy", x>> /\ x \in {"preflight", "architect", "executor", "review", "correction"}
  BY <1>0, StepKinds DEF TxType
<1>3. T!Doc(t) = T!Doc(s) /\ Done(t) = Done(s)
  BY <1>0, <1>1, SameContract
<1> HIDE DEF x
<1>4. t.at = IF x = "executor" THEN <<"run", "review">> ELSE <<"bind", x>>
  BY <1>1 DEF T!AfterLegacy
<1>5. t.legacy \in SUBSET T!LegacyHooks /\ T!Readable(t.legacy)
  <2>1. x \in T!LegacyHooks
    BY <1>2 DEF T!LegacyHooks
  <2>2. T!Readable(s.legacy) => s.legacy \in SUBSET T!LegacyHooks
    BY <1>0 DEF TxType, T!Readable
  <2>3. t.legacy \in SUBSET T!LegacyHooks
    BY <1>1, <2>1, <2>2
  <2> QED
    BY <2>3, FilesAssumption DEF T!Readable
<1>6. TxType(t)
  <2>1. t.at \in Steps
    BY <1>2, <1>4, HooksAre DEF Steps, Writes
  <2> QED
    BY <1>0, <1>1, <1>5, <2>1 DEF TxType
<1>7. T!CheckpointsAreWhole(t)
  BY <1>0, <1>1, <1>3, <1>6, WholeMeans DEF TxInv
<1>8. TxPlan(t)
  BY <1>1, <1>4 DEF TxPlan, TxInv
<1>9. TxShot(t)
  BY <1>4 DEF TxShot
<1>10. TxEarly(t)
  <2> SUFFICES ASSUME Early(t.at) PROVE TxEarly(t)
    BY DEF TxEarly
  <2>1. x \in {"preflight", "architect"}
    BY <1>2, <1>4 DEF Early
  <2>2. Early(s.at) /\ s.at # <<"boot", "preflight">> /\ t.at # <<"boot", "preflight">>
    BY <1>2, <1>4, <2>1 DEF Early
  <2> QED
    BY <1>1, <1>3, <2>2 DEF TxEarly, TxInv
<1>11. TxDisk(t)
  <2>1. CASE x = "executor"
    <3>1. s.disk.review \notin Judged /\ s.disk.executor
      BY <1>2, <2>1 DEF TxInv, TxDisk, Settled, Executed
    <3> QED
      BY <1>1, <1>4, <2>1, <3>1 DEF TxDisk, Writes
  <2>2. CASE x # "executor"
    BY <1>1, <1>2, <1>4, <2>2 DEF TxDisk, Executed, Writes, TxInv, Settled
  <2> QED
    BY <2>1, <2>2
<1>12. ~(T!Readable(t.contract) /\ t.contract.status = "completed")
  BY <1>1, <1>2 DEF TxEnd, TxInv, T!Rest
<1>13. TxEnd(t)
  BY <1>2, <1>4, <1>12 DEF TxEnd
<1>14. TxRest(t)
  BY <1>4 DEF TxRest, T!Rest
<1>15. TxSeams(t)
  <2>1. Len(Done(s)) + 1 \in s.seams => x \in {"review", "correction"}
    BY <1>2 DEF TxInv, TxSeams, TakesOver, T!Rest
  <2>2. Len(Done(s)) + 1 \in s.seams => TakesOver(t.at)
    BY <1>4, <2>1 DEF TakesOver
  <2> QED
    BY <1>1, <1>3, <1>4, <2>2 DEF TxSeams, TxInv
<1>16. TxTold(t)
  BY <1>1, <1>3 DEF TxTold, TxInv
<1>17. TxWhole(t)
  <2> SUFFICES ASSUME s.whole, s.seams = {} PROVE TxWhole(t)
    BY <1>1 DEF TxWhole
  <2>1. /\ Legal(Done(s)) /\ Follows(Done(s), Upcoming(s.at))
        /\ \A i \in DOMAIN Done(s) :
             Done(s)[i].hook \in T!LegacyHooks =>
               InLegacy(s, Done(s)[i].hook) \/ (Done(s)[i].hook = "executor" /\ Owed(s.at))
    BY <1>2 DEF TxWhole, TxInv
  <2>2. Upcoming(t.at) = Upcoming(s.at)
    BY <1>2, <1>4 DEF Upcoming
  <2>3. InLegacy(t, x) /\ \A h : InLegacy(s, h) => InLegacy(t, h)
    BY <1>1, <1>5 DEF InLegacy
  <2>4. Owed(s.at) => x = "executor"
    BY <1>2 DEF Owed
  <2>5. \A i \in DOMAIN Done(s) :
          Done(s)[i].hook \in T!LegacyHooks => InLegacy(t, Done(s)[i].hook)
    BY <2>1, <2>3, <2>4
  <2>6. t.at[1] \in Writes => t.at[2] = x
    BY <1>4 DEF Writes
  <2>7. t.at[2] # "completed"
    BY <1>2, <1>4
  <2> QED
    BY <1>3, <1>12, <2>1, <2>2, <2>3, <2>5, <2>6, <2>7 DEF TxWhole
<1> QED
  BY <1>6, <1>7, <1>8, <1>9, <1>10, <1>11, <1>13, <1>14, <1>15, <1>16, <1>17 DEF TxInv

LEMMA DecideKeeps ==
  ASSUME NEW s, TxInv(s), s.at[1] = "decide", NEW t \in T!Perform(s)
  PROVE  TxInv(t)
<1>0. TxType(s)
  BY DEF TxInv
<1>1. s.at = <<"decide", "review">>
  BY <1>0, StepKinds DEF TxType
<1>2. s.disk.review # "none" /\ s.disk.executor /\ T!Readable(s.contract)
  BY <1>1 DEF TxInv, TxDisk, TxEnd, Executed
<1>3. /\ DOMAIN t = DOMAIN s
      /\ t.contract = s.contract /\ t.snaps = s.snaps /\ t.disk = s.disk /\ t.killed = s.killed
      /\ t.legacy = s.legacy /\ t.seams = s.seams /\ t.whole = s.whole
  BY <1>0, <1>2, DoDecide DEF TxType, Only
<1>4. \/ s.disk.review = "approved" /\ t.at = <<"bind", "knowledge">>
      \/ s.disk.review = "blocked" /\ t.at = <<"finish", "partial">>
      \/ s.disk.review = "stuck" /\ t.at = <<"finish", "failed">>
      \/ s.disk.review = "rejected" /\ t.at = <<"finish", "partial">>
      \/ s.disk.review = "rejected" /\ t.at = <<"run", "correction">>
  BY <1>0, <1>2, DoDecide
<1>5. T!Doc(t) = T!Doc(s) /\ Done(t) = Done(s)
  BY <1>0, <1>3, SameContract
<1>6. TxType(t)
  <2>1. t.at \in Steps
    BY <1>4, HooksAre DEF Steps, Writes
  <2> QED
    BY <1>0, <1>3, <2>1 DEF TxType
<1>7. T!CheckpointsAreWhole(t)
  BY <1>0, <1>3, <1>5, <1>6, WholeMeans DEF TxInv
<1>8. TxPlan(t)
  BY <1>3, <1>4 DEF TxPlan, TxInv
<1>9. TxShot(t)
  BY <1>4 DEF TxShot
<1>10. TxEarly(t)
  BY <1>4 DEF TxEarly, Early
<1>11. TxDisk(t)
  BY <1>2, <1>3, <1>4 DEF TxDisk, Settled, Judged
<1>12. ~(T!Readable(t.contract) /\ t.contract.status = "completed")
  BY <1>1, <1>3 DEF TxEnd, TxInv, T!Rest
<1>13. TxEnd(t)
  BY <1>2, <1>3, <1>4, <1>12 DEF TxEnd, Approved
<1>14. TxRest(t)
  BY <1>4 DEF TxRest, T!Rest
<1>15. TxSeams(t)
  <2>1. Len(Done(s)) + 1 \notin s.seams
    BY <1>1 DEF TxInv, TxSeams, TakesOver, T!Rest
  <2> QED
    BY <1>3, <1>4, <1>5, <2>1 DEF TxSeams, TxInv
<1>16. TxTold(t)
  BY <1>3, <1>5 DEF TxTold, TxInv
<1>17. TxWhole(t)
  <2> SUFFICES ASSUME s.whole, s.seams = {} PROVE TxWhole(t)
    BY <1>3 DEF TxWhole
  <2>1. /\ Legal(Done(s)) /\ Follows(Done(s), "knowledge")
        /\ \A i \in DOMAIN Done(s) :
             Done(s)[i].hook \in T!LegacyHooks => InLegacy(s, Done(s)[i].hook)
    BY <1>1 DEF TxWhole, TxInv, Upcoming, Owed
  <2>2. Follows(Done(s), "correction")
    <3> DEFINE h == Done(s)[Len(Done(s))].hook
    <3>1. Done(s) # <<>> /\ "knowledge" \in T!HookTransitions[h]
      BY <2>1 DEF Follows, T!HookTransitions
    <3>2. Len(Done(s)) \in DOMAIN Done(s)
      BY <1>0, <3>1, DocTyped, EmptySeq
    <3>3. h \in Hooks
      BY <1>0, <3>2, DocTyped DEF Checkpoints
    <3> HIDE DEF h
    <3>4. h = "review"
      BY <3>1, <3>3, HooksAre DEF T!HookTransitions
    <3>5. "correction" \in T!HookTransitions[h]
      BY <3>4 DEF T!HookTransitions
    <3> QED
      BY <3>1, <3>5 DEF Follows, h
  <2>3. t.at[1] # "finish" => Follows(Done(s), Upcoming(t.at))
    BY <1>4, <2>1, <2>2 DEF Upcoming
  <2>4. \A h : InLegacy(s, h) => InLegacy(t, h)
    BY <1>3 DEF InLegacy
  <2>5. t.at[1] \in Writes => t.at[2] \notin T!LegacyHooks
    BY <1>4 DEF T!LegacyHooks, Writes
  <2>6. t.at[2] # "completed"
    BY <1>4
  <2> QED
    BY <1>5, <1>12, <2>1, <2>3, <2>4, <2>5, <2>6 DEF TxWhole
<1> QED
  BY <1>6, <1>7, <1>8, <1>9, <1>10, <1>11, <1>13, <1>14, <1>15, <1>16, <1>17 DEF TxInv

LEMMA FinishKeeps ==
  ASSUME NEW s, TxInv(s), s.at[1] = "finish", NEW t \in T!Perform(s)
  PROVE  TxInv(t)
<1> DEFINE x == s.at[2]
<1>0. TxType(s)
  BY DEF TxInv
<1>1. /\ DOMAIN t = DOMAIN s
      /\ t.snaps = s.snaps /\ t.legacy = s.legacy /\ t.disk = s.disk /\ t.killed = s.killed
      /\ t.seams = s.seams /\ t.whole = s.whole
      /\ t.at = T!Rest
      /\ t.contract = IF T!Readable(s.contract) \/ x = "failed"
                      THEN [T!Analysed(s, T!Doc(s)) EXCEPT !.status = x] ELSE s.contract
  BY <1>0, DoFinish DEF TxType, Only
<1>2. s.at = <<"finish", x>> /\ x \in {"completed", "partial", "failed"}
  BY <1>0, StepKinds DEF TxType
<1>3. /\ T!Analysed(s, T!Doc(s)) \in Contracts
      /\ T!Analysed(s, T!Doc(s)).plan = T!Doc(s).plan
      /\ T!Analysed(s, T!Doc(s)).checkpoints = Done(s)
      /\ T!Analysed(s, T!Doc(s)).continuous = T!Doc(s).continuous
      /\ T!Analysed(s, T!Doc(s)).resumable = (T!AssessResume(s.disk) # Null)
  BY <1>0, DocTyped, AnalysedKeeps DEF Done
<1>4. T!Readable(s.contract) \/ x = "failed"
  BY <1>2 DEF TxInv, TxEnd
<1> HIDE DEF x
<1>5. /\ t.contract \in Contracts /\ T!Readable(t.contract)
      /\ t.contract.status = x /\ t.contract.plan = T!Doc(s).plan
      /\ t.contract.continuous = T!Doc(s).continuous
      /\ t.contract.resumable = (T!AssessResume(s.disk) # Null)
      /\ Done(t) = Done(s)
  <2>1. t.contract = [T!Analysed(s, T!Doc(s)) EXCEPT !.status = x]
    BY <1>1, <1>4
  <2>2. /\ t.contract \in Contracts /\ t.contract.status = x
        /\ t.contract.plan = T!Doc(s).plan /\ t.contract.checkpoints = Done(s)
        /\ t.contract.continuous = T!Doc(s).continuous
        /\ t.contract.resumable = (T!AssessResume(s.disk) # Null)
    BY <1>2, <1>3, <2>1 DEF Contracts
  <2>3. T!Readable(t.contract)
    BY <2>2, FilesAssumption DEF T!Readable
  <2> QED
    BY <2>2, <2>3 DEF Done, T!Doc
<1>6. TxType(t)
  <2>1. t.at \in Steps
    BY <1>1 DEF Steps
  <2> QED
    BY <1>0, <1>1, <1>5, <2>1 DEF TxType
<1>7. T!CheckpointsAreWhole(t)
  BY <1>0, <1>1, <1>5, <1>6, WholeMeans DEF TxInv
<1>8. TxPlan(t)
  <2>1. T!Doc(s).plan => s.disk.plan
    <3>1. CASE T!Readable(s.contract)
      BY <3>1 DEF TxInv, TxPlan, T!Doc
    <3>2. CASE ~T!Readable(s.contract)
      BY <1>0, <3>2, DocTyped
    <3> QED
      BY <3>1, <3>2
  <2> QED
    BY <1>1, <1>5, <2>1 DEF TxPlan, T!Rest
<1>9. TxShot(t)
  BY <1>1 DEF TxShot, T!Rest
<1>10. TxEarly(t)
  BY <1>1 DEF TxEarly, Early, T!Rest
<1>11. TxDisk(t)
  BY <1>1 DEF TxDisk, Executed, Settled, T!Rest, TxInv
<1>12. x = "completed" <=> Approved(s)
  BY <1>2 DEF TxInv, TxEnd
<1>13. x = "completed" => Done(s) # <<>> /\ Done(s)[Len(Done(s))].hook = "knowledge"
  BY <1>2 DEF TxInv, TxEnd
<1>14. Approved(t) <=> Approved(s)
  BY <1>1 DEF Approved
<1>15. TxEnd(t)
  BY <1>1, <1>5, <1>12, <1>13, <1>14 DEF TxEnd, T!Rest
<1>16. TxRest(t)
  BY <1>1, <1>2, <1>5, <1>12, <1>14 DEF TxRest
<1>17. TxSeams(t)
  BY <1>1, <1>5 DEF TxSeams, TakesOver, TxInv, T!Rest
<1>18. TxTold(t)
  <2>1. CASE T!Readable(s.contract)
    BY <1>5, <2>1 DEF TxInv, TxTold, T!Doc
  <2>2. CASE ~T!Readable(s.contract)
    BY <1>0, <1>5, <2>2, DocTyped DEF TxTold, Legal
  <2> QED
    BY <2>1, <2>2
<1>19. TxWhole(t)
  <2> SUFFICES ASSUME s.whole, s.seams = {}, x = "completed" PROVE t.contract.continuous
    BY <1>1, <1>5 DEF TxWhole, T!Rest
  <2>1. s.contract.continuous
    BY <1>2 DEF TxInv, TxWhole
  <2>2. T!Readable(s.contract)
    BY <1>4
  <2> QED
    BY <1>5, <2>1, <2>2 DEF T!Doc
<1> QED
  BY <1>6, <1>7, <1>8, <1>9, <1>10, <1>11, <1>15, <1>16, <1>17, <1>18, <1>19 DEF TxInv

LEMMA RunKeeps ==
  ASSUME NEW s, TxInv(s), s.at[1] = "run", NEW t \in T!Perform(s)
  PROVE  TxInv(t)
<1> DEFINE x == s.at[2]
<1>0. TxType(s)
  BY DEF TxInv
<1>1. /\ DOMAIN t = DOMAIN s
      /\ t.contract = s.contract /\ t.snaps = s.snaps /\ t.legacy = s.legacy /\ t.killed = s.killed
      /\ t.seams = s.seams /\ t.whole = s.whole /\ t.disk \in Disks
  BY <1>0, DoRun DEF TxType, Only
<1>2. /\ x # "plan" => t.disk.plan = s.disk.plan
      /\ x # "executor" => t.disk.executor = s.disk.executor
      /\ x = "executor" => t.disk.executor \/ t.at = <<"finish", "failed">>
      /\ x # "review" => t.disk.review = s.disk.review
      /\ x = "review" => \/ t.disk.review # "none" /\ t.at = T!AfterStage("review")
                         \/ t.disk.review = s.disk.review /\ t.at = <<"finish", "failed">>
  BY <1>0, DoRun
<1>3. s.at = <<"run", x>> /\ x \in {"architect", "plan", "executor", "validation", "risk", "review", "correction"}
  BY <1>0, StepKinds DEF TxType
<1>4. \/ t.at = <<"legacy", x>> /\ x \in {"architect", "review", "correction"}
      \/ t.at = <<"bind", x>> /\ x \in {"plan", "executor", "validation", "risk"}
      \/ t.at = <<"finish", "failed">> /\ x # "plan"
      \/ t.at = <<"finish", "partial">> /\ x = "architect"
  BY <1>0, <1>3, DoRun DEF T!AfterStage
<1>5. Done(t) = Done(s)
  <2>1. CASE T!Readable(s.contract)
    BY <1>1, <2>1 DEF Done, T!Doc
  <2>2. CASE ~T!Readable(s.contract)
    BY <1>1, <2>2 DEF Done, T!Doc, T!EmptyContract
  <2> QED
    BY <2>1, <2>2
<1> HIDE DEF x
<1>6. TxType(t)
  <2>1. t.at \in Steps
    BY <1>3, <1>4, HooksAre DEF Steps, Writes, T!LegacyHooks
  <2> QED
    BY <1>0, <1>1, <2>1 DEF TxType
<1>7. x = "plan" => /\ ~s.disk.plan
                    /\ \A i \in DOMAIN Done(s) : Done(s)[i].hook \in {"preflight", "architect"}
  BY <1>3 DEF TxInv, TxEarly, Early
<1>8. T!CheckpointsAreWhole(t)
  <2>1. \A i \in DOMAIN Done(s) :
          /\ Done(s)[i].seq = i /\ Done(s)[i] \in s.snaps
          /\ Done(s)[i].hook \notin {"preflight", "architect"} => Done(s)[i].plan = s.disk.plan
    BY <1>0, WholeMeans DEF TxInv
  <2>2. \A i \in DOMAIN Done(s) :
          Done(s)[i].hook \notin {"preflight", "architect"} => Done(s)[i].plan = t.disk.plan
    BY <1>2, <1>7, <2>1
  <2> QED
    BY <1>1, <1>5, <1>6, <2>1, <2>2, WholeMeans
<1>9. TxPlan(t)
  <2>1. T!Readable(s.contract) /\ s.contract.plan => s.disk.plan
    BY DEF TxInv, TxPlan
  <2>2. T!Readable(t.contract) /\ t.contract.plan => t.disk.plan
    BY <1>1, <1>2, <1>7, <2>1
  <2> QED
    BY <1>4, <2>2 DEF TxPlan
<1>10. TxShot(t)
  BY <1>4 DEF TxShot
<1>11. TxEarly(t)
  <2> SUFFICES ASSUME Early(t.at) PROVE TxEarly(t)
    BY DEF TxEarly
  <2>1. x = "architect"
    BY <1>3, <1>4 DEF Early
  <2>2. Early(s.at) /\ s.at # <<"boot", "preflight">> /\ t.at # <<"boot", "preflight">>
    BY <1>3, <1>4, <2>1 DEF Early
  <2>3. /\ ~s.disk.plan /\ ~s.disk.executor /\ s.seams = {} /\ T!Readable(s.contract)
        /\ \A i \in DOMAIN Done(s) : Done(s)[i].hook \in {"preflight", "architect"}
    BY <2>2 DEF TxEarly, TxInv
  <2> QED
    BY <1>1, <1>2, <1>5, <2>1, <2>2, <2>3 DEF TxEarly
<1>12. s.disk.review \notin Judged
  BY <1>3 DEF TxInv, TxDisk, Settled, Writes
<1>13. x \in {"validation", "risk", "review", "correction"} => s.disk.executor
  BY <1>3 DEF TxInv, TxDisk, Executed
<1>14. TxDisk(t)
  <2>1. t.disk.review \in Judged => x = "review" /\ t.at = <<"legacy", "review">>
    BY <1>2, <1>12 DEF T!AfterStage
  <2>2. t.disk.review \in Judged => Settled(t.at) /\ t.disk.executor
    BY <1>2, <1>13, <2>1 DEF Settled
  <2>3. Executed(t.at) => t.disk.executor
    BY <1>2, <1>3, <1>4, <1>13 DEF Executed, Writes
  <2>4. t.at[2] = "review" /\ t.at[1] \in Writes \cup {"legacy", "decide"} => t.disk.review # "none"
    BY <1>2, <1>4 DEF Writes
  <2> QED
    BY <2>2, <2>3, <2>4 DEF TxDisk
<1>15. ~(T!Readable(t.contract) /\ t.contract.status = "completed")
  BY <1>1, <1>3 DEF TxEnd, TxInv, T!Rest
<1>16. TxEnd(t)
  <2>1. t.at[1] # "decide" /\ t.at[2] \notin {"knowledge", "completed"}
    BY <1>3, <1>4
  <2>2. t.at[1] = "finish" => t.at[2] = "failed" \/ T!Readable(t.contract)
    <3>1. x = "architect" => T!Readable(s.contract)
      BY <1>3 DEF TxInv, TxEarly, Early
    <3> QED
      BY <1>1, <1>4, <3>1
  <2>3. t.at[1] = "finish" => ~Approved(t)
    BY <1>2, <1>12 DEF Approved, T!AfterStage, Judged
  <2> QED
    BY <1>15, <2>1, <2>2, <2>3 DEF TxEnd
<1>17. TxRest(t)
  BY <1>4 DEF TxRest, T!Rest
<1>18. TxSeams(t)
  <2>1. Len(Done(s)) + 1 \in s.seams => x \in {"executor", "review", "correction"}
    BY <1>3 DEF TxInv, TxSeams, TakesOver, T!Rest
  <2>2. Len(Done(s)) + 1 \in s.seams => TakesOver(t.at)
    <3> SUFFICES ASSUME x \in {"executor", "review", "correction"} PROVE TakesOver(t.at)
      BY <2>1
    <3>1. CASE t.at = <<"legacy", x>> /\ x # "executor"
      BY <3>1 DEF TakesOver
    <3>2. CASE t.at = <<"bind", x>>
      BY <3>2 DEF TakesOver
    <3>3. CASE t.at = <<"finish", "failed">>
      BY <3>3 DEF TakesOver
    <3> QED
      BY <1>4, <3>1, <3>2, <3>3
  <2> QED
    BY <1>1, <1>4, <1>5, <2>2 DEF TxSeams, TxInv
<1>19. TxTold(t)
  BY <1>1, <1>5 DEF TxTold, TxInv
<1>20. TxWhole(t)
  <2> SUFFICES ASSUME s.whole, s.seams = {} PROVE TxWhole(t)
    BY <1>1 DEF TxWhole
  <2>1. /\ Legal(Done(s)) /\ Follows(Done(s), x)
        /\ \A i \in DOMAIN Done(s) :
             Done(s)[i].hook \in T!LegacyHooks =>
               InLegacy(s, Done(s)[i].hook) \/ (Done(s)[i].hook = "executor" /\ Owed(s.at))
    BY <1>3 DEF TxWhole, TxInv, Upcoming
  <2>2. t.at[1] # "finish" => Upcoming(t.at) = x /\ (Owed(s.at) => Owed(t.at))
    BY <1>3, <1>4 DEF Upcoming, Owed
  <2>3. \A h : InLegacy(t, h) <=> InLegacy(s, h)
    BY <1>1 DEF InLegacy
  <2>4. t.at[1] \in Writes => t.at[2] \notin T!LegacyHooks \ {"executor"}
    BY <1>4 DEF Writes, T!LegacyHooks
  <2>5. t.at[2] # "completed"
    BY <1>3, <1>4
  <2> QED
    BY <1>5, <1>15, <2>1, <2>2, <2>3, <2>4, <2>5 DEF TxWhole
<1> QED
  BY <1>6, <1>8, <1>9, <1>10, <1>11, <1>14, <1>16, <1>17, <1>18, <1>19, <1>20 DEF TxInv

LEMMA KillKeeps ==
  ASSUME NEW s, TxInv(s), s.at # T!Rest, NEW t \in T!Kill(s)
  PROVE  TxInv(t)
<1>0. TxType(s)
  BY DEF TxInv
<1> DEFINE dead == [s EXCEPT !.at = T!Rest, !.killed = TRUE]
<1>1. /\ DOMAIN t = DOMAIN s
      /\ t.snaps = s.snaps /\ t.disk = s.disk /\ t.killed /\ t.at = T!Rest
      /\ \/ t.contract = s.contract /\ t.seams = s.seams /\ t.legacy = s.legacy /\ t.whole = s.whole
         \/ t.contract = s.contract /\ t.seams = s.seams /\ t.legacy = Torn /\ ~t.whole
         \/ t.contract = Torn /\ t.seams = {} /\ t.legacy = s.legacy /\ ~t.whole
  <2>1. \/ t = dead
        \/ t = [dead EXCEPT !.contract = Torn, !.seams = {}, !.whole = FALSE]
        \/ t = [dead EXCEPT !.legacy = Torn, !.whole = FALSE]
    BY DEF T!Kill
  <2>2. CASE t = dead
    BY <1>0, <2>2 DEF TxType
  <2>3. CASE t = [dead EXCEPT !.contract = Torn, !.seams = {}, !.whole = FALSE]
    BY <1>0, <2>3 DEF TxType
  <2>4. CASE t = [dead EXCEPT !.legacy = Torn, !.whole = FALSE]
    BY <1>0, <2>4 DEF TxType
  <2> QED
    BY <2>1, <2>2, <2>3, <2>4
<1> HIDE DEF dead
<1>2. TxType(t)
  <2>1. t.at \in Steps
    BY <1>1 DEF Steps
  <2> QED
    BY <1>0, <1>1, <2>1 DEF TxType
<1>3. t.contract = s.contract => T!Doc(t) = T!Doc(s) /\ Done(t) = Done(s)
  BY <1>0, <1>1, SameContract
<1>4. t.contract = Torn => ~T!Readable(t.contract) /\ Done(t) = <<>>
  BY <1>2, DocTyped DEF T!Readable
<1>5. T!CheckpointsAreWhole(t)
  <2>1. CASE t.contract = s.contract
    BY <1>0, <1>1, <1>2, <1>3, <2>1, WholeMeans DEF TxInv
  <2>2. CASE t.contract = Torn
    BY <1>4, <2>2 DEF T!CheckpointsAreWhole
  <2> QED
    BY <1>1, <2>1, <2>2
<1>6. TxPlan(t)
  BY <1>1, <1>4 DEF TxPlan, TxInv, T!Rest
<1>7. TxShot(t)
  BY <1>1 DEF TxShot, T!Rest
<1>8. TxEarly(t)
  BY <1>1 DEF TxEarly, Early, T!Rest
<1>9. TxDisk(t)
  BY <1>1 DEF TxDisk, Executed, Settled, T!Rest, TxInv
<1>10. ~(T!Readable(t.contract) /\ t.contract.status = "completed")
  BY <1>1, <1>4 DEF TxInv, TxEnd
<1>11. TxEnd(t)
  BY <1>1, <1>10 DEF TxEnd, T!Rest
<1>12. TxRest(t)
  BY <1>1 DEF TxRest
<1>13. TxSeams(t)
  <2>1. CASE t.contract = s.contract /\ t.seams = s.seams
    BY <1>1, <1>3, <2>1 DEF TxSeams, TakesOver, TxInv, T!Rest
  <2>2. CASE t.seams = {}
    BY <1>1, <2>2 DEF TxSeams, T!Rest
  <2> QED
    BY <1>1, <2>1, <2>2
<1>14. TxTold(t)
  BY <1>1, <1>3, <1>4 DEF TxTold, TxInv
<1>15. TxWhole(t)
  BY <1>1, <1>10 DEF TxWhole, T!Rest
<1> QED
  BY <1>2, <1>5, <1>6, <1>7, <1>8, <1>9, <1>11, <1>12, <1>13, <1>14, <1>15 DEF TxInv

LEMMA ResumeKeeps ==
  ASSUME NEW s, TxInv(s), s.at = T!Rest, NEW t \in T!ResumeRun(s)
  PROVE  TxInv(t)
<1> DEFINE x == T!AssessResume(s.disk)
           n == Len(Done(s)) + 1
<1>0. TxType(s)
  BY DEF TxInv
<1>1. /\ x # Null
      /\ DOMAIN t = DOMAIN s
      /\ t.contract = s.contract /\ t.snaps = s.snaps /\ t.legacy = s.legacy /\ t.disk = s.disk
      /\ t.whole = s.whole
      /\ t.at = <<"boot", x>> /\ t.seams = s.seams \cup {n}
  BY <1>0 DEF T!ResumeRun, TxType, Done
<1>2. /\ x \in {"executor", "review", "correction"}
      /\ x \in {"review", "correction"} => s.disk.executor
      /\ ~(s.disk.executor /\ s.disk.review \in Judged)
  <2>1. s.disk.executor \in BOOLEAN /\ s.disk.review \in {"none", "rejected"} \cup Judged
    BY <1>0 DEF TxType, Disks
  <2>2. CASE ~s.disk.executor
    BY <1>1, <2>2 DEF T!AssessResume
  <2>3. CASE s.disk.executor /\ s.disk.review = "none"
    BY <1>1, <2>3 DEF T!AssessResume, Judged
  <2>4. CASE s.disk.executor /\ s.disk.review = "rejected"
    BY <1>1, <2>4 DEF T!AssessResume, Judged
  <2>5. CASE s.disk.executor /\ s.disk.review \in Judged
    BY <1>1, <2>5 DEF T!AssessResume, Judged
  <2> QED
    BY <2>1, <2>2, <2>3, <2>4, <2>5
<1>3. T!Doc(t) = T!Doc(s) /\ Done(t) = Done(s)
  BY <1>0, <1>1, SameContract
<1>4. n - 1 \in Nat /\ n - 1 = Len(Done(s)) /\ DOMAIN Done(s) = 1..(n - 1)
  BY <1>0, DocTyped
<1> HIDE DEF x, n
<1>5. TxType(t)
  <2>1. t.at \in Steps
    BY <1>1, <1>2 DEF Steps
  <2> QED
    BY <1>0, <1>1, <2>1 DEF TxType
<1>6. T!CheckpointsAreWhole(t)
  BY <1>0, <1>1, <1>3, <1>5, WholeMeans DEF TxInv
<1>7. TxPlan(t)
  BY <1>1 DEF TxPlan, TxInv
<1>8. TxShot(t)
  BY <1>1 DEF TxShot
<1>9. TxEarly(t)
  BY <1>1, <1>2 DEF TxEarly, Early
<1>10. s.disk.review \notin Judged
  BY <1>2 DEF TxInv, TxDisk
<1>11. TxDisk(t)
  BY <1>1, <1>2, <1>10 DEF TxDisk, Executed, Writes
<1>12. ~(T!Readable(t.contract) /\ t.contract.status = "completed")
  BY <1>1, <1>2, <1>10 DEF TxInv, TxEnd, Approved, Judged
<1>13. TxEnd(t)
  BY <1>1, <1>2, <1>12 DEF TxEnd
<1>14. TxRest(t)
  BY <1>1 DEF TxRest, T!Rest
<1>15. TxSeams(t)
  <2>1. s.seams \subseteq 1..n
        /\ \A p \in s.seams \cap DOMAIN Done(s) : Done(s)[p].hook \in {"executor", "review", "correction"}
    BY DEF TxInv, TxSeams, n
  <2>2. t.seams \subseteq 1..(Len(Done(s)) + 1)
    <3>1. n = Len(Done(s)) + 1 /\ Len(Done(s)) \in Nat
      BY <1>0, DocTyped DEF n
    <3> QED
      BY <1>1, <2>1, <3>1
  <2>3. t.seams \cap DOMAIN Done(s) = s.seams \cap DOMAIN Done(s)
    BY <1>1, <1>4
  <2>4. TakesOver(t.at) /\ t.seams # {}
    BY <1>1, <1>2 DEF TakesOver
  <2> QED
    BY <1>3, <2>1, <2>2, <2>3, <2>4 DEF TxSeams
<1>16. TxTold(t)
  BY <1>1, <1>3 DEF TxTold, TxInv
<1>17. TxWhole(t)
  BY <1>1 DEF TxWhole
<1> QED
  BY <1>5, <1>6, <1>7, <1>8, <1>9, <1>11, <1>13, <1>14, <1>15, <1>16, <1>17 DEF TxInv

LEMMA TxStep ==
  ASSUME NEW s, TxInv(s), NEW t \in T!Successors(s)
  PROVE  TxInv(t)
<1>1. CASE s.at = T!Rest
  BY <1>1, ResumeKeeps DEF T!Successors
<1>2. CASE s.at # T!Rest
  <2>1. CASE t \in T!Kill(s)
    BY <1>2, <2>1, KillKeeps
  <2>2. CASE t \in T!Perform(s)
    <3>1. s.at[1] \in {"boot", "run", "legacy", "decide", "finish"} \cup Writes
      BY <1>2, StepKinds DEF TxInv, TxType
    <3> QED
      BY <2>2, <3>1, BootKeeps, RunKeeps, LegacyKeeps, DecideKeeps, FinishKeeps, BindKeeps,
         SnapshotKeeps, CommitKeeps DEF Writes
  <2> QED
    BY <1>2, <2>1, <2>2 DEF T!Successors
<1> QED
  BY <1>1, <1>2

LEMMA TxBegin == TxInv(T!Begin)
<1> DEFINE b == T!Begin
<1>1. /\ DOMAIN b = {"contract", "snaps", "legacy", "disk", "at", "killed", "commands", "corrections",
                     "seams", "whole"}
      /\ b.contract = Null /\ b.snaps = {} /\ b.legacy = Null /\ b.at = <<"boot", "preflight">>
      /\ b.seams = {} /\ b.whole
      /\ b.disk \in Disks /\ ~b.disk.plan /\ ~b.disk.executor /\ b.disk.review = "none"
  BY DEF T!Begin, Disks
<1> HIDE DEF b
<1>2. TxType(b)
  <2>1. b.at \in Steps
    BY <1>1 DEF Steps
  <2> QED
    BY <1>1, <2>1 DEF TxType
<1>3. ~T!Readable(b.contract) /\ Done(b) = <<>>
  BY <1>1, <1>2, DocTyped DEF T!Readable
<1>4. TxPlan(b) /\ TxShot(b) /\ TxTold(b) /\ T!CheckpointsAreWhole(b)
  BY <1>1, <1>3 DEF TxPlan, TxShot, TxTold, T!CheckpointsAreWhole
<1>5. TxEarly(b)
  BY <1>1, <1>3 DEF TxEarly
<1>6. TxDisk(b) /\ TxEnd(b) /\ TxRest(b)
  BY <1>1, <1>3 DEF TxDisk, TxEnd, TxRest, Executed, Judged, Writes, T!Rest
<1>7. TxSeams(b)
  BY <1>1 DEF TxSeams
<1>8. TxWhole(b)
  BY <1>1, <1>3 DEF TxWhole, Legal, Follows, Upcoming, Writes, T!HookTransitions
<1> QED
  BY <1>2, <1>4, <1>5, <1>6, <1>7, <1>8 DEF TxInv, b

LEMMA TxSound ==
  ASSUME NEW s, TxInv(s)
  PROVE  T!TransactionSound(s)
<1>0. TxType(s)
  BY DEF TxInv
<1>1. T!CheckpointsAreWhole(s)
  BY DEF TxInv
<1>2. T!EndsAreOnRecord(s)
  <2>1. T!Readable(s.contract) => Done(s) = s.contract.checkpoints
    BY DEF Done, T!Doc
  <2> QED
    BY <2>1 DEF TxInv, TxRest, TxEnd, Approved, T!EndsAreOnRecord
<1>3. T!ContinuityIsTold(s)
  <2> SUFFICES ASSUME T!Readable(s.contract) PROVE T!ContinuityIsTold(s)
    BY DEF T!ContinuityIsTold
  <2> DEFINE c == s.contract.checkpoints
             hooks == T!HooksOf(s.contract)
             Pairs == {<<"architect", "executor">>, <<"plan", "executor">>,
                       <<"correction", "executor">>, <<"risk", "review">>,
                       <<"review", "correction">>}
  <2>1. c = Done(s) /\ c \in Seq(Checkpoints)
    BY <1>0, DocTyped DEF Done, T!Doc
  <2>2. DOMAIN hooks = DOMAIN c /\ \A i \in DOMAIN c : hooks[i] = c[i].hook
    BY <2>1, HooksTyped
  <2>3. DOMAIN c = 1..Len(c) /\ Len(c) \in Nat /\ \A i \in DOMAIN c : c[i].hook \in Hooks
    BY <1>0, <2>1, DocTyped DEF Checkpoints
  <2> HIDE DEF c, hooks, Pairs
  <2>4. ASSUME s.contract.continuous, NEW p \in s.seams \cap DOMAIN hooks
        PROVE  p > 1 /\ <<hooks[p - 1], hooks[p]>> \in Pairs
    <3>1. p \in DOMAIN c /\ c[p].hook \in {"executor", "review", "correction"}
      BY <2>1, <2>2, <2>4 DEF TxInv, TxSeams
    <3>2. c[p].hook \in T!HookTransitions[IF p = 1 THEN "start" ELSE c[p - 1].hook]
      BY <2>1, <2>4, <3>1 DEF TxInv, TxTold, Legal
    <3>3. p # 1
      BY <3>1, <3>2 DEF T!HookTransitions
    <3>4. p > 1 /\ p - 1 \in DOMAIN c
      BY <2>3, <3>1, <3>3
    <3> DEFINE h == c[p - 1].hook
               k == c[p].hook
    <3>5. h \in Hooks /\ k \in T!HookTransitions[h]
      BY <2>3, <3>2, <3>3, <3>4
    <3>6. hooks[p - 1] = h /\ hooks[p] = k
      BY <2>2, <3>1, <3>4
    <3> HIDE DEF h, k
    <3>7. <<h, k>> \in Pairs
      <4>1. k \in {"executor", "review", "correction"}
        BY <3>1 DEF k
      <4>2. CASE k = "executor"
        <5>1. h \in {"architect", "plan", "correction"}
          BY <3>5, <4>2, HooksAre DEF T!HookTransitions
        <5> QED
          BY <4>2, <5>1 DEF Pairs
      <4>3. CASE k = "review"
        <5>1. h = "risk"
          BY <3>5, <4>3, HooksAre DEF T!HookTransitions
        <5> QED
          BY <4>3, <5>1 DEF Pairs
      <4>4. CASE k = "correction"
        <5>1. h = "review"
          BY <3>5, <4>4, HooksAre DEF T!HookTransitions
        <5> QED
          BY <4>4, <5>1 DEF Pairs
      <4> QED
        BY <4>1, <4>2, <4>3, <4>4
    <3> QED
      BY <3>4, <3>6, <3>7
  <2>5. s.contract.status = "completed" /\ s.whole /\ s.seams = {} => s.contract.continuous
    BY DEF TxInv, TxWhole
  <2> QED
    BY <2>4, <2>5 DEF T!ContinuityIsTold, hooks, Pairs
<1> QED
  BY <1>1, <1>2, <1>3 DEF T!TransactionSound

-----------------------------------------------------------------------------
(* The counting of the gate.                                               *)
LEMMA StreakIsRepeats ==
  ASSUME NEW q, Len(q) \in Nat, NEW n, IsStreak(q, n), q # <<>>
  PROVE  C!Repeats(q) = n
<1> DEFINE R(m) == /\ \A i \in (Len(q) - m + 1)..Len(q) : q[i] = q[Len(q)]
                   /\ m < Len(q) => q[Len(q) - m] # q[Len(q)]
<1>1. n \in 1..Len(q) /\ R(n)
  BY DEF IsStreak
<1>2. C!Repeats(q) = CHOOSE m \in 1..Len(q) : R(m)
  BY DEF C!Repeats
<1>3. ASSUME NEW m \in 1..Len(q), NEW k \in 1..Len(q), R(m), R(k), m < k
      PROVE  FALSE
  <2>1. Len(q) - m \in (Len(q) - k + 1)..Len(q) /\ m < Len(q)
    BY <1>3
  <2> QED
    BY <1>3, <2>1
<1> HIDE DEF R
<1>4. \A m \in 1..Len(q) : R(m) => m = n
  BY <1>1, <1>3
<1>5. (CHOOSE m \in 1..Len(q) : R(m)) \in 1..Len(q) /\ R(CHOOSE m \in 1..Len(q) : R(m))
  BY <1>1
<1> QED
  BY <1>2, <1>4, <1>5

LEMMA NextStreak ==
  ASSUME NEW q \in Seq(Signatures), NEW sig \in Signatures, NEW memory \in Memories, Counts(memory, q),
         NEW next, next.last = sig, next.streak = C!ComputeNextStreakForGate(memory, sig)
  PROVE  Counts(next, Append(q, sig))
<1> DEFINE r == Append(q, sig)
           n == Len(q)
<1>1. /\ r \in Seq(Signatures) /\ Len(r) = n + 1 /\ r[n + 1] = sig
      /\ \A i \in 1..n : r[i] = q[i]
  BY AppendProperties
<1>2. n \in Nat /\ (q = <<>> <=> n = 0) /\ r # <<>> /\ memory.streak \in Nat
  BY <1>1, EmptySeq, LenProperties DEF Memories
<1>3. next.streak = IF memory.last = sig THEN memory.streak + 1 ELSE 1
  BY DEF C!ComputeNextStreakForGate
<1> HIDE DEF r, n
<1>4. CASE q = <<>>
  <2>1. next.streak = 1 /\ n = 0
    BY <1>2, <1>3, <1>4 DEF Counts
  <2>2. IsStreak(r, 1)
    BY <1>1, <2>1 DEF IsStreak
  <2> QED
    BY <1>1, <1>2, <2>1, <2>2 DEF Counts, r
<1>5. CASE q # <<>>
  <2>1. memory.last = q[n] /\ IsStreak(q, memory.streak) /\ n >= 1
    BY <1>2, <1>5 DEF Counts, n
  <2> DEFINE k == memory.streak
  <2>2. /\ k \in 1..n
        /\ \A i \in (n - k + 1)..n : q[i] = q[n]
        /\ k < n => q[n - k] # q[n]
    BY <2>1 DEF IsStreak, n
  <2> HIDE DEF k
  <2>3. CASE q[n] = sig
    <3>1. next.streak = k + 1
      BY <1>3, <2>1, <2>3 DEF k
    <3>2. \A i \in ((n + 1) - (k + 1) + 1)..(n + 1) : r[i] = r[n + 1]
      BY <1>1, <1>2, <2>2, <2>3
    <3>3. k + 1 < n + 1 => r[(n + 1) - (k + 1)] # r[n + 1]
      BY <1>1, <1>2, <2>2, <2>3
    <3>4. k + 1 \in 1..(n + 1)
      BY <1>2, <2>2
    <3>5. IsStreak(r, k + 1)
      BY <1>1, <3>2, <3>3, <3>4 DEF IsStreak
    <3> QED
      BY <1>1, <1>2, <3>1, <3>5 DEF Counts, r
  <2>4. CASE q[n] # sig
    <3>1. next.streak = 1
      BY <1>3, <2>1, <2>4
    <3>2. IsStreak(r, 1)
      BY <1>1, <1>2, <2>1, <2>4 DEF IsStreak
    <3> QED
      BY <1>1, <1>2, <3>1, <3>2 DEF Counts, r
  <2> QED
    BY <2>3, <2>4
<1> QED
  BY <1>4, <1>5

LEMMA MaxOfTwo ==
  ASSUME NEW a \in Int, NEW b \in Int
  PROVE  C!Max({a, b}) \in {a, b} /\ C!Max({a, b}) >= a /\ C!Max({a, b}) >= b
<1>1. \E x \in {a, b} : \A y \in {a, b} : x >= y
  <2>1. CASE a >= b
    BY <2>1
  <2>2. CASE b >= a
    BY <2>2
  <2> QED
    BY <2>1, <2>2
<1>2. C!Max({a, b}) \in {a, b} /\ \A y \in {a, b} : C!Max({a, b}) >= y
  BY <1>1 DEF C!Max
<1> QED
  BY <1>2

-----------------------------------------------------------------------------
(* What the writes of a correction leave.                                  *)
Nodes == [id : NodeIds, parent : {Null} \cup NodeIds]

LEMMA FreshTyped == C!Fresh \in Memories /\ C!Fresh.streak = 0
BY DEF C!Fresh, Memories

LEMMA LoadTyped ==
  ASSUME NEW s, CoType(s)
  PROVE  /\ C!LoadCorrectionMemory(s) \in Memories
         /\ s.memory # Torn => C!LoadCorrectionMemory(s) = s.memory
         /\ s.memory = Torn => C!LoadCorrectionMemory(s) = C!Fresh
         /\ C!LoadLineage(s) \in Seq(Nodes)
         /\ s.lineage # Torn => C!LoadLineage(s) = s.lineage
BY FreshTyped DEF C!LoadCorrectionMemory, C!LoadLineage, CoType, Lineages, Nodes

(* One node more, for the signature that is being treated.                 *)
Noded(s, t, outcome, to) ==
  /\ Only(s, t, {"at", "lineage"}) /\ t.at = to
  /\ t.lineage \in Lineages /\ t.lineage # Torn
  /\ \E node \in Nodes : /\ node.id = <<s.iterations, C!Signature(s.facts), outcome>>
                         /\ t.lineage = Append(C!LoadLineage(s), node)

LEMMA WroteLineage ==
  ASSUME NEW s, CoType(s), s.facts \in Troubles, NEW outcome \in {"generated", "suppressed"}, NEW to,
         NEW t, t = C!WriteLineage(s, outcome, to)
  PROVE  Noded(s, t, outcome, to)
<1> DEFINE chain == C!LoadLineage(s)
           node == [id |-> <<s.iterations, C!Signature(s.facts), outcome>>,
                    parent |-> IF chain = <<>> THEN Null ELSE chain[Len(chain)].id]
<1>1. chain \in Seq(Nodes)
  BY LoadTyped
<1>2. Only(s, t, {"at", "lineage"}) /\ t.at = to /\ t.lineage = Append(chain, node)
  BY DEF CoType, Only, C!WriteLineage
<1>3. node.id \in NodeIds
  BY DEF CoType, NodeIds, Signatures
<1>4. node.parent \in {Null} \cup NodeIds
  <2>1. CASE chain = <<>>
    BY <2>1
  <2>2. CASE chain # <<>>
    <3>1. Len(chain) \in 1..Len(chain) /\ DOMAIN chain = 1..Len(chain)
      BY <1>1, <2>2, EmptySeq, LenProperties
    <3>2. chain[Len(chain)] \in Nodes
      BY <1>1, <3>1, ElementOfSeq
    <3> QED
      BY <2>2, <3>2 DEF Nodes
  <2> QED
    BY <2>1, <2>2
<1>5. node \in Nodes
  <2> DEFINE i == <<s.iterations, C!Signature(s.facts), outcome>>
             p == IF chain = <<>> THEN Null ELSE chain[Len(chain)].id
  <2>1. i \in NodeIds /\ p \in {Null} \cup NodeIds /\ node = [id |-> i, parent |-> p]
    BY <1>3, <1>4
  <2> HIDE DEF i, p
  <2> QED
    BY <2>1 DEF Nodes
<1>6. t.lineage \in Lineages
  <2> HIDE DEF chain, node
  <2> QED
    BY <1>1, <1>2, <1>5, AppendProperties DEF Lineages, Nodes
<1>7. t.lineage # Torn
  BY <1>6, FilesAssumption
<1>8. node.id = <<s.iterations, C!Signature(s.facts), outcome>>
  OBVIOUS
<1> HIDE DEF node, chain
<1> QED
  BY <1>2, <1>5, <1>6, <1>7, <1>8 DEF chain, Noded

(* Sequence r has the n nodes of q, of different names, and then this one. *)
Grown(q, n, node, r) ==
  /\ n \in Nat /\ r[n + 1] = node
  /\ \A i \in 1..n : r[i] = q[i]
  /\ \A i \in 1..n : node.id # q[i].id
  /\ \A i, j \in 1..n : i # j => q[i].id # q[j].id

LEMMA NamesGrow ==
  ASSUME NEW n, NEW q, NEW r, NEW node, Grown(q, n, node, r)
  PROVE  \A i, j \in 1..(n + 1) : i # j => r[i].id # r[j].id
<1> SUFFICES ASSUME NEW i \in 1..(n + 1), NEW j \in 1..(n + 1), i # j PROVE r[i].id # r[j].id
  OBVIOUS
<1>1. CASE i \in 1..n /\ j \in 1..n
  BY <1>1 DEF Grown
<1>2. CASE i = n + 1 /\ j \in 1..n
  BY <1>2 DEF Grown
<1>3. CASE i \in 1..n /\ j = n + 1
  BY <1>3 DEF Grown
<1> QED
  BY <1>1, <1>2, <1>3 DEF Grown

(* The memory is written with one retry more.                              *)
Noted(s, t, memory, tag, to) ==
  /\ Only(s, t, {"at", "memory", "base"}) /\ t.at = to /\ t.base = C!Fresh
  /\ t.memory \in Memories /\ t.memory # Torn
  /\ t.memory.last = memory.last /\ t.memory.streak = memory.streak
  /\ t.memory.retries = Append(memory.retries, tag)

LEMMA WroteMemory ==
  ASSUME NEW s, CoType(s), NEW memory \in Memories, NEW tag \in {"made", "suppressed"}, NEW to,
         NEW t, t = C!WriteMemory(s, memory, tag, to)
  PROVE  Noted(s, t, memory, tag, to)
<1>1. /\ Only(s, t, {"at", "memory", "base"}) /\ t.at = to /\ t.base = C!Fresh
      /\ t.memory = [memory EXCEPT !.retries = Append(@, tag)]
  BY DEF CoType, Only, C!WriteMemory
<1>2. Append(memory.retries, tag) \in Seq({"made", "suppressed"})
  BY AppendProperties DEF Memories
<1>3. /\ t.memory \in Memories
      /\ t.memory.last = memory.last /\ t.memory.streak = memory.streak
      /\ t.memory.retries = Append(memory.retries, tag)
  BY <1>1, <1>2 DEF Memories
<1> QED
  BY <1>1, <1>3, FilesAssumption DEF Noted

LEMMA ReviewKeeps ==
  ASSUME NEW s, CoInv(s), s.at = "review", NEW t \in C!Perform(s, Troubles)
  PROVE  CoInv(t)
<1>0. CoType(s)
  BY DEF CoInv
<1>1. /\ Only(s, t, {"at", "facts"})
      /\ t.facts \in {Null} \cup Troubles /\ t.at \in {"approved", "stopped", "gate"}
      /\ t.at = "gate" => t.facts \in Troubles /\ s.iterations < s.cap
  <2>1. \/ t = [s EXCEPT !.at = "approved", !.facts = Null]
        \/ \E f \in Troubles :
             t = [s EXCEPT !.facts = f, !.at = IF s.iterations >= s.cap THEN "stopped" ELSE "gate"]
    BY DEF C!Perform, C!Review
  <2>2. CASE t = [s EXCEPT !.at = "approved", !.facts = Null]
    BY <1>0, <2>2 DEF CoType, Only
  <2>3. ASSUME NEW f \in Troubles,
               t = [s EXCEPT !.facts = f, !.at = IF s.iterations >= s.cap THEN "stopped" ELSE "gate"]
        PROVE  /\ Only(s, t, {"at", "facts"}) /\ t.facts \in Troubles
               /\ t.at = IF s.iterations >= s.cap THEN "stopped" ELSE "gate"
    BY <1>0, <2>3 DEF CoType, Only
  <2>4. s.iterations \in Int /\ s.cap \in Int
    BY <1>0 DEF CoType
  <2>5. s.iterations >= s.cap \/ s.iterations < s.cap
    BY <2>4
  <2>6. CASE \E f \in Troubles :
               t = [s EXCEPT !.facts = f, !.at = IF s.iterations >= s.cap THEN "stopped" ELSE "gate"]
    <3>1. /\ Only(s, t, {"at", "facts"}) /\ t.facts \in Troubles
          /\ t.at = IF s.iterations >= s.cap THEN "stopped" ELSE "gate"
      BY <2>3, <2>6
    <3> QED
      BY <2>5, <3>1
  <2> QED
    BY <2>1, <2>2, <2>6 DEF Only
<1>2. /\ DOMAIN t = DOMAIN s /\ t.mode = s.mode /\ t.threshold = s.threshold /\ t.cap = s.cap
      /\ t.memory = s.memory /\ t.lineage = s.lineage /\ t.analysis = s.analysis
      /\ t.iterations = s.iterations /\ t.instructions = s.instructions /\ t.base = s.base
      /\ t.resumes = s.resumes /\ t.gates = s.gates /\ t.made = s.made /\ t.gated = s.gated
  BY <1>0, <1>1 DEF CoType, Only
<1>3. CoType(t)
  BY <1>0, <1>1, <1>2 DEF CoType, Gated, Correcting, Resting
<1>4. CoStreak(t)
  BY <1>2 DEF CoInv, CoStreak
<1>5. CoGate(t)
  BY <1>1 DEF CoGate, Gated, Correcting
<1>6. CoLimits(t)
  BY <1>1, <1>2 DEF CoInv, CoLimits, Correcting
<1>7. CoStory(t)
  BY <1>1, <1>2 DEF CoInv, CoStory
<1>8. CoNames(t)
  <2>1. \/ s.resumes # 0
        \/ /\ \A i, j \in 1..Len(s.lineage) : i # j => s.lineage[i].id # s.lineage[j].id
           /\ \A i \in 1..Len(s.lineage) :
                s.lineage[i].id[1] <= s.iterations /\ s.lineage[i].id[3] = "generated"
           /\ s.mode # "off" => Len(s.lineage) >= Len(s.made) + 0
    BY DEF CoInv, CoNames, Correcting
  <2>2. t.at # "correct" /\ t.at \notin Correcting \ {"correct"}
    BY <1>1 DEF Correcting
  <2> QED
    BY <1>2, <2>1, <2>2, SMTT(40) DEF CoNames
<1>9. C!RefusalsAreTold(t)
  BY <1>2 DEF CoInv, C!RefusalsAreTold
<1> QED
  BY <1>3, <1>4, <1>5, <1>6, <1>7, <1>8, <1>9 DEF CoInv

LEMMA GateKeeps ==
  ASSUME NEW s, CoInv(s), s.at = "gate", NEW t \in C!Perform(s, Troubles)
  PROVE  CoInv(t)
<1> DEFINE memory == C!LoadCorrectionMemory(s)
           sig == C!Signature(s.facts)
           next == [memory EXCEPT !.last = sig, !.streak = C!ComputeNextStreakForGate(memory, sig)]
<1>0. CoType(s)
  BY DEF CoInv
<1>1. s.facts \in Troubles /\ sig \in Signatures
  BY <1>0 DEF CoType, Signatures
<1>2. memory \in Memories
  BY <1>0, LoadTyped
<1>3. t = IF s.mode # "active" THEN [s EXCEPT !.at = "increment", !.gated = TRUE]
          ELSE [s EXCEPT !.memory = next, !.base = next, !.gates = Append(@, sig), !.gated = TRUE,
                         !.at = IF next.streak >= s.threshold THEN "refuse" ELSE "increment"]
  BY DEF C!Perform, C!Gate
<1> HIDE DEF memory, sig
<1>4. CASE s.mode # "active"
  <2>1. Only(s, t, {"at", "gated"}) /\ t.at = "increment" /\ t.gated = TRUE
    BY <1>0, <1>3, <1>4 DEF CoType, Only
  <2>2. /\ DOMAIN t = DOMAIN s /\ t.mode = s.mode /\ t.threshold = s.threshold /\ t.cap = s.cap
        /\ t.memory = s.memory /\ t.lineage = s.lineage /\ t.analysis = s.analysis
        /\ t.iterations = s.iterations /\ t.instructions = s.instructions /\ t.base = s.base
        /\ t.resumes = s.resumes /\ t.gates = s.gates /\ t.made = s.made /\ t.facts = s.facts
    BY <1>0, <2>1 DEF CoType, Only
  <2>3. t.gated \in BOOLEAN
    BY <2>1
  <2>4. CoType(t)
    BY <1>0, <1>1, <2>1, <2>2, <2>3 DEF CoType, Gated, Correcting
  <2>5. CoStreak(t) /\ CoLimits(t) /\ CoStory(t) /\ C!RefusalsAreTold(t)
    BY <2>1, <2>2 DEF CoInv, CoStreak, CoLimits, CoStory, Correcting, C!RefusalsAreTold
  <2>6. CoGate(t)
    BY <1>4, <2>1, <2>2 DEF CoGate, Gated
  <2>7. CoNames(t)
    BY <2>1, <2>2 DEF CoInv, CoNames, Correcting
  <2> QED
    BY <2>4, <2>5, <2>6, <2>7 DEF CoInv
<1>5. CASE s.mode = "active"
  <2>1. /\ Only(s, t, {"at", "gated", "memory", "base", "gates"})
        /\ t.memory = next /\ t.base = next /\ t.gates = Append(s.gates, sig) /\ t.gated = TRUE
        /\ t.at = IF next.streak >= s.threshold THEN "refuse" ELSE "increment"
    <3> HIDE DEF next
    <3> QED
      BY <1>0, <1>3, <1>5 DEF CoType, Only
  <2>2. C!ComputeNextStreakForGate(memory, sig) \in Nat
    BY <1>2 DEF C!ComputeNextStreakForGate, Memories
  <2>3. /\ next \in Memories /\ next.last = sig /\ next.retries = memory.retries
        /\ next.streak = C!ComputeNextStreakForGate(memory, sig)
    BY <1>1, <1>2, <2>2 DEF Memories
  <2> HIDE DEF next
  <2>4. next # Torn
    BY <2>3, FilesAssumption
  <2>5. /\ DOMAIN t = DOMAIN s /\ t.mode = s.mode /\ t.threshold = s.threshold /\ t.cap = s.cap
        /\ t.lineage = s.lineage /\ t.analysis = s.analysis
        /\ t.iterations = s.iterations /\ t.instructions = s.instructions
        /\ t.resumes = s.resumes /\ t.made = s.made /\ t.facts = s.facts
    BY <1>0, <2>1 DEF CoType, Only
  <2>6. s.gates \in Seq(Signatures) /\ t.gates \in Seq(Signatures) /\ t.gates # <<>>
    <3>1. s.gates \in Seq(Signatures)
      BY <1>0 DEF CoType
    <3> QED
      BY <1>1, <2>1, <3>1, AppendProperties, EmptySeq
  <2>7. CoType(t)
    <3>1. t.gated \in BOOLEAN /\ t.at \in {"refuse", "increment"}
      BY <2>1
    <3> QED
      BY <1>0, <1>1, <2>1, <2>3, <2>5, <2>6, <3>1 DEF CoType, Gated
  <2>8. Counts(memory, s.gates)
    <3>1. CASE s.memory # Torn
      BY <1>0, <3>1, LoadTyped DEF CoInv, CoStreak, memory
    <3>2. CASE s.memory = Torn
      <4>1. s.gates = <<>> /\ memory.streak = 0
        BY <1>0, <3>2, LoadTyped, FreshTyped DEF CoInv, CoStreak, memory
      <4> QED
        BY <4>1 DEF Counts
    <3> QED
      BY <3>1, <3>2
  <2>9. CoStreak(t)
    <3>1. Counts(next, t.gates)
      BY <1>1, <1>2, <2>1, <2>3, <2>6, <2>8, NextStreak
    <3> QED
      BY <1>5, <2>1, <2>4, <2>5, <3>1 DEF CoStreak
  <2>10. CoGate(t)
    <3>1. t.memory.streak \in Int /\ t.threshold \in Int
      BY <2>1, <2>3, <2>7 DEF CoType, Memories
    <3>2. CASE t.memory.streak >= t.threshold
      <4>1. t.at = "refuse"
        BY <2>1, <2>5, <3>2
      <4> QED
        BY <1>5, <2>1, <2>4, <2>5, <3>2, <4>1 DEF CoGate, Gated, Correcting
    <3>3. CASE ~(t.memory.streak >= t.threshold)
      <4>1. t.at = "increment" /\ t.memory.streak < t.threshold
        BY <2>1, <2>5, <3>1, <3>3
      <4> QED
        BY <2>1, <2>4, <4>1 DEF CoGate, Gated
    <3> QED
      BY <3>2, <3>3
  <2>11. CoLimits(t)
    BY <2>1, <2>5 DEF CoInv, CoLimits, Correcting
  <2>12. CoStory(t)
    <3> SUFFICES ASSUME t.resumes = 0 PROVE CoStory(t)
      BY DEF CoStory
    <3>1. /\ s.memory # Torn /\ s.lineage # Torn
          /\ Len(s.lineage) = Len(s.memory.retries) + 0
          /\ \A i \in 1..Len(s.memory.retries) : s.memory.retries[i] = Tag(s.lineage[i])
      BY <2>5 DEF CoInv, CoStory
    <3>2. t.memory.retries = s.memory.retries
      BY <1>0, <2>1, <2>3, <3>1, LoadTyped DEF memory
    <3> QED
      BY <2>1, <2>4, <2>5, <3>1, <3>2 DEF CoStory
  <2>13. CoNames(t)
    BY <2>1, <2>5 DEF CoInv, CoNames, Correcting
  <2>14. C!RefusalsAreTold(t)
    BY <2>5 DEF CoInv, C!RefusalsAreTold
  <2> QED
    BY <2>7, <2>9, <2>10, <2>11, <2>12, <2>13, <2>14 DEF CoInv
<1> QED
  BY <1>4, <1>5

LEMMA RefuseKeeps ==
  ASSUME NEW s, CoInv(s), s.at = "refuse", NEW t \in C!Perform(s, Troubles)
  PROVE  CoInv(t)
<1>0. CoType(s)
  BY DEF CoInv
<1>1. s.facts \in Troubles
  BY <1>0 DEF CoType, Gated
<1>2. t = C!WriteLineage(s, "suppressed", "forget")
  BY DEF C!Perform
<1>3. Noded(s, t, "suppressed", "forget")
  BY <1>0, <1>1, <1>2, WroteLineage, Zenon
<1>4. PICK node \in Nodes : /\ node.id = <<s.iterations, C!Signature(s.facts), "suppressed">>
                            /\ t.lineage = Append(C!LoadLineage(s), node)
  BY <1>3 DEF Noded
<1>5. /\ DOMAIN t = DOMAIN s /\ t.mode = s.mode /\ t.threshold = s.threshold /\ t.cap = s.cap
      /\ t.memory = s.memory /\ t.analysis = s.analysis /\ t.facts = s.facts
      /\ t.iterations = s.iterations /\ t.instructions = s.instructions /\ t.base = s.base
      /\ t.resumes = s.resumes /\ t.gates = s.gates /\ t.made = s.made /\ t.gated = s.gated
  BY <1>0, <1>3 DEF CoType, Only, Noded
<1>6. t.lineage \in Lineages /\ t.lineage # Torn /\ t.at = "forget"
  BY <1>3 DEF Noded
<1>7. CoType(t)
  BY <1>0, <1>1, <1>5, <1>6 DEF CoType, Gated
<1>8. CoStreak(t)
  BY <1>5 DEF CoInv, CoStreak
<1>9. CoGate(t)
  BY <1>5, <1>6 DEF CoInv, CoGate, Gated, Correcting
<1>10. CoLimits(t)
  BY <1>5, <1>6 DEF CoInv, CoLimits, Correcting
<1> DEFINE n == Len(s.lineage)
<1>11. s.resumes = 0 =>
         /\ s.lineage \in Seq(Nodes) /\ n \in Nat /\ DOMAIN s.lineage = 1..n
         /\ t.lineage = Append(s.lineage, node) /\ Len(t.lineage) = n + 1
         /\ t.lineage[n + 1] = node /\ \A i \in 1..n : t.lineage[i] = s.lineage[i]
  <2>1. s.resumes = 0 => s.lineage # Torn
    BY DEF CoInv, CoStory
  <2>2. s.lineage # Torn => s.lineage \in Seq(Nodes) /\ t.lineage = Append(s.lineage, node)
    BY <1>0, <1>4, LoadTyped
  <2> QED
    BY <2>1, <2>2, AppendProperties, LenProperties
<1>12. node.id[1] = s.iterations /\ node.id[3] = "suppressed" /\ Tag(node) = "suppressed"
  BY <1>4 DEF Tag
<1>13. CoStory(t)
  <2> SUFFICES ASSUME s.resumes = 0 PROVE CoStory(t)
    BY <1>5 DEF CoStory
  <2>1. /\ s.memory # Torn /\ n = Len(s.memory.retries) + 0
        /\ \A i \in 1..Len(s.memory.retries) : s.memory.retries[i] = Tag(s.lineage[i])
    BY DEF CoInv, CoStory
  <2>2. Len(s.memory.retries) = n
    BY <1>11, <2>1
  <2>3. \A i \in 1..n : s.memory.retries[i] = Tag(t.lineage[i])
    BY <1>11, <2>1, <2>2
  <2> HIDE DEF n
  <2> QED
    BY <1>5, <1>6, <1>11, <1>12, <2>1, <2>2, <2>3 DEF CoStory
<1>14. CoNames(t)
  <2> SUFFICES ASSUME s.resumes = 0 PROVE CoNames(t)
    BY <1>5 DEF CoNames
  <2> HIDE DEF n
  <2>1. /\ \A i, j \in 1..n : i # j => s.lineage[i].id # s.lineage[j].id
        /\ \A i \in 1..n : s.lineage[i].id[1] <= s.iterations /\ s.lineage[i].id[3] = "generated"
        /\ s.mode # "off" => n >= Len(s.made) + 0
    BY DEF CoInv, CoNames, Correcting, n
  <2>2. \A i \in 1..n : node.id # s.lineage[i].id
    BY <1>12, <2>1
  <2>3. s.iterations <= s.iterations /\ \A i \in 1..(n + 1) : i \in 1..n \/ i = n + 1
    BY <1>0, <1>11 DEF CoType
  <2>4. \A i, j \in 1..(n + 1) : i # j => t.lineage[i].id # t.lineage[j].id
    <3>1. Grown(s.lineage, n, node, t.lineage)
      BY <1>11, <2>1, <2>2 DEF Grown
    <3> QED
      BY <3>1, NamesGrow
  <2>5. \A i \in 1..(n + 1) : t.lineage[i].id[1] <= s.iterations
    BY <1>11, <1>12, <2>1, <2>3
  <2>6. s.mode # "off" => n + 1 >= Len(s.made) + 0
    BY <1>0, <1>11, <2>1, LenProperties DEF CoType
  <2> QED
    BY <1>5, <1>6, <1>11, <2>4, <2>5, <2>6 DEF CoNames, Correcting
<1>15. C!RefusalsAreTold(t)
  BY <1>5 DEF CoInv, C!RefusalsAreTold
<1> QED
  BY <1>7, <1>8, <1>9, <1>10, <1>13, <1>14, <1>15 DEF CoInv

LEMMA CorrectKeeps ==
  ASSUME NEW s, CoInv(s), s.at = "correct", NEW t \in C!Perform(s, Troubles)
  PROVE  CoInv(t)
<1>0. CoType(s)
  BY DEF CoInv
<1>1. s.facts \in Troubles
  BY <1>0 DEF CoType, Correcting
<1>2. CASE s.mode = "off"
  <2>1. t = [s EXCEPT !.at = "instruct"]
    BY <1>2 DEF C!Perform, C!Correct
  <2>2. /\ DOMAIN t = DOMAIN s /\ t.mode = s.mode /\ t.threshold = s.threshold /\ t.cap = s.cap
        /\ t.memory = s.memory /\ t.analysis = s.analysis /\ t.facts = s.facts
        /\ t.iterations = s.iterations /\ t.instructions = s.instructions /\ t.base = s.base
        /\ t.resumes = s.resumes /\ t.gates = s.gates /\ t.made = s.made /\ t.gated = s.gated
        /\ t.lineage = s.lineage /\ t.at = "instruct"
    BY <1>0, <2>1 DEF CoType
  <2>3. CoType(t)
    BY <1>0, <1>1, <2>2 DEF CoType, Correcting
  <2>4. CoStreak(t) /\ C!RefusalsAreTold(t)
    BY <2>2 DEF CoInv, CoStreak, C!RefusalsAreTold
  <2>5. CoGate(t)
    BY <1>2, <2>2 DEF CoGate, Gated
  <2>6. CoLimits(t)
    BY <2>2 DEF CoInv, CoLimits, Correcting
  <2>7. CoStory(t)
    BY <2>2 DEF CoInv, CoStory
  <2>8. CoNames(t)
    BY <1>2, <2>2 DEF CoInv, CoNames, Correcting
  <2> QED
    BY <2>3, <2>4, <2>5, <2>6, <2>7, <2>8 DEF CoInv
<1>3. CASE s.mode # "off"
  <2>1. t = C!WriteLineage(s, "generated", "remember")
    BY <1>3 DEF C!Perform, C!Correct
  <2>2. Noded(s, t, "generated", "remember")
    BY <1>0, <1>1, <2>1, WroteLineage, Zenon
  <2>3. PICK node \in Nodes : /\ node.id = <<s.iterations, C!Signature(s.facts), "generated">>
                              /\ t.lineage = Append(C!LoadLineage(s), node)
    BY <2>2 DEF Noded
  <2>4. /\ DOMAIN t = DOMAIN s /\ t.mode = s.mode /\ t.threshold = s.threshold /\ t.cap = s.cap
        /\ t.memory = s.memory /\ t.analysis = s.analysis /\ t.facts = s.facts
        /\ t.iterations = s.iterations /\ t.instructions = s.instructions /\ t.base = s.base
        /\ t.resumes = s.resumes /\ t.gates = s.gates /\ t.made = s.made /\ t.gated = s.gated
    BY <1>0, <2>2 DEF CoType, Only, Noded
  <2>5. t.lineage \in Lineages /\ t.lineage # Torn /\ t.at = "remember"
    BY <2>2 DEF Noded
  <2>6. CoType(t)
    BY <1>0, <1>1, <2>4, <2>5 DEF CoType, Correcting
  <2>7. CoStreak(t)
    BY <2>4 DEF CoInv, CoStreak
  <2>8. CoGate(t)
    BY <2>4, <2>5 DEF CoInv, CoGate, Gated, Correcting
  <2>9. CoLimits(t)
    BY <2>4, <2>5 DEF CoInv, CoLimits, Correcting
  <2> DEFINE n == Len(s.lineage)
  <2>10. s.resumes = 0 =>
           /\ s.lineage \in Seq(Nodes) /\ n \in Nat /\ DOMAIN s.lineage = 1..n
           /\ t.lineage = Append(s.lineage, node) /\ Len(t.lineage) = n + 1
           /\ t.lineage[n + 1] = node /\ \A i \in 1..n : t.lineage[i] = s.lineage[i]
    <3>1. s.resumes = 0 => s.lineage # Torn
      BY DEF CoInv, CoStory
    <3>2. s.lineage # Torn => s.lineage \in Seq(Nodes) /\ t.lineage = Append(s.lineage, node)
      BY <1>0, <2>3, LoadTyped
    <3> QED
      BY <3>1, <3>2, AppendProperties, LenProperties
  <2>11. node.id[1] = s.iterations /\ node.id[3] = "generated" /\ Tag(node) = "made"
    BY <2>3 DEF Tag
  <2>12. CoStory(t)
    <3> SUFFICES ASSUME s.resumes = 0 PROVE CoStory(t)
      BY <2>4 DEF CoStory
    <3>1. /\ s.memory # Torn /\ n = Len(s.memory.retries) + 0
          /\ \A i \in 1..Len(s.memory.retries) : s.memory.retries[i] = Tag(s.lineage[i])
      BY DEF CoInv, CoStory
    <3>2. Len(s.memory.retries) = n
      BY <2>10, <3>1
    <3>3. \A i \in 1..n : s.memory.retries[i] = Tag(t.lineage[i])
      BY <2>10, <3>1, <3>2
    <3> HIDE DEF n
    <3> QED
      BY <2>4, <2>5, <2>10, <2>11, <3>1, <3>2, <3>3 DEF CoStory
  <2>13. CoNames(t)
    <3> SUFFICES ASSUME s.resumes = 0 PROVE CoNames(t)
      BY <2>4 DEF CoNames
    <3> HIDE DEF n
    <3>1. /\ \A i, j \in 1..n : i # j => s.lineage[i].id # s.lineage[j].id
          /\ \A i \in 1..n : s.lineage[i].id[1] < s.iterations /\ s.lineage[i].id[3] = "generated"
          /\ n >= Len(s.made) + 0
      BY <1>3 DEF CoInv, CoNames, Correcting, n
    <3>2. \A i \in 1..n : /\ s.lineage[i].id[1] \in Nat
                          /\ node.id # s.lineage[i].id /\ s.lineage[i].id[1] <= s.iterations
      <4> SUFFICES ASSUME NEW i \in 1..n
                   PROVE  /\ s.lineage[i].id[1] \in Nat
                          /\ node.id # s.lineage[i].id /\ s.lineage[i].id[1] <= s.iterations
        OBVIOUS
      <4>1. s.lineage[i] \in Nodes
        BY <2>10, ElementOfSeq
      <4>2. s.lineage[i].id[1] \in Nat
        BY <4>1 DEF Nodes, NodeIds
      <4>3. s.lineage[i].id[1] < s.iterations /\ s.iterations \in Nat
        BY <1>0, <3>1 DEF CoType
      <4>4. node.id[1] # s.lineage[i].id[1]
        BY <2>11, <4>2, <4>3
      <4> QED
        BY <4>2, <4>3, <4>4
    <3>3. s.iterations <= s.iterations /\ \A i \in 1..(n + 1) : i \in 1..n \/ i = n + 1
      BY <1>0, <2>10 DEF CoType
    <3>4. \A i, j \in 1..(n + 1) : i # j => t.lineage[i].id # t.lineage[j].id
      <4>1. Grown(s.lineage, n, node, t.lineage)
        BY <2>10, <3>1, <3>2 DEF Grown
      <4> QED
        BY <4>1, NamesGrow
    <3>5. \A i \in 1..(n + 1) :
            t.lineage[i].id[1] <= s.iterations /\ t.lineage[i].id[3] = "generated"
      <4> SUFFICES ASSUME NEW i \in 1..(n + 1)
                   PROVE  t.lineage[i].id[1] <= s.iterations /\ t.lineage[i].id[3] = "generated"
        OBVIOUS
      <4>1. CASE i \in 1..n
        BY <2>10, <3>1, <3>2, <4>1
      <4>2. CASE i = n + 1
        BY <2>10, <2>11, <3>3, <4>2
      <4> QED
        BY <3>3, <4>1, <4>2
    <3>6. n + 1 >= Len(s.made) + 1
      BY <1>0, <2>10, <3>1, LenProperties DEF CoType
    <3> QED
      BY <2>4, <2>5, <2>10, <3>4, <3>5, <3>6 DEF CoNames, Correcting
  <2>14. C!RefusalsAreTold(t)
    BY <2>4 DEF CoInv, C!RefusalsAreTold
  <2> QED
    BY <2>6, <2>7, <2>8, <2>9, <2>12, <2>13, <2>14 DEF CoInv
<1> QED
  BY <1>2, <1>3

(* Writing the memory closes the gap between memory and lineage.           *)
LEMMA NotedTells ==
  ASSUME NEW s, CoInv(s), NEW tag \in {"made", "suppressed"}, NEW t, NEW to \in {"report", "analyse"},
         s.at \in {"forget", "remember"}, Noted(s, t, s.memory, tag, to),
         s.at = "forget" => tag = "suppressed", s.at = "remember" => tag = "made", s.resumes = 0
  PROVE  CoStory(t)
<1>0. CoType(s)
  BY DEF CoInv
<1> DEFINE k == Len(s.memory.retries)
<1>1. /\ s.memory # Torn /\ s.lineage # Torn
      /\ Len(s.lineage) = k + 1
      /\ \A i \in 1..k : s.memory.retries[i] = Tag(s.lineage[i])
      /\ Tag(s.lineage[Len(s.lineage)]) = tag
  BY DEF CoInv, CoStory
<1>2. t.lineage = s.lineage /\ t.memory # Torn /\ t.at = to
      /\ t.memory.retries = Append(s.memory.retries, tag)
  BY <1>0 DEF CoType, Noted, Only
<1>3. s.memory.retries \in Seq({"made", "suppressed"})
  BY <1>0, <1>1 DEF CoType, Memories
<1>4. /\ k \in Nat /\ Len(t.memory.retries) = k + 1 /\ t.memory.retries[k + 1] = tag
      /\ \A i \in 1..k : t.memory.retries[i] = s.memory.retries[i]
  BY <1>2, <1>3, AppendProperties, LenProperties
<1> HIDE DEF k
<1>5. \A i \in 1..(k + 1) : t.memory.retries[i] = Tag(s.lineage[i])
  <2> SUFFICES ASSUME NEW i \in 1..(k + 1) PROVE t.memory.retries[i] = Tag(s.lineage[i])
    OBVIOUS
  <2>1. CASE i \in 1..k
    BY <1>1, <1>4, <2>1
  <2>2. CASE i = k + 1
    BY <1>1, <1>4, <2>2
  <2> QED
    BY <1>4, <2>1, <2>2
<1> QED
  BY <1>1, <1>2, <1>4, <1>5 DEF CoStory

LEMMA ForgetKeeps ==
  ASSUME NEW s, CoInv(s), s.at = "forget", NEW t \in C!Perform(s, Troubles)
  PROVE  CoInv(t)
<1>0. CoType(s)
  BY DEF CoInv
<1>1. s.mode = "active" /\ s.memory # Torn /\ s.memory.streak >= s.threshold /\ s.base = s.memory
  BY DEF CoInv, CoGate, Gated
<1>2. s.memory \in Memories
  BY <1>0, <1>1 DEF CoType
<1>3. Noted(s, t, s.memory, "suppressed", "report")
  <2>1. t = C!WriteMemory(s, s.memory, "suppressed", "report")
    BY <1>1 DEF C!Perform
  <2> QED
    BY <1>0, <1>2, <2>1, WroteMemory
<1>4. /\ DOMAIN t = DOMAIN s /\ t.mode = s.mode /\ t.threshold = s.threshold /\ t.cap = s.cap
      /\ t.lineage = s.lineage /\ t.analysis = s.analysis /\ t.facts = s.facts
      /\ t.iterations = s.iterations /\ t.instructions = s.instructions /\ t.gated = s.gated
      /\ t.resumes = s.resumes /\ t.gates = s.gates /\ t.made = s.made
      /\ t.at = "report" /\ t.base = C!Fresh /\ t.memory \in Memories /\ t.memory # Torn
      /\ t.memory.last = s.memory.last /\ t.memory.streak = s.memory.streak
  BY <1>0, <1>3 DEF CoType, Only, Noted
<1>5. CoType(t)
  <2>1. s.facts \in Troubles
    BY <1>0 DEF CoType, Gated
  <2> QED
    BY <1>0, <1>4, <2>1, FreshTyped DEF CoType, Gated
<1>6. CoStreak(t)
  BY <1>1, <1>4 DEF CoInv, CoStreak, Counts
<1>7. CoGate(t)
  BY <1>1, <1>4 DEF CoGate, Gated, Correcting
<1>8. CoLimits(t)
  BY <1>4 DEF CoInv, CoLimits, Correcting
<1>9. CoStory(t)
  <2> SUFFICES ASSUME s.resumes = 0 PROVE CoStory(t)
    BY <1>4 DEF CoStory
  <2> QED
    BY <1>3, NotedTells
<1>10. CoNames(t)
  BY <1>4 DEF CoInv, CoNames, Correcting
<1>11. C!RefusalsAreTold(t)
  BY <1>4 DEF CoInv, C!RefusalsAreTold
<1> QED
  BY <1>5, <1>6, <1>7, <1>8, <1>9, <1>10, <1>11 DEF CoInv

LEMMA RememberKeeps ==
  ASSUME NEW s, CoInv(s), s.at = "remember", NEW t \in C!Perform(s, Troubles)
  PROVE  CoInv(t)
<1> DEFINE memory == C!LoadCorrectionMemory(s)
<1>0. CoType(s)
  BY DEF CoInv
<1>1. Noted(s, t, memory, "made", "analyse") /\ memory \in Memories
  <2>1. t = C!WriteMemory(s, memory, "made", "analyse")
    BY DEF C!Perform
  <2>2. memory \in Memories
    BY <1>0, LoadTyped
  <2> HIDE DEF memory
  <2> QED
    BY <1>0, <2>1, <2>2, WroteMemory
<1>2. s.memory # Torn => memory = s.memory
  BY <1>0, LoadTyped
<1>3. s.memory = Torn => memory.streak = 0
  BY <1>0, LoadTyped, FreshTyped
<1> HIDE DEF memory
<1>4. /\ DOMAIN t = DOMAIN s /\ t.mode = s.mode /\ t.threshold = s.threshold /\ t.cap = s.cap
      /\ t.lineage = s.lineage /\ t.analysis = s.analysis /\ t.facts = s.facts
      /\ t.iterations = s.iterations /\ t.instructions = s.instructions /\ t.gated = s.gated
      /\ t.resumes = s.resumes /\ t.gates = s.gates /\ t.made = s.made
      /\ t.at = "analyse" /\ t.base = C!Fresh /\ t.memory \in Memories /\ t.memory # Torn
      /\ t.memory.last = memory.last /\ t.memory.streak = memory.streak
  BY <1>0, <1>1 DEF CoType, Only, Noted
<1>5. CoType(t)
  <2>1. s.facts \in Troubles
    BY <1>0 DEF CoType, Correcting
  <2> QED
    BY <1>0, <1>4, <2>1, FreshTyped DEF CoType, Correcting
<1>6. CoStreak(t)
  <2>1. CASE s.memory # Torn
    BY <1>2, <1>4, <2>1 DEF CoInv, CoStreak, Counts
  <2>2. CASE s.memory = Torn
    BY <1>3, <1>4, <2>2 DEF CoInv, CoStreak, Counts
  <2> QED
    BY <2>1, <2>2
<1>7. CoGate(t)
  <2>1. s.mode = "active" /\ s.gated => s.memory # Torn /\ s.memory.streak < s.threshold
    BY DEF CoInv, CoGate, Correcting
  <2> QED
    BY <1>2, <1>4, <2>1 DEF CoGate, Gated
<1>8. CoLimits(t)
  BY <1>4 DEF CoInv, CoLimits, Correcting
<1>9. CoStory(t)
  <2> SUFFICES ASSUME s.resumes = 0 PROVE CoStory(t)
    BY <1>4 DEF CoStory
  <2>1. s.memory # Torn
    BY DEF CoInv, CoStory
  <2>2. Noted(s, t, s.memory, "made", "analyse")
    BY <1>1, <1>2, <2>1
  <2> QED
    BY <2>2, NotedTells
<1>10. CoNames(t)
  BY <1>4 DEF CoInv, CoNames, Correcting
<1>11. C!RefusalsAreTold(t)
  BY <1>4 DEF CoInv, C!RefusalsAreTold
<1> QED
  BY <1>5, <1>6, <1>7, <1>8, <1>9, <1>10, <1>11 DEF CoInv

LEMMA IncrementKeeps ==
  ASSUME NEW s, CoInv(s), s.at = "increment", NEW t \in C!Perform(s, Troubles)
  PROVE  CoInv(t)
<1>0. CoType(s)
  BY DEF CoInv
<1>1. t = [s EXCEPT !.iterations = @ + 1, !.at = "correct"]
  BY DEF C!Perform, C!Increment
<1>2. /\ DOMAIN t = DOMAIN s /\ t.mode = s.mode /\ t.threshold = s.threshold /\ t.cap = s.cap
      /\ t.memory = s.memory /\ t.lineage = s.lineage /\ t.analysis = s.analysis /\ t.facts = s.facts
      /\ t.instructions = s.instructions /\ t.gated = s.gated /\ t.base = s.base
      /\ t.resumes = s.resumes /\ t.gates = s.gates /\ t.made = s.made
      /\ t.at = "correct" /\ t.iterations = s.iterations + 1
  BY <1>0, <1>1 DEF CoType
<1>3. s.iterations \in Nat /\ s.iterations < s.cap /\ s.cap \in Nat
      /\ Len(s.made) \in Nat /\ Len(s.made) <= s.iterations
  BY <1>0, LenProperties DEF CoType, CoInv, CoLimits
<1>4. CoType(t)
  <2>1. s.facts \in Troubles
    BY <1>0 DEF CoType
  <2> QED
    BY <1>0, <1>2, <1>3, <2>1 DEF CoType, Correcting
<1>5. CoStreak(t) /\ C!RefusalsAreTold(t)
  BY <1>2 DEF CoInv, CoStreak, C!RefusalsAreTold
<1>6. CoGate(t)
  BY <1>2 DEF CoInv, CoGate, Gated, Correcting
<1>7. CoLimits(t)
  BY <1>2, <1>3 DEF CoInv, CoLimits
<1>8. CoStory(t)
  BY <1>2 DEF CoInv, CoStory
<1>9. CoNames(t)
  <2> SUFFICES ASSUME s.resumes = 0 PROVE CoNames(t)
    BY <1>2 DEF CoNames
  <2>1. /\ \A i, j \in 1..Len(s.lineage) : i # j => s.lineage[i].id # s.lineage[j].id
        /\ \A i \in 1..Len(s.lineage) :
             s.lineage[i].id[1] <= s.iterations /\ s.lineage[i].id[3] = "generated"
        /\ s.mode # "off" => Len(s.lineage) >= Len(s.made) + 0
    BY DEF CoInv, CoNames, Correcting
  <2>2. \A i \in 1..Len(s.lineage) : s.lineage[i].id[1] <= t.iterations
                                     /\ s.lineage[i].id[1] < t.iterations
    <3> SUFFICES ASSUME NEW i \in 1..Len(s.lineage)
                 PROVE  s.lineage[i].id[1] <= t.iterations /\ s.lineage[i].id[1] < t.iterations
      OBVIOUS
    <3>1. s.lineage \in Seq(Nodes)
      BY <1>0 DEF CoInv, CoStory, CoType, Lineages, Nodes
    <3>2. s.lineage[i] \in Nodes
      BY <3>1, ElementOfSeq
    <3>3. s.lineage[i].id[1] \in Nat
      BY <3>2 DEF Nodes, NodeIds
    <3> QED
      BY <1>2, <1>3, <2>1, <3>3
  <2> QED
    BY <1>2, <2>1, <2>2 DEF CoNames, Correcting
<1> QED
  BY <1>4, <1>5, <1>6, <1>7, <1>8, <1>9 DEF CoInv

LEMMA InstructKeeps ==
  ASSUME NEW s, CoInv(s), s.at = "instruct", NEW t \in C!Perform(s, Troubles)
  PROVE  CoInv(t)
<1>0. CoType(s)
  BY DEF CoInv
<1> DEFINE sig == C!Signature(s.facts)
<1>1. s.facts \in Troubles /\ sig \in Signatures
  BY <1>0 DEF CoType, Signatures, Correcting
<1>2. \/ t = [s EXCEPT !.instructions = TRUE, !.made = Append(@, sig), !.gated = FALSE, !.at = "review"]
      \/ t = [s EXCEPT !.at = "failed"]
  BY DEF C!Perform
<1> HIDE DEF sig
<1>3. CASE t = [s EXCEPT !.at = "failed"]
  <2>1. /\ DOMAIN t = DOMAIN s /\ t.mode = s.mode /\ t.threshold = s.threshold /\ t.cap = s.cap
        /\ t.memory = s.memory /\ t.analysis = s.analysis /\ t.facts = s.facts
        /\ t.iterations = s.iterations /\ t.instructions = s.instructions /\ t.base = s.base
        /\ t.resumes = s.resumes /\ t.gates = s.gates /\ t.made = s.made /\ t.gated = s.gated
        /\ t.lineage = s.lineage /\ t.at = "failed"
    BY <1>0, <1>3 DEF CoType
  <2>2. CoType(t)
    BY <1>0, <1>1, <2>1 DEF CoType, Resting, Gated, Correcting
  <2>3. CoStreak(t) /\ C!RefusalsAreTold(t)
    BY <2>1 DEF CoInv, CoStreak, C!RefusalsAreTold
  <2>4. CoGate(t)
    BY <2>1 DEF CoGate, Gated, Correcting
  <2>5. CoLimits(t) /\ CoStory(t)
    BY <2>1 DEF CoInv, CoLimits, CoStory, Correcting
  <2>6. CoNames(t)
    <3>1. (Len(s.lineage) \in Nat /\ Len(s.made) \in Nat) \/ ~(s.resumes = 0)
      BY <1>0, LenProperties DEF CoInv, CoStory, CoType, Lineages
    <3> QED
      BY <2>1, <3>1 DEF CoInv, CoNames, Correcting
  <2> QED
    BY <2>2, <2>3, <2>4, <2>5, <2>6 DEF CoInv
<1>4. CASE t = [s EXCEPT !.instructions = TRUE, !.made = Append(@, sig), !.gated = FALSE, !.at = "review"]
  <2>1. /\ DOMAIN t = DOMAIN s /\ t.mode = s.mode /\ t.threshold = s.threshold /\ t.cap = s.cap
        /\ t.memory = s.memory /\ t.analysis = s.analysis /\ t.facts = s.facts
        /\ t.iterations = s.iterations /\ t.base = s.base
        /\ t.resumes = s.resumes /\ t.gates = s.gates
        /\ t.lineage = s.lineage /\ t.at = "review"
        /\ t.instructions = TRUE /\ t.gated = FALSE /\ t.made = Append(s.made, sig)
    BY <1>0, <1>4 DEF CoType
  <2>2. /\ t.made \in Seq(Signatures) /\ Len(t.made) = Len(s.made) + 1 /\ Len(s.made) \in Nat
    BY <1>0, <1>1, <2>1, AppendProperties, LenProperties DEF CoType
  <2>3. CoType(t)
    BY <1>0, <1>1, <2>1, <2>2 DEF CoType, Gated, Correcting
  <2>4. CoStreak(t) /\ C!RefusalsAreTold(t) /\ CoStory(t)
    BY <2>1 DEF CoInv, CoStreak, CoStory, C!RefusalsAreTold
  <2>5. CoGate(t)
    BY <2>1 DEF CoGate, Gated, Correcting
  <2>6. CoLimits(t)
    <3>1. Len(s.made) < s.iterations /\ s.iterations \in Nat
      BY <1>0 DEF CoInv, CoLimits, Correcting, CoType
    <3> QED
      BY <2>1, <2>2, <3>1 DEF CoInv, CoLimits, Correcting
  <2>7. CoNames(t)
    <3>1. Len(s.lineage) \in Nat \/ ~(s.resumes = 0)
      BY <1>0, LenProperties DEF CoInv, CoStory, CoType, Lineages
    <3> QED
      BY <2>1, <2>2, <3>1 DEF CoInv, CoNames, Correcting
  <2> QED
    BY <2>3, <2>4, <2>5, <2>6, <2>7 DEF CoInv
<1> QED
  BY <1>2, <1>3, <1>4

LEMMA Suppression ==
  ASSUME NEW f, NEW items, NEW streak, NEW threshold, NEW targets
  PROVE  C!ComputeAdaptiveDecision(f, items, streak, threshold, targets).suppress = (streak >= threshold)
BY DEF C!ComputeAdaptiveDecision

LEMMA ReportKeeps ==
  ASSUME NEW s, CoInv(s), s.at = "report", NEW t \in C!Perform(s, Troubles)
  PROVE  CoInv(t)
<1>0. CoType(s)
  BY DEF CoInv
<1> DEFINE a == C!WriteAnalysis(s, TRUE)
<1>1. t = [s EXCEPT !.analysis = a, !.at = "stopped"]
  BY DEF C!Perform
<1> HIDE DEF a
<1>2. /\ DOMAIN t = DOMAIN s /\ t.mode = s.mode /\ t.threshold = s.threshold /\ t.cap = s.cap
      /\ t.memory = s.memory /\ t.lineage = s.lineage /\ t.facts = s.facts
      /\ t.iterations = s.iterations /\ t.instructions = s.instructions /\ t.base = s.base
      /\ t.resumes = s.resumes /\ t.gates = s.gates /\ t.made = s.made /\ t.gated = s.gated
      /\ t.analysis = a /\ t.at = "stopped"
  BY <1>0, <1>1 DEF CoType
<1>3. s.mode = "active" /\ s.memory # Torn /\ s.memory.streak >= s.threshold
  BY DEF CoInv, CoGate, Gated
<1>4. CoType(t)
  <2>1. s.facts \in Troubles
    BY <1>0 DEF CoType, Gated
  <2> QED
    BY <1>0, <1>2, <2>1 DEF CoType, Resting, Gated, Correcting
<1>5. CoStreak(t)
  BY <1>2 DEF CoInv, CoStreak
<1>6. CoGate(t)
  BY <1>2 DEF CoGate, Gated, Correcting
<1>7. CoLimits(t) /\ CoStory(t)
  BY <1>2 DEF CoInv, CoLimits, CoStory, Correcting
<1>8. CoNames(t)
  BY <1>2 DEF CoInv, CoNames, Correcting
<1>9. a.targets = {} /\ a.decision.suppress = (s.memory.streak >= s.threshold)
  <2>1. C!LoadCorrectionMemory(s) = s.memory
    BY <1>0, <1>3, LoadTyped
  <2> DEFINE d == C!ComputeAdaptiveDecision(s.facts, C!ClassifyFailures(s.facts), s.memory.streak,
                                            s.threshold, {})
  <2>2. a = [refused |-> TRUE, targets |-> {}, decision |-> d]
    BY <2>1 DEF a, C!WriteAnalysis
  <2>3. d.suppress = (s.memory.streak >= s.threshold)
    BY Suppression
  <2> HIDE DEF d
  <2> QED
    BY <2>2, <2>3
<1>10. C!RefusalsAreTold(t)
  BY <1>2, <1>3, <1>9 DEF C!RefusalsAreTold
<1> QED
  BY <1>4, <1>5, <1>6, <1>7, <1>8, <1>10 DEF CoInv

LEMMA AnalyseKeeps ==
  ASSUME NEW s, CoInv(s), s.at = "analyse", NEW t \in C!Perform(s, Troubles)
  PROVE  CoInv(t)
<1>0. CoType(s)
  BY DEF CoInv
<1> DEFINE a == C!WriteAnalysis(s, FALSE)
<1>1. t = [s EXCEPT !.analysis = a, !.at = "instruct"]
  BY DEF C!Perform
<1> HIDE DEF a
<1>2. /\ DOMAIN t = DOMAIN s /\ t.mode = s.mode /\ t.threshold = s.threshold /\ t.cap = s.cap
      /\ t.memory = s.memory /\ t.lineage = s.lineage /\ t.facts = s.facts
      /\ t.iterations = s.iterations /\ t.instructions = s.instructions /\ t.base = s.base
      /\ t.resumes = s.resumes /\ t.gates = s.gates /\ t.made = s.made /\ t.gated = s.gated
      /\ t.analysis = a /\ t.at = "instruct"
  BY <1>0, <1>1 DEF CoType
<1>3. CoType(t)
  <2>1. s.facts \in Troubles
    BY <1>0 DEF CoType, Correcting
  <2> QED
    BY <1>0, <1>2, <2>1 DEF CoType, Correcting
<1>4. CoStreak(t)
  BY <1>2 DEF CoInv, CoStreak
<1>5. CoGate(t)
  BY <1>2 DEF CoInv, CoGate, Gated, Correcting
<1>6. CoLimits(t) /\ CoStory(t)
  BY <1>2 DEF CoInv, CoLimits, CoStory, Correcting
<1>7. CoNames(t)
  BY <1>2 DEF CoInv, CoNames, Correcting
<1> DEFINE memory == C!LoadCorrectionMemory(s)
           streak == C!ComputeNextStreakForGate(memory, C!Signature(s.facts))
<1>8. a.refused = FALSE /\ a.decision.suppress = (streak >= s.threshold)
  <2> DEFINE items == C!ClassifyFailures(s.facts)
             targets == C!PrioritizedRemediationTargets(s.facts, items, 20)
             d == C!ComputeAdaptiveDecision(s.facts, items, streak, s.threshold, targets)
  <2>1. a = [refused |-> FALSE, targets |-> targets, decision |-> d]
    BY DEF a, C!WriteAnalysis
  <2>2. d.suppress = (streak >= s.threshold)
    BY Suppression
  <2> HIDE DEF d, targets, streak
  <2> QED
    BY <2>1, <2>2
<1>9. s.mode = "guided" => streak = 1
  <2> SUFFICES ASSUME s.mode = "guided" PROVE streak = 1
    OBVIOUS
  <2>1. s.gates = <<>>
    BY DEF CoInv, CoStreak
  <2>2. memory.streak = 0
    <3>1. CASE s.memory # Torn
      BY <1>0, <2>1, <3>1, LoadTyped DEF CoInv, CoStreak, Counts
    <3>2. CASE s.memory = Torn
      BY <1>0, <3>2, LoadTyped, FreshTyped
    <3> QED
      BY <3>1, <3>2
  <2> HIDE DEF memory
  <2> QED
    BY <2>2 DEF C!ComputeNextStreakForGate
<1>10. s.threshold \in Int /\ s.threshold >= 2
  BY <1>0 DEF CoType
<1> HIDE DEF streak
<1>11. C!RefusalsAreTold(t)
  <2>1. s.mode = "guided" => ~(streak >= s.threshold)
    BY <1>9, <1>10
  <2>2. s.mode = "guided" => ~a.decision.suppress
    BY <1>8, <2>1, Zenon
  <2> QED
    BY <1>2, <1>8, <2>2 DEF C!RefusalsAreTold
<1> QED
  BY <1>3, <1>4, <1>5, <1>6, <1>7, <1>11 DEF CoInv

LEMMA CoKillKeeps ==
  ASSUME NEW s, CoInv(s), NEW t \in C!Kill(s)
  PROVE  CoInv(t)
<1>0. CoType(s)
  BY DEF CoInv
<1> DEFINE dead == [s EXCEPT !.at = "killed", !.gated = FALSE, !.base = C!Fresh]
<1>1. /\ DOMAIN t = DOMAIN s /\ t.mode = s.mode /\ t.threshold = s.threshold /\ t.cap = s.cap
      /\ t.facts = s.facts /\ t.iterations = s.iterations /\ t.instructions = s.instructions
      /\ t.resumes = s.resumes /\ t.made = s.made /\ t.gated = FALSE /\ t.base = C!Fresh
      /\ t.at = "killed"
      /\ \/ t.memory = s.memory /\ t.gates = s.gates
         \/ t.memory = Torn /\ t.gates = <<>>
      /\ t.lineage \in {Torn, s.lineage} /\ t.analysis \in {Torn, s.analysis}
  <2>1. \/ t = dead
        \/ t = [dead EXCEPT !.memory = Torn, !.gates = <<>>]
        \/ t = [dead EXCEPT !.analysis = Torn]
        \/ t = [dead EXCEPT !.lineage = Torn]
    BY DEF C!Kill
  <2>2. /\ DOMAIN dead = DOMAIN s /\ dead.mode = s.mode /\ dead.threshold = s.threshold
        /\ dead.cap = s.cap /\ dead.facts = s.facts /\ dead.iterations = s.iterations
        /\ dead.instructions = s.instructions /\ dead.resumes = s.resumes /\ dead.made = s.made
        /\ dead.gated = FALSE /\ dead.base = C!Fresh /\ dead.at = "killed"
        /\ dead.memory = s.memory /\ dead.gates = s.gates
        /\ dead.lineage = s.lineage /\ dead.analysis = s.analysis
    BY <1>0 DEF CoType
  <2>3. DOMAIN dead = {"mode", "threshold", "cap", "memory", "lineage", "analysis", "iterations",
                       "instructions", "facts", "at", "base", "resumes", "gates", "made", "gated"}
    BY <1>0, <2>2 DEF CoType
  <2> HIDE DEF dead
  <2>4. CASE t = dead
    BY <2>2, <2>4
  <2>5. CASE t = [dead EXCEPT !.memory = Torn, !.gates = <<>>]
    BY <2>2, <2>3, <2>5
  <2>6. CASE t = [dead EXCEPT !.analysis = Torn]
    BY <2>2, <2>3, <2>6
  <2>7. CASE t = [dead EXCEPT !.lineage = Torn]
    BY <2>2, <2>3, <2>7
  <2> QED
    BY <2>1, <2>4, <2>5, <2>6, <2>7
<1> HIDE DEF dead
<1>2. CoType(t)
  <2>1. t.gates \in Seq(Signatures)
    BY <1>0, <1>1, EmptySeq DEF CoType
  <2>2. t.gated \in BOOLEAN
    BY <1>1
  <2> QED
    BY <1>0, <1>1, <2>1, <2>2, FreshTyped DEF CoType, Resting, Gated, Correcting
<1>3. CoStreak(t)
  BY <1>1 DEF CoInv, CoStreak
<1>4. CoGate(t)
  BY <1>1 DEF CoGate, Gated, Correcting
<1>5. CoLimits(t)
  BY <1>1 DEF CoInv, CoLimits, Correcting
<1>6. CoStory(t) /\ CoNames(t)
  BY <1>1 DEF CoStory, CoNames
<1>7. C!RefusalsAreTold(t)
  BY <1>1 DEF CoInv, C!RefusalsAreTold
<1> QED
  BY <1>2, <1>3, <1>4, <1>5, <1>6, <1>7 DEF CoInv

LEMMA CoResumeKeeps ==
  ASSUME NEW s, CoInv(s), NEW t \in C!Resume(s)
  PROVE  CoInv(t)
<1>0. CoType(s)
  BY DEF CoInv
<1> DEFINE u == [s EXCEPT !.resumes = @ + 1, !.gated = FALSE, !.base = C!Fresh]
<1>1. \/ t = [u EXCEPT !.at = "review"]
      \/ /\ t = [u EXCEPT !.at = "correct", !.iterations = IF @ = 0 THEN 1 ELSE @]
         /\ s.facts # Null /\ ~s.instructions
  <2>1. CASE s.facts = Null \/ s.instructions
    BY <2>1 DEF C!Resume
  <2>2. CASE ~(s.facts = Null \/ s.instructions)
    BY <2>2 DEF C!Resume
  <2> QED
    BY <2>1, <2>2
<1>2. /\ DOMAIN t = DOMAIN s /\ t.mode = s.mode /\ t.threshold = s.threshold /\ t.cap = s.cap
      /\ t.memory = s.memory /\ t.lineage = s.lineage /\ t.analysis = s.analysis
      /\ t.facts = s.facts /\ t.instructions = s.instructions
      /\ t.gates = s.gates /\ t.made = s.made /\ t.gated = FALSE /\ t.base = C!Fresh
      /\ t.resumes = s.resumes + 1
      /\ \/ t.at = "review" /\ t.iterations = s.iterations
         \/ /\ t.at = "correct" /\ t.iterations = IF s.iterations = 0 THEN 1 ELSE s.iterations
            /\ s.facts # Null /\ ~s.instructions
  <2>1. CASE t = [u EXCEPT !.at = "review"]
    BY <1>0, <2>1 DEF CoType
  <2>2. CASE /\ t = [u EXCEPT !.at = "correct", !.iterations = IF @ = 0 THEN 1 ELSE @]
             /\ s.facts # Null /\ ~s.instructions
    BY <1>0, <2>2 DEF CoType
  <2> QED
    BY <1>1, <2>1, <2>2
<1> HIDE DEF u
<1>3. s.resumes \in Nat /\ s.iterations \in Nat /\ s.cap \in Nat /\ t.resumes > 0 /\ t.resumes \in Nat
      /\ Len(s.made) \in Nat
  BY <1>0, <1>2, LenProperties DEF CoType
<1>4. CoType(t)
  <2>1. t.at = "correct" => s.facts \in Troubles
    BY <1>0, <1>2 DEF CoType
  <2>2. t.gated \in BOOLEAN
    BY <1>2
  <2>3. t.iterations \in Nat
    <3>1. t.iterations = s.iterations \/ t.iterations = 1
      BY <1>2
    <3> QED
      BY <1>3, <3>1
  <2> QED
    BY <1>0, <1>2, <1>3, <2>1, <2>2, <2>3, FreshTyped DEF CoType, Resting, Gated, Correcting
<1>5. CoStreak(t)
  BY <1>2 DEF CoInv, CoStreak
<1>6. CoGate(t)
  BY <1>2 DEF CoGate, Gated
<1>7. CoLimits(t)
  <2>1. /\ Len(s.made) <= s.iterations
        /\ s.iterations <= s.cap \/ (s.iterations <= 1 /\ s.resumes > 0)
        /\ ~s.instructions => s.made = <<>>
    BY DEF CoInv, CoLimits
  <2>2. CASE t.at = "review" /\ t.iterations = s.iterations
    BY <1>2, <1>3, <2>1, <2>2 DEF CoLimits, Correcting
  <2>3. CASE /\ t.at = "correct" /\ t.iterations = IF s.iterations = 0 THEN 1 ELSE s.iterations
             /\ ~s.instructions
    <3>1. Len(t.made) = 0
      BY <1>2, <2>1, <2>3
    <3>2. t.iterations >= 1 /\ (t.iterations <= t.cap \/ t.iterations <= 1)
      BY <1>2, <1>3, <2>1, <2>3
    <3> QED
      BY <1>2, <1>3, <2>1, <2>3, <3>1, <3>2 DEF CoLimits
  <2> QED
    BY <1>2, <2>2, <2>3
<1>8. CoStory(t) /\ CoNames(t)
  <2>1. t.resumes # 0
    BY <1>3
  <2> QED
    BY <2>1 DEF CoStory, CoNames
<1>9. C!RefusalsAreTold(t)
  BY <1>2 DEF CoInv, C!RefusalsAreTold
<1> QED
  BY <1>4, <1>5, <1>6, <1>7, <1>8, <1>9 DEF CoInv

LEMMA CoStep ==
  ASSUME NEW s, CoInv(s), NEW t \in C!Successors(s, Troubles)
  PROVE  CoInv(t)
<1>1. CASE s.at \in C!Resting
  BY <1>1, CoResumeKeeps DEF C!Successors
<1>2. CASE s.at \notin C!Resting
  <2>1. CASE t \in C!Kill(s)
    BY <2>1, CoKillKeeps
  <2>2. CASE t \in C!Perform(s, Troubles)
    <3>1. s.at \in {"review", "gate", "increment"} \cup Gated \cup Correcting
      BY <1>2 DEF CoInv, CoType, Resting, C!Resting
    <3> QED
      BY <2>2, <3>1, ReviewKeeps, GateKeeps, IncrementKeeps, RefuseKeeps, ForgetKeeps, ReportKeeps,
         CorrectKeeps, RememberKeeps, AnalyseKeeps, InstructKeeps DEF Gated, Correcting
  <2> QED
    BY <1>2, <2>1, <2>2 DEF C!Successors
<1> QED
  BY <1>1, <1>2

LEMMA CoBegin ==
  ASSUME NEW mode \in {"off", "guided", "active"}, NEW env \in RetryThresholds, NEW cap \in Limits
  PROVE  CoInv(C!Begin(mode, env, cap))
<1> DEFINE b == C!Begin(mode, env, cap)
           threshold == C!ResolveThreshold(env)
<1>1. threshold \in Int /\ threshold >= 2
  <2> DEFINE e == IF env = Null THEN 3 ELSE env
  <2>1. e \in Int
    BY LimitsAssumption
  <2>2. threshold = C!Max({2, e})
    BY DEF C!ResolveThreshold
  <2> HIDE DEF e, threshold
  <2> QED
    BY <2>1, <2>2, MaxOfTwo
<1>2. cap \in Nat
  BY LimitsAssumption
<1> HIDE DEF threshold
<1>3. /\ DOMAIN b = {"mode", "threshold", "cap", "memory", "lineage", "analysis", "iterations",
                     "instructions", "facts", "at", "base", "resumes", "gates", "made", "gated"}
      /\ b.mode = mode /\ b.threshold = threshold /\ b.cap = cap /\ b.memory = C!Fresh
      /\ b.lineage = <<>> /\ b.analysis = Null /\ b.iterations = 0 /\ b.instructions = FALSE
      /\ b.facts = Null /\ b.at = "review" /\ b.base = C!Fresh /\ b.resumes = 0
      /\ b.gates = <<>> /\ b.made = <<>> /\ b.gated = FALSE
  BY DEF C!Begin, threshold
<1> HIDE DEF b
<1>4. b.lineage \in Lineages /\ b.lineage # Torn /\ b.memory # Torn
  <2>1. b.lineage \in Lineages
    BY <1>3 DEF Lineages
  <2>2. b.memory \in Memories
    BY <1>3, FreshTyped
  <2>3. Torn \notin Memories /\ Torn \notin Lineages
    BY FilesAssumption
  <2> QED
    BY <2>1, <2>2, <2>3
<1>5. b.gates \in Seq(Signatures) /\ b.made \in Seq(Signatures) /\ b.gated \in BOOLEAN
      /\ b.instructions \in BOOLEAN
  <2>1. b.gates \in Seq(Signatures) /\ b.made \in Seq(Signatures)
    BY <1>3
  <2>2. b.gated = FALSE /\ b.instructions = FALSE
    BY <1>3
  <2> QED
    BY <2>1, <2>2
<1>6. CoType(b)
  BY <1>1, <1>2, <1>3, <1>4, <1>5, FreshTyped DEF CoType, Gated, Correcting
<1>7. CoStreak(b)
  BY <1>3, <1>4, FreshTyped DEF CoStreak, Counts
<1>8. CoGate(b)
  BY <1>3 DEF CoGate, Gated, Correcting
<1>9. CoLimits(b)
  BY <1>2, <1>3 DEF CoLimits, Correcting
<1>10. Len(b.lineage) = 0 /\ Len(b.made) = 0 /\ Len(b.memory.retries) = 0
  BY <1>3 DEF C!Fresh
<1>11. CoStory(b)
  BY <1>3, <1>4, <1>10 DEF CoStory
<1>12. CoNames(b)
  BY <1>3, <1>10 DEF CoNames, Correcting
<1>13. C!RefusalsAreTold(b)
  BY <1>3 DEF C!RefusalsAreTold
<1> QED
  BY <1>6, <1>7, <1>8, <1>9, <1>11, <1>12, <1>13 DEF CoInv, b

LEMMA CoSound ==
  ASSUME NEW s, CoInv(s)
  PROVE  C!CorrectionSound(s)
<1>0. CoType(s)
  BY DEF CoInv
<1>1. C!GateCountsRepeats(s)
  <2> DEFINE n == C!Repeats(s.gates)
  <2>1. Len(s.gates) \in Nat
    BY <1>0, LenProperties DEF CoType
  <2>2. s.memory # Torn => s.memory.streak = n
    <3> SUFFICES ASSUME s.memory # Torn PROVE s.memory.streak = n
      OBVIOUS
    <3>1. CASE s.gates = <<>>
      BY <3>1 DEF CoInv, CoStreak, Counts, C!Repeats
    <3>2. CASE s.gates # <<>>
      <4>1. IsStreak(s.gates, s.memory.streak)
        BY <3>2 DEF CoInv, CoStreak, Counts
      <4> QED
        BY <2>1, <3>2, <4>1, StreakIsRepeats
    <3> QED
      BY <3>1, <3>2
  <2> HIDE DEF n
  <2>3. s.mode = "active" /\ s.gated /\ s.at \in {"increment"} \cup Correcting => n < s.threshold
    BY <2>2 DEF CoInv, CoGate
  <2>4. s.at \in Gated => s.mode = "active" /\ n >= s.threshold
    BY <2>2 DEF CoInv, CoGate
  <2> QED
    BY <2>2, <2>3, <2>4 DEF C!GateCountsRepeats, n, Gated, Correcting
<1>2. C!CorrectionsAreLimited(s)
  <2>1. C!Max({s.cap, 1}) \in Int /\ C!Max({s.cap, 1}) >= s.cap /\ C!Max({s.cap, 1}) >= 1
        /\ s.cap \in Int /\ s.iterations \in Int /\ s.resumes \in Nat
    <3>1. s.cap \in Int /\ 1 \in Int /\ s.iterations \in Int /\ s.resumes \in Nat
      BY <1>0 DEF CoType
    <3>2. /\ C!Max({s.cap, 1}) \in {s.cap, 1}
          /\ C!Max({s.cap, 1}) >= s.cap /\ C!Max({s.cap, 1}) >= 1
      BY <3>1, MaxOfTwo
    <3> QED
      BY <3>1, <3>2
  <2>2. Len(s.made) <= s.iterations /\ (s.iterations <= s.cap \/ (s.iterations <= 1 /\ s.resumes > 0))
    BY DEF CoInv, CoLimits
  <2>3. s.iterations <= C!Max({s.cap, 1})
    BY <2>1, <2>2
  <2>4. s.resumes = 0 => s.iterations <= s.cap
    BY <2>1, <2>2
  <2> QED
    BY <2>2, <2>3, <2>4 DEF C!CorrectionsAreLimited
<1>3. C!StoriesAgree(s)
  <2> SUFFICES ASSUME s.resumes = 0, s.at \in {"review", "approved", "stopped"}
               PROVE  C!StoriesAgree(s)
    BY DEF C!StoriesAgree
  <2> DEFINE q == s.lineage
             r == s.memory.retries
             k == Len(r)
  <2>1. /\ s.memory # Torn /\ s.lineage # Torn /\ Len(q) = k + 0
        /\ \A i \in 1..k : r[i] = Tag(q[i])
    BY DEF CoInv, CoStory
  <2>2. r \in Seq({"made", "suppressed"}) /\ q \in Seq(Nodes)
    BY <1>0, <2>1 DEF CoType, Memories, Lineages, Nodes
  <2>3. k \in Nat /\ Len(q) = k /\ DOMAIN r = 1..k /\ DOMAIN q = 1..k /\ r \in [1..k -> {"made", "suppressed"}]
    BY <2>1, <2>2, LenProperties
  <2>4. r = [i \in DOMAIN q |-> IF q[i].id[3] = "suppressed" THEN "suppressed" ELSE "made"]
    <3> HIDE DEF q, r, k
    <3> QED
      BY <2>1, <2>3 DEF Tag
  <2>5. /\ \A i, j \in 1..Len(q) : i # j => q[i].id # q[j].id
        /\ s.mode # "off" => Len(q) >= Len(s.made) + 0
    BY DEF CoInv, CoNames, Correcting
  <2>6. C!IsInjective(q)
    <3> HIDE DEF q
    <3> QED
      BY <2>3, <2>5 DEF C!IsInjective
  <2>7. Len(s.made) \in Nat
    BY <1>0, LenProperties DEF CoType
  <2>8. s.mode # "off" => Len(s.lineage) >= Len(s.made)
    BY <2>5, <2>7
  <2> QED
    BY <2>4, <2>6, <2>8 DEF C!StoriesAgree
<1>4. C!RefusalsAreTold(s)
  BY DEF CoInv
<1> QED
  BY <1>1, <1>2, <1>3, <1>4 DEF C!CorrectionSound

-----------------------------------------------------------------------------
(* Whatever is killed, resumed, refused or fails, the contract, the        *)
(* snapshots and the artifacts of a run stay as TxInv says, and the        *)
(* memory, the lineage and the analysis of its corrections as CoInv says.  *)
THEOREM RecordsInvariant == RecordsSpec => []RecordsInv
<1>1. RecordsInit => RecordsInv
  <2>1. ASSUME input \in Transactions PROVE RecordsInv
    BY <2>1, TxBegin DEF Transactions, RecordsInv
  <2>2. ASSUME input \in Corrections PROVE RecordsInv
    <3>1. PICK mode \in {"off", "guided", "active"}, env \in RetryThresholds, cap \in Limits :
            input = [case |-> "correction", state |-> C!Begin(mode, env, cap)]
      BY <2>2 DEF Corrections
    <3>2. input.case = "correction" /\ input.state = C!Begin(mode, env, cap)
      BY <3>1
    <3> QED
      BY <3>2, CoBegin DEF RecordsInv
  <2> QED
    BY <2>1, <2>2 DEF RecordsInit
<1>2. RecordsInv /\ [RecordsNext]_input => RecordsInv'
  <2> SUFFICES ASSUME RecordsInv, [RecordsNext]_input PROVE RecordsInv'
    OBVIOUS
  <2>1. CASE StepTransaction
    <3>1. input.case = "transaction" /\ TxInv(input.state)
      BY <2>1 DEF StepTransaction, RecordsInv
    <3>2. PICK t \in T!Successors(input.state) : input' = [case |-> "transaction", state |-> t]
      BY <2>1 DEF StepTransaction
    <3>3. TxInv(t)
      BY <3>1, <3>2, TxStep
    <3> QED
      BY <3>2, <3>3 DEF RecordsInv
  <2>2. CASE StepCorrection
    <3>1. input.case = "correction" /\ CoInv(input.state)
      BY <2>2 DEF StepCorrection, RecordsInv
    <3>2. PICK t \in C!Successors(input.state, Troubles) :
            input' = [case |-> "correction", state |-> t]
      BY <2>2 DEF StepCorrection
    <3>3. CoInv(t)
      BY <3>1, <3>2, CoStep
    <3> QED
      BY <3>2, <3>3 DEF RecordsInv
  <2>3. CASE UNCHANGED input
    BY <2>3 DEF RecordsInv
  <2> QED
    BY <2>1, <2>2, <2>3 DEF RecordsNext
<1> QED
  BY <1>1, <1>2, PTL DEF RecordsSpec

(* The contract of a run always fits its snapshots and tells how the last  *)
(* command ended and where commands were cut; the gate counts every        *)
(* repeat, corrections keep to their limit, and memory, lineage and        *)
(* analysis agree: for any number of commands, corrections and resumes,    *)
(* any failures, thresholds and limits.                                    *)
THEOREM RecordsAlwaysSurvive == RecordsSpec => []RecordsSurviveKills
<1>1. RecordsInv => RecordsSurviveKills
  BY TxSound, CoSound DEF RecordsInv, RecordsSurviveKills
<1> QED
  BY <1>1, RecordsInvariant, PTL
=============================================================================
