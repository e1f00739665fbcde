------------------------------- MODULE Correction -------------------------------
(***************************************************************************)
(* The correction runtime: the failures a review leaves are classified and *)
(* signed, a gate refuses a correction when the same signature has come    *)
(* too often in a row, and the analysis made for a correction names its    *)
(* targets.  The first half is a function of what the directory of a run   *)
(* shows, the facts; the second steps a run through reviews, corrections,  *)
(* kills and resumes, the successors of a state being a set.               *)
(*                                                                         *)
(* Confidences are in thousandths, priorities and probabilities in         *)
(* hundredths.  Facts have the fields                                      *)
(*   violations  of the deterministic review: [n, kind, critical]          *)
(*   plan        there is an execution plan                                *)
(*   validation, reconciliation  "none" or what the reports say            *)
(*   score, findings   of the semantic review, Null if it was skipped      *)
(*   risk        the tier is critical                                      *)
(*   executor    the executor succeeded;  said: what its output complains  *)
(*   hints       [invariants, policies, fix] of the review; fix: classes   *)
(*   required    the deterministic review asks for a correction            *)
(*   manual      it asks for a person;  graph: validators of the plan      *)
(***************************************************************************)
EXTENDS Integers, Sequences, FiniteSets, SequencesExt, FiniteSetsExt

CONSTANTS Null, Torn,
          MaxResumes       \* bound of the model

-----------------------------------------------------------------------------
(* An item of a failure: its name is a kind and a number.                  *)
Item(class, kind, n, subtype, conf) ==
  [class |-> class, kind |-> kind, n |-> n, subtype |-> subtype, conf |-> conf]

SubclassifyStructural(f) ==
  {Item("structural", "violation", v.n, v.kind, IF v.critical THEN 860 ELSE 720) : v \in f.violations}
  \cup {Item("structural", "no plan", 0, "manifests", 700) : none \in {FALSE} \cap {f.plan}}

SubclassifyValidation(f) ==
  {Item("validation", "summary", 0, "syntax", 720) : v \in {"failed"} \cap {f.validation}}

SubclassifyReconciliation(f) ==
  {Item("reconciliation", "unexpected", 0, "unexpected changes", 800) :
     r \in {"divergent"} \cap {f.reconciliation}}

SubclassifySemantic(f) ==
  IF f.score = Null THEN {}
  ELSE {Item("semantic", "low score", 0, "maintainability", Min({900, 550 + 5 * (70 - s)})) :
          s \in {f.score} \cap 0..69}
       \cup {Item("semantic", "finding", d.n, d.subtype, 620) : d \in f.findings}

SubclassifyRuntime(f) ==
  {Item("runtime", "critical risk", 0, "orchestration", 740) : r \in {TRUE} \cap {f.risk}}

SubclassifyExecutor(f) ==
  {Item("executor", "keyword", 0, w, 770) : w \in {f.said} \ {"nothing"}}
  \cup {Item("executor", "failure", 0, "apply failure", 700) : e \in {FALSE} \cap {f.executor}}

(* The hints of the review count only when it asks for a correction and    *)
(* one of them is formal; policies alone are not.                          *)
AmplifyFailuresWithCorrectionHints(f) ==
  IF ~f.required \/ (f.hints.fix = {} /\ f.hints.invariants = {}) THEN {}
  ELSE {Item("structural", "hint", n, "invariants", 730) : n \in f.hints.invariants}
       \cup {Item("runtime", "policy", n, "orchestration", 550) : n \in f.hints.policies}
       \cup {CASE c = "reconciliation" -> Item(c, "hint", 0, "divergence", 780)
               [] c = "validation" -> Item(c, "hint", 0, "tooling", 750)
               [] c = "semantic" -> Item(c, "hint", 0, "intent mismatch", 600) : c \in f.hints.fix}

ClassifyFailures(f) ==
  SubclassifyStructural(f) \cup SubclassifyValidation(f) \cup SubclassifyReconciliation(f)
  \cup SubclassifySemantic(f) \cup SubclassifyRuntime(f) \cup SubclassifyExecutor(f)
  \cup AmplifyFailuresWithCorrectionHints(f)

Classes == {"executor", "reconciliation", "runtime", "semantic", "structural", "validation"}

(* The names of the classes in their order.                                *)
Alphabet == <<"executor", "reconciliation", "runtime", "semantic", "structural", "validation">>

SummarizeBuckets(items) == [c \in {i.class : i \in items} |-> Cardinality({i \in items : i.class = c})]

(* Confidence and evidence are no part of a signature.                     *)
ComputeFailureSignature_WithConfidence(f, items) ==
  [counts |-> SummarizeBuckets(items),
   keys |-> {<<i.class, i.kind, i.n, i.subtype, i.conf>> : i \in items},
   hints |-> f.hints.invariants,
   reconciliation |-> f.reconciliation, validation |-> f.validation, required |-> f.required]

ComputeFailureSignature(f, items) ==
  [counts |-> SummarizeBuckets(items),
   keys |-> {<<i.class, i.kind, i.n, i.subtype>> : i \in items},
   hints |-> f.hints.invariants,
   reconciliation |-> f.reconciliation, validation |-> f.validation, required |-> f.required]

-----------------------------------------------------------------------------
(* Structural failures start from 500, the others from their own priority. *)
Base(i) ==
  CASE i.class = "reconciliation" -> 2000
    [] i.class = "executor" -> 4200
    [] i.class = "validation" -> 5500
    [] i.class = "runtime" -> 6200
    [] i.class = "semantic" -> 7200
    [] i.class = "structural" -> IF i.subtype = "replay mismatch" THEN 51000 ELSE 53000

(* The validators of the plan are targets when the review asks for their   *)
(* repair: the results of a validation have no details.                    *)
Targets(f, items) ==
  {[class |-> i.class, kind |-> i.kind, n |-> i.n, priority |-> Base(i) + 1000 - i.conf] : i \in items}
  \cup {[class |-> "validation", kind |-> "graph", n |-> n, priority |-> 6000] :
          n \in IF f.validation # "none" /\ "validation" \in f.hints.fix THEN f.graph \cap 1..8 ELSE {}}

Before(t, u) == t.priority < u.priority \/ (t.priority = u.priority /\ t.n < u.n)

PrioritizedRemediationTargets_Unsorted(f, items, cap) ==
  LET all == Targets(f, items) IN CHOOSE T \in SUBSET all : Cardinality(T) = Min({cap, Cardinality(all)})

PrioritizedRemediationTargets(f, items, cap) ==
  LET all == Targets(f, items) IN {t \in all : Cardinality({u \in all : Before(u, t)}) < cap}

DescribeRetryScope(targets) ==
  LET classes == {t.class : t \in targets}
  IN  CASE classes = {"validation"} -> "validation only"
        [] classes # {"validation"} /\ "reconciliation" \in classes -> "reconciliation first"
        [] classes # {"validation"} /\ "reconciliation" \notin classes -> "executor, then review"

-----------------------------------------------------------------------------
SummarizePrimaryClassification(counts) ==
  IF counts = <<>> THEN "unknown"
  ELSE LET top == {c \in DOMAIN counts : \A d \in DOMAIN counts : counts[d] <= counts[c]}
       IN  SelectSeq(Alphabet, LAMBDA c : c \in top)[1]

ShouldEscalateRuntime(f, counts) ==
  CASE f.reconciliation = "divergent" \/ "reconciliation" \in DOMAIN counts -> "reconciliation"
    [] f.reconciliation # "divergent" /\ "reconciliation" \notin DOMAIN counts ->
         IF f.risk THEN "risk" ELSE "none"

ClassifyRetryBand(f, counts, targets) ==
  LET primary == SummarizePrimaryClassification(counts)
  IN  CASE primary = "reconciliation" -> IF f.reconciliation = "divergent" THEN primary ELSE "general"
        [] primary = "structural" ->
             IF \E t \in targets : t.class = "executor" THEN "by operation" ELSE "general"
        [] primary = "unknown" -> "general"
        [] primary \notin {"reconciliation", "structural", "unknown"} -> primary

ResolveThreshold(env) == Max({2, IF env = Null THEN 3 ELSE env})

(* A failed validation has only local faults, as there are no details, and *)
(* raises a low probability.                                               *)
ComputeAdaptiveDecision(f, items, streak, threshold, targets) ==
  LET counts == SummarizeBuckets(items)
      suppress == streak >= threshold
      likely == Min({94, 52 + 2 * Cardinality(items)})
      wanted == IF items = {} THEN f.required ELSE TRUE
  IN  [class |-> SummarizePrimaryClassification(counts),
       suppress |-> suppress,
       recommended |-> wanted /\ ~suppress,
       probability |-> CASE suppress -> 0
                         [] ~suppress /\ f.validation = "failed" /\ wanted -> Max({65, likely})
                         [] ~suppress /\ ~(f.validation = "failed" /\ wanted) -> likely,
       manual |-> f.manual \/ (suppress /\ 100 * streak >= 175 * threshold),
       escalate |-> ShouldEscalateRuntime(f, counts),
       band |-> ClassifyRetryBand(f, counts, targets)]

-----------------------------------------------------------------------------
(* A run: what is on disk of it, where its command is, and its history.    *)
(*   mode, threshold, cap   of the environment                             *)
(*   memory      correction-memory.json: [last, streak, retries]           *)
(*   lineage     correction-lineage.json: nodes [id, parent]               *)
(*   analysis    correction-analysis.json                                  *)
(*   iterations  of run-log.json;  instructions: there is such a file      *)
(*   facts       what the last review left, Null if there is none          *)
(*   at          where the command is;  base: the memory it has loaded     *)
(*   resumes     how many so far                                           *)
(*   gates       the signatures the gate has counted since a torn memory   *)
(*   made        the signatures corrections were made for                  *)
(*   gated       the correction in progress came through the gate          *)
Fresh == [last |-> Null, streak |-> 0, retries |-> <<>>]

Begin(mode, env, cap) ==
  [mode |-> mode, threshold |-> ResolveThreshold(env), cap |-> cap,
   memory |-> Fresh, lineage |-> <<>>, analysis |-> Null, iterations |-> 0,
   instructions |-> FALSE, facts |-> Null, at |-> "review", base |-> Fresh, resumes |-> 0,
   gates |-> <<>>, made |-> <<>>, gated |-> FALSE]

Signature(f) == ComputeFailureSignature(f, ClassifyFailures(f))

LoadCorrectionMemory(s) == IF s.memory = Torn THEN Fresh ELSE s.memory

LoadLineage(s) == IF s.lineage = Torn THEN <<>> ELSE s.lineage

ComputeNextStreakForGate_AnyFailure(memory, sig) == memory.streak + 1

ComputeNextStreakForGate(memory, sig) == IF memory.last = sig THEN memory.streak + 1 ELSE 1

(* The review of the executor's work; an approval ends the run.            *)
Review(s, F) ==
  {[s EXCEPT !.at = "approved", !.facts = Null]}
  \cup {[s EXCEPT !.facts = f, !.at = IF s.iterations >= s.cap THEN "stopped" ELSE "gate"] : f \in F}

(* The gate counts the signature before anything else is done about it.    *)
Gate(s) ==
  LET memory == LoadCorrectionMemory(s)
      sig == Signature(s.facts)
      next == [memory EXCEPT !.last = sig, !.streak = ComputeNextStreakForGate(memory, sig)]
  IN  IF s.mode # "active" THEN [s EXCEPT !.at = "increment", !.gated = TRUE]
      ELSE [s EXCEPT !.memory = next, !.base = next, !.gates = Append(@, sig), !.gated = TRUE,
                     !.at = IF next.streak >= s.threshold THEN "refuse" ELSE "increment"]

Increment(s) == [s EXCEPT !.iterations = @ + 1, !.at = "correct"]

(* An id is a hash of the iteration, the signature and the outcome.        *)
WriteLineage(s, outcome, to) ==
  LET chain == LoadLineage(s)
  IN  [s EXCEPT !.at = to,
                !.lineage = Append(chain,
                  [id |-> <<s.iterations, Signature(s.facts), outcome>>,
                   parent |-> IF chain = <<>> THEN Null ELSE chain[Len(chain)].id])]

WriteMemory(s, memory, tag, to) ==
  [s EXCEPT !.memory = [memory EXCEPT !.retries = Append(@, tag)], !.base = Fresh, !.at = to]

(* The analysis for a correction counts the signature once more, that of a *)
(* refusal names no targets.                                               *)
WriteAnalysis(s, refused) ==
  LET memory == LoadCorrectionMemory(s)
      items == ClassifyFailures(s.facts)
      streak == IF refused THEN memory.streak
                ELSE ComputeNextStreakForGate(memory, Signature(s.facts))
      targets == IF refused THEN {} ELSE PrioritizedRemediationTargets(s.facts, items, 20)
  IN  [refused |-> refused, targets |-> targets,
       decision |-> ComputeAdaptiveDecision(s.facts, items, streak, s.threshold, targets)]

Correct(s) ==
  IF s.mode = "off" THEN [s EXCEPT !.at = "instruct"]
  ELSE WriteLineage(s, "generated", "remember")

Perform(s, F) ==
  CASE s.at = "review" -> Review(s, F)
    [] s.at = "gate" -> {Gate(s)}
    [] s.at = "refuse" -> {WriteLineage(s, "suppressed", "forget")}
    [] s.at = "forget" -> {WriteMemory(s, s.base, "suppressed", "report")}
    [] s.at = "report" -> {[s EXCEPT !.analysis = WriteAnalysis(s, TRUE), !.at = "stopped"]}
    [] s.at = "increment" -> {Increment(s)}
    [] s.at = "correct" -> {Correct(s)}
    [] s.at = "remember" -> {WriteMemory(s, LoadCorrectionMemory(s), "made", "analyse")}
    [] s.at = "analyse" -> {[s EXCEPT !.analysis = WriteAnalysis(s, FALSE), !.at = "instruct"]}
    [] s.at = "instruct" ->
         {[s EXCEPT !.instructions = TRUE, !.made = Append(@, Signature(s.facts)), !.gated = FALSE,
                    !.at = "review"],
          [s EXCEPT !.at = "failed"]}

(* A kill tears the file that is being written.                            *)
Kill(s) ==
  LET dead == [s EXCEPT !.at = "killed", !.gated = FALSE, !.base = Fresh]
  IN  {dead}
      \cup (IF (s.at = "gate" /\ s.mode = "active") \/ s.at \in {"forget", "remember"}
            THEN {[dead EXCEPT !.memory = Torn, !.gates = <<>>]} ELSE {})
      \cup (IF s.at \in {"report", "analyse"} THEN {[dead EXCEPT !.analysis = Torn]} ELSE {})
      \cup (IF s.at \in {"refuse", "correct"} THEN {[dead EXCEPT !.lineage = Torn]} ELSE {})

Resting == {"approved", "stopped", "failed", "killed"}

(* A run that was refused goes on with the executor and the instructions   *)
(* it has, or with its first correction; neither passes the gate again.    *)
Resume(s) ==
  IF s.at = "approved" \/ s.resumes = MaxResumes THEN {}
  ELSE LET t == [s EXCEPT !.resumes = @ + 1, !.gated = FALSE, !.base = Fresh]
       IN  IF s.facts = Null \/ s.instructions THEN {[t EXCEPT !.at = "review"]}
           ELSE {[t EXCEPT !.at = "correct", !.iterations = IF @ = 0 THEN 1 ELSE @]}

Successors(s, F) == IF s.at \in Resting THEN Resume(s) ELSE Perform(s, F) \cup Kill(s)

-----------------------------------------------------------------------------
(* Every kind of trouble has its class and nothing else has one; what the  *)
(* limit leaves are targets of the most urgent classes, and all of them if *)
(* there is room.                                                          *)
Troubled(f, c) ==
  CASE c = "structural" -> f.violations # {} \/ ~f.plan
    [] c = "validation" -> f.validation = "failed"
    [] c = "reconciliation" -> f.reconciliation = "divergent"
    [] c = "semantic" -> f.score # Null /\ (f.findings # {} \/ f.score \in 0..69)
    [] c = "runtime" -> f.risk
    [] c = "executor" -> ~f.executor \/ f.said # "nothing"

Hinted(f, c) ==
  /\ f.required
  /\ f.hints.fix # {} \/ f.hints.invariants # {}
  /\ CASE c = "structural" -> f.hints.invariants # {}
       [] c = "runtime" -> f.hints.policies # {}
       [] c \notin {"structural", "runtime"} -> c \in f.hints.fix

FailuresAreNamed(f, items) ==
  \A c \in Classes :
    (Troubled(f, c) \/ Hinted(f, c)) <=> \E i \in items : i.class = c

Urgency == <<"reconciliation", "executor", "validation", "runtime", "semantic", "structural">>

(* The band of a class: 10 above its base, which only the two in the       *)
(* middle share.                                                           *)
TargetsAreUrgent(f, items, cap) ==
  \A chosen \in {PrioritizedRemediationTargets(f, items, cap)}, all \in {Targets(f, items)} :
    /\ Cardinality(chosen) = Min({cap, Cardinality(all)})
    /\ \A i, j \in DOMAIN Urgency :
         (/\ i < j /\ {i, j} # {3, 4}
          /\ \E t \in chosen : t.class = Urgency[j]) =>
             \A t \in all : t.class = Urgency[i] => t \in chosen
    /\ (\E t \in all : t.class = "reconciliation") =>
         DescribeRetryScope(chosen) = "reconciliation first"

(* A decision does not contradict itself: what is suppressed is not        *)
(* recommended, and a person is asked later than the gate closes, unless   *)
(* the review wants one; trouble that needs an escalation has one.         *)
DecisionIsCoherent(f, items, threshold) ==
  \A streak \in 1..(2 * threshold) :
    \A d \in {ComputeAdaptiveDecision(f, items, streak, threshold, {})} :
      /\ d.suppress <=> streak >= threshold
      /\ d.suppress => d.probability = 0 /\ ~d.recommended
      /\ ~d.suppress => d.probability \in 52..94 /\ (d.recommended <=> items # {} \/ f.required)
      /\ d.manual /\ ~f.manual => streak > threshold
      /\ 2 * threshold = streak => d.manual
      /\ d.escalate = "none" => ~Troubled(f, "reconciliation") /\ ~f.risk
      /\ d.class = "unknown" <=> items = {}

(* The same trouble seen with other scores and severities is the same.     *)
SignatureIsOfTheTrouble(f, items) ==
  \A worse \in {[f EXCEPT !.violations = {[v EXCEPT !.critical = TRUE] : v \in @},
                          !.score = IF @ # Null /\ @ \in 0..69 THEN 5 ELSE @]} :
    ComputeFailureSignature(worse, ClassifyFailures(worse)) = ComputeFailureSignature(f, items)

FactsSound(f) ==
  \A items \in {ClassifyFailures(f)} :
    /\ FailuresAreNamed(f, items)
    /\ \A cap \in {1, 3, 20} : TargetsAreUrgent(f, items, cap)
    /\ \A threshold \in {2, 3} : DecisionIsCoherent(f, items, threshold)
    /\ SignatureIsOfTheTrouble(f, items)

-----------------------------------------------------------------------------
(* How often the last signature has come in a row.                         *)
Repeats(q) ==
  IF q = <<>> THEN 0
  ELSE CHOOSE n \in 1..Len(q) :
         /\ \A i \in (Len(q) - n + 1)..Len(q) : q[i] = q[Len(q)]
         /\ n < Len(q) => q[Len(q) - n] # q[Len(q)]

(* The memory counts what the gate has seen, over all kills and resumes    *)
(* since it was last torn; the gate lets a failure through until it has    *)
(* come as often as the threshold says, then no more.                      *)
GateCountsRepeats(s) ==
  \A n \in {Repeats(s.gates)} :
    /\ s.memory # Torn => s.memory.streak = n
    /\ s.mode = "active" /\ s.gated /\ s.at \in {"increment", "correct", "remember", "analyse", "instruct"} =>
         n < s.threshold
    /\ s.at \in {"refuse", "forget", "report"} => s.mode = "active" /\ n >= s.threshold

(* No run is corrected more often than its limit, but once after a resume. *)
CorrectionsAreLimited(s) ==
  /\ Len(s.made) <= s.iterations
  /\ s.iterations <= Max({s.cap, 1})
  /\ s.resumes = 0 => s.iterations <= s.cap

(* Without an interruption, memory and lineage tell the same story and a   *)
(* node has a name of its own.                                             *)
StoriesAgree(s) ==
  s.resumes = 0 /\ s.at \in {"review", "approved", "stopped"} =>
    /\ s.memory.retries = [i \in DOMAIN s.lineage |-> IF s.lineage[i].id[3] = "suppressed"
                                                      THEN "suppressed" ELSE "made"]
    /\ IsInjective(s.lineage)
    /\ s.mode # "off" => Len(s.lineage) >= Len(s.made)

(* A refusal is on record as one, without targets for a correction.        *)
RefusalsAreTold(s) ==
  s.analysis \notin {Null, Torn} =>
    /\ s.analysis.refused => s.analysis.decision.suppress /\ s.analysis.targets = {}
    /\ s.mode = "guided" => ~s.analysis.decision.suppress

CorrectionSound(s) ==
  GateCountsRepeats(s) /\ CorrectionsAreLimited(s) /\ StoriesAgree(s) /\ RefusalsAreTold(s)

(* Not so: a refused run that is resumed and fails again gets a node whose *)
(* id is that of the node before, its own parent; and the analysis made    *)
(* for the last correction that the gate lets through says that it is      *)
(* suppressed.                                                             *)
LineageIsAChain(s) ==
  s.lineage # Torn => \A i \in DOMAIN s.lineage : s.lineage[i].parent # s.lineage[i].id

AnalysisFitsTheGate(s) ==
  s.analysis \notin {Null, Torn} => (s.analysis.refused <=> s.analysis.decision.suppress)
=============================================================================
