------------------------------- MODULE Review -------------------------------
(***************************************************************************)
(* The review of a run that asks no model.  Two parts read the files of    *)
(* the run: the evidence (findings with their risk, a gate on the risk,    *)
(* and the comparison with a baseline) and the engine (invariants, a       *)
(* score, and the verdict that takes the place of the model's).            *)
(*                                                                         *)
(* A file of the run is a record, Null if it is missing.  The hash in a    *)
(* finding's id stands as the tuple that is hashed.  Scores are in         *)
(* hundredths.                                                             *)
(***************************************************************************)
EXTENDS Integers, Sequences, FiniteSets, SequencesExt, FiniteSetsExt

CONSTANT Null

-----------------------------------------------------------------------------
(* Findings.  What is pushed in a loop comes as a sequence: two findings   *)
(* may be equal, and the risk counts both.                                 *)
Finding(type, severity, code, id) ==
  [type |-> type, severity |-> severity, code |-> code, id |-> <<code>> \o id]

When(condition, finding) == IF condition THEN <<finding>> ELSE <<>>

Each(s, Test(_), Make(_)) ==
  LET q == SelectSeq(s, Test) IN [i \in DOMAIN q |-> Make(q[i])]

Rows(f) == IF f.results # Null /\ f.results.form = "rows" THEN f.results.rows ELSE <<>>

Reused(f) == IF f.results # Null /\ f.results.form = "rows" THEN f.results.reused ELSE 0

Commands(f) == IF f.plan = Null THEN <<>> ELSE f.plan.commands

IsResolved(c) == c.status = "resolved"

ResolvedCommands(f) == SelectSeq(Commands(f), IsResolved)

ImpactOf(f) == IF f.plan = Null THEN Null ELSE f.plan.impact

-----------------------------------------------------------------------------
(* What validation and its cache left behind.                              *)
UnresolvedCommands(f) ==
  LET Is(c) == c.status \in {"unresolved", "unsupported"}
      Make(c) == Finding("validation", "warning", "unresolved_validator",
                         <<c.id, c.target, c.validator, c.status>>)
  IN  Each(Commands(f), Is, Make)

TruncatedGraph(f) ==
  LET impact == ImpactOf(f)
  IN  IF impact = Null THEN <<>>
      ELSE When(impact.capped, Finding("graph", "warning", "graph_candidates_cap_hit", <<>>)) \o
           When(impact.reverse > 0 \/ impact.forward > 0,
                Finding("graph", "warning", "dependency_graph_truncated",
                        <<impact.reverse, impact.forward>>))

(* The results are of another plan than the one on disk, or lean on a      *)
(* cache that is not there.                                                *)
InconsistentCache(f) ==
  When(f.cacheOff, Finding("cache", "info", "validation_cache_disabled", <<>>)) \o
  (IF f.plan = Null \/ f.results = Null THEN <<>>
   ELSE When(f.results.form = "rows" /\ f.results.identity # f.plan.identity,
             Finding("cache", "warning", "validation_cache_inconsistent",
                     <<f.plan.identity, f.results.identity>>))) \o
  When(f.plan # Null /\ Reused(f) > 0 /\ f.cache = Null,
       Finding("cache", "warning", "validation_cache_inconsistent", <<"file_missing">>))

FailedCommands_OncePerTarget(f) ==
  SetToSeq({Finding("validation", "error", "validation_command_failed", <<r.target>>) :
              r \in {x \in Range(Rows(f)) : x.status \in {"failed", "error"}}})

FailedCommands(f) ==
  LET Is(r) == r.status \in {"failed", "error"}
      Make(r) == Finding("validation", "error", "validation_command_failed", <<r.command, r.status>>)
  IN  Each(Rows(f), Is, Make)

-----------------------------------------------------------------------------
(* Structural rules: what one file of the run says of another must be so.  *)
Structural(severity, code, id) == Finding("structural", severity, code, id)

(* Files the manifest names, and files of the project that the plan names. *)
MissingReferences(f) ==
  LET Gone(r) == r[2] \notin f.files
      Key(r) == Structural("error", "structural_referenced_file_missing", r)
      Listed(r) == Structural("warning", "structural_referenced_file_missing", r)
      Lost(p) == p \notin f.project
      Planned(p) == Structural("warning", "structural_referenced_file_missing",
                               <<"execution_plan_file", p>>)
  IN  (IF f.manifest = Null THEN <<>>
       ELSE Each(f.manifest.refs, Gone, Key) \o Each(f.manifest.generated, Gone, Listed)) \o
      (IF f.project = Null THEN <<>> ELSE Each(f.operations, Lost, Planned))

GraphNodeTypes == {"file", "test", "module"}

(* Why a node is not one, as the id of its finding names it.               *)
NodeFaults(n) ==
  (IF n.id = "" THEN {"empty_node_id"} ELSE {}) \cup
  (IF n.type \notin GraphNodeTypes THEN {"invalid_type"} ELSE {}) \cup
  (IF n.path = "" THEN {"empty_path"} ELSE {}) \cup
  (IF n.path = ".." THEN {"path_escape"} ELSE {})

BrokenGraph(f) ==
  LET nodes == f.graph.nodes
      ids == {nodes[i].id : i \in DOMAIN nodes}
      Twice(d) == Cardinality({i \in DOMAIN nodes : nodes[i].id = d}) > 1
      Faulty(n) == NodeFaults(n) # {}
      Dangling(e) == \E end \in Range(e) : end # "" /\ end \notin ids
  IN  IF f.graph = Null THEN <<>>
      ELSE SetToSeq({Structural("error", "structural_graph_node_duplicate", <<d>>) :
                       d \in {x \in ids \ {""} : Twice(x)}}) \o
           Each(nodes, Faulty,
                LAMBDA n : Structural("error", "structural_graph_node_invalid", <<n.id, NodeFaults(n)>>)) \o
           Each(f.graph.edges, Dangling,
                LAMBDA e : Structural("error", "structural_graph_edge_dangling", e)) \o
           When(f.graph.hash = "malformed",
                Structural("error", "structural_graph_fingerprint_invalid", <<>>)) \o
           When(f.graph.hash = "other",
                Structural("error", "structural_graph_fingerprint_mismatch", <<>>))

(* Targets of the plan, its commands and their results must fit together.  *)
Misalignment(f) ==
  LET known == IF f.plan = Null THEN {} ELSE {t.id : t \in Range(f.plan.targets)} \ {""}
      resolved == {c.id : c \in Range(ResolvedCommands(f))}
      missing == resolved \ {r.command : r \in Range(Rows(f))}
      Stray(c) == c.target \notin known
      Lost(t) == t.file \notin f.project
      Orphan(r) == r.command \notin {c.id : c \in Range(Commands(f))}
      rowed == f.results # Null /\ f.results.form = "rows"
  IN  Each(ResolvedCommands(f), Stray,
           LAMBDA c : Structural("error", "structural_resolved_command_unknown_target",
                                 <<c.id, c.target>>)) \o
      (IF f.plan = Null \/ f.project = Null THEN <<>>
       ELSE Each(f.plan.targets, Lost,
                 LAMBDA t : Structural("warning", "structural_target_file_missing", <<t.id, t.file>>))) \o
      When(resolved # {} /\ f.results = Null,
           Structural("error", "structural_resolved_requires_results_artifact", <<Cardinality(resolved)>>)) \o
      When(rowed /\ missing # {},
           Structural("error", "structural_resolved_missing_result_rows", <<missing>>)) \o
      (IF f.plan = Null THEN <<>>
       ELSE Each(Rows(f), Orphan,
                 LAMBDA r : Structural("warning", "structural_result_orphan_command", <<r.command>>)))

CollectStructuralDeterministicFindings(f) == MissingReferences(f) \o BrokenGraph(f) \o Misalignment(f)

-----------------------------------------------------------------------------
(* Light semantic rules, over the plan of validation.                      *)
Semantic(severity, code, id) == Finding("semantic", severity, code, id)

(* The commands of the plan against its catalog and its descriptors.       *)
CatalogGaps(f) ==
  LET Unlisted(c) == c.validator # "" /\ c.validator \notin f.plan.catalog
      served == {c.descriptor : c \in Range(ResolvedCommands(f))}
  IN  (IF f.plan.catalogued
       THEN Each(ResolvedCommands(f), Unlisted,
                 LAMBDA c : Semantic("error", "semantic_resolved_command_validator_unlisted",
                                     <<c.id, c.validator>>))
       ELSE <<>>) \o
      SetToSeq({Semantic("info", "semantic_descriptor_without_resolved_command", <<d>>) :
                  d \in f.plan.descriptors \ served})

(* Several commands that agree in these fields.                            *)
Repeated(f, fields) ==
  LET commands == Range(ResolvedCommands(f))
      KeyOf(c) == [i \in DOMAIN fields |-> c[fields[i]]]
  IN  {k \in {KeyOf(c) : c \in commands} : Cardinality({c.id : c \in {x \in commands : KeyOf(x) = k}}) > 1}

RedundantCommands(f) ==
  SetToSeq({Semantic("warning", "semantic_duplicate_resolved_command_key", k) :
              k \in Repeated(f, <<"target", "validator", "descriptor">>)}) \o
  SetToSeq({Semantic("warning", "semantic_redundant_validator_per_target", k) :
              k \in {x \in Repeated(f, <<"target", "validator">>) : "" \notin Range(x)}})

UnguardedTargets(f) ==
  LET Is(t) == t.hinted /\ ~t.inferred
  IN  Each(f.plan.targets, Is,
           LAMBDA t : Semantic("warning", "semantic_target_risk_hints_without_validator", <<t.id>>))

TestRunnerValidatorIds == {"jest", "vitest"}

(* What the graph says a change may reach, and no command looks at.        *)
ImpactGaps(f) ==
  LET impact == f.plan.impact
      commands == Range(ResolvedCommands(f))
      Uncovered(t) == t.file \in impact.reached /\ \A c \in commands : c.target # t.id
  IN  IF impact = Null THEN <<>>
      ELSE When(impact.graph /\ f.graph = Null,
                Semantic("warning", "semantic_plan_expects_graph_artifact_missing", <<>>)) \o
           When(impact.capped /\ ~impact.hinted,
                Semantic("warning", "semantic_graph_truncation_risk_hint_gap", <<>>)) \o
           When(impact.linked > 0 /\ \A c \in commands : c.validator \notin TestRunnerValidatorIds,
                Semantic("warning", "semantic_linked_tests_no_test_runner", <<impact.linked>>)) \o
           Each(f.plan.targets, Uncovered,
                LAMBDA t : Semantic("warning", "semantic_graph_impact_missing_target_coverage",
                                    <<t.id, t.file>>))

(* The cache maps a key to the identity of the plan it was written for.    *)
ForeignCacheEntries(f) ==
  LET foreign == {k \in DOMAIN f.cache : f.cache[k] # f.plan.identity}
  IN  IF Reused(f) > 0 /\ f.cache # Null
      THEN When(foreign # {},
                Semantic("warning", "semantic_cache_plan_identity_mismatch", <<Cardinality(foreign)>>))
      ELSE <<>>

CollectSemanticLightDeterministicFindings(f) ==
  IF f.plan = Null THEN <<>>
  ELSE CatalogGaps(f) \o RedundantCommands(f) \o UnguardedTargets(f) \o ImpactGaps(f) \o
       ForeignCacheEntries(f)

Findings(f) ==
  UnresolvedCommands(f) \o TruncatedGraph(f) \o InconsistentCache(f) \o FailedCommands(f) \o
  CollectStructuralDeterministicFindings(f) \o CollectSemanticLightDeterministicFindings(f)

-----------------------------------------------------------------------------
(* The risk of a list of findings.                                         *)
WeightByCode ==
  [validation_command_failed |-> 42, validation_cache_inconsistent |-> 18,
   semantic_cache_plan_identity_mismatch |-> 18, graph_candidates_cap_hit |-> 14,
   dependency_graph_truncated |-> 14, unresolved_validator |-> 10]

WeightByType ==
  [structural |-> [error |-> 34, warning |-> 12, info |-> 1],
   semantic |-> [error |-> 24, warning |-> 7, info |-> 1],
   cache |-> [error |-> 18, warning |-> 18, info |-> 1]]

FindingRiskWeight(x) ==
  IF x.code \in DOMAIN WeightByCode THEN WeightByCode[x.code] ELSE WeightByType[x.type][x.severity]

ComputeRiskScore(findings) ==
  FoldLeft(LAMBDA sum, x : sum + FindingRiskWeight(x), 0, findings)

CountIf(findings, Test(_)) == Len(SelectSeq(findings, Test))

AggregateBuckets(findings) ==
  [failures |-> CountIf(findings, LAMBDA x : x.code = "validation_command_failed"),
   structural |-> CountIf(findings, LAMBDA x : x.type = "structural" /\ x.severity = "error"),
   cache |-> CountIf(findings, LAMBDA x : x.code \in {"validation_cache_inconsistent",
                                                     "semantic_cache_plan_identity_mismatch"}),
   truncations |-> CountIf(findings, LAMBDA x : x.code \in {"graph_candidates_cap_hit",
                                                           "dependency_graph_truncated"}),
   warnings |-> CountIf(findings, LAMBDA x : x.severity = "warning")]

Levels == <<"low", "medium", "high", "critical">>

(* The level as its ordinal, 1 to 4.                                       *)
ResolveOverallLevel(score, agg) ==
  LET at == <<TRUE,
              score >= 20 \/ agg.structural >= 1 \/ agg.truncations >= 1 \/ agg.warnings >= 8,
              score >= 55 \/ agg.failures >= 1 \/ agg.structural >= 2 \/ agg.cache >= 2,
              score >= 100 \/ agg.failures >= 2 \/ agg.structural >= 5>>
  IN  Max({i \in 1..4 : at[i]})

LevelOf(findings) == ResolveOverallLevel(ComputeRiskScore(findings), AggregateBuckets(findings))

(* What a gate in that mode makes of something bad: 0 pass, 1 warn, 2 fail. *)
Effect(mode, bad) ==
  CASE mode = "off" \/ ~bad -> 0
    [] mode = "advisory" /\ bad -> 1
    [] mode = "enforce" /\ bad -> 2

BuildDeterministicReviewGate(mode, threshold, level) == Effect(mode, level >= threshold)

(* deterministic-review.json, of a run whose gate has that mode and        *)
(* threshold.                                                              *)
BuildDeterministicReviewDocument(f, mode, threshold) ==
  LET findings == Findings(f)
      level == LevelOf(findings)
  IN  [findings |-> findings, score |-> ComputeRiskScore(findings), level |-> level,
       gate |-> BuildDeterministicReviewGate(mode, threshold, level)]

-----------------------------------------------------------------------------
(* The comparison of two documents, by finding_id, and the gate on what    *)
(* got worse since the baseline.                                           *)
IdsOf(doc) == {doc.findings[i].id : i \in DOMAIN doc.findings}

CompareDeterministicReviews(before, after) ==
  [new |-> IdsOf(after) \ IdsOf(before),
   resolved |-> IdsOf(before) \ IdsOf(after),
   persistent |-> IdsOf(before) \cap IdsOf(after)]

Thresholds == {"new_findings", "risk_score_delta", "gate_regression"}

(* A profile that names no threshold stands for all of them.               *)
ParseBaselineThresholdProfile(profile) ==
  IF profile \cap Thresholds = {} THEN Thresholds ELSE profile \cap Thresholds

EvaluateBaselineViolations_Net(before, after, profile) ==
  LET diff == CompareDeterministicReviews(before, after)
  IN  {t \in ParseBaselineThresholdProfile(profile) :
         CASE t = "new_findings" -> Cardinality(diff.new) > Cardinality(diff.resolved)
           [] t = "risk_score_delta" -> after.score > before.score
           [] t = "gate_regression" -> after.gate > before.gate}

EvaluateBaselineViolations(before, after, profile) ==
  {t \in ParseBaselineThresholdProfile(profile) :
     CASE t = "new_findings" -> CompareDeterministicReviews(before, after).new # {}
       [] t = "risk_score_delta" -> after.score > before.score
       [] t = "gate_regression" -> after.gate > before.gate}

(* A baseline that cannot be read violates nothing.                        *)
BaselineEffect(mode, before, after, profile) ==
  Effect(mode, before # Null /\ EvaluateBaselineViolations(before, after, profile) # {})

(* Both gates set the exit code of the process; a command that runs the    *)
(* pipeline overwrites it with the result of the run.                      *)
ExitCode(command, gates, result) ==
  IF command # "review.js" THEN result ELSE IF 2 \in gates THEN 1 ELSE 0

-----------------------------------------------------------------------------
(* The engine.  What it reads, s: the plan of execution (its transitions   *)
(* that are none, whether its head is not the last, the files it names),   *)
(* the reconciliation, validation, risk, the files touched, and so on.     *)
Violation(category, severity, outcome) ==
  [category |-> category, severity |-> severity, outcome |-> outcome]

IfSo(condition, category, severity, outcome) ==
  When(condition, Violation(category, severity, outcome))

Divergent(s) == s.recon # Null /\ s.recon.unexpected > 0

EvaluateReconciliationInvariant(s) ==
  IfSo(Divergent(s), "reconciliation",
       IF Divergent(s) /\ s.recon.unexpected > 3 THEN "high" ELSE "medium", "fail")

EvaluateValidationInvariant(s) ==
  IF s.validation # "failed" THEN <<>>
  ELSE IF s.risk = "critical" THEN <<Violation("validation", "critical", "fail")>>
  ELSE <<Violation("validation", "high", "warn")>>

EvaluateLifecycleInvariant(s) ==
  IF s.plan = Null THEN <<>>
  ELSE [i \in 1..s.plan.illegal |-> Violation("lifecycle", "high", "fail")] \o
       IfSo(s.plan.behind, "lifecycle", "medium", "fail")

(* The hash in a plan is of the plan without it, and is compared with that *)
(* of the whole file: they differ whenever there is a plan.                *)
EvaluateArtifactInvariant(s) ==
  IfSo(s.plan # Null, "artifact", "high", "fail") \o
  IfSo(s.patched, "artifact", "high", "fail") \o
  IfSo(s.listed /\ s.plan = Null, "artifact", "medium", "warn")

EvaluateOperationInvariant(s) ==
  IF s.plan = Null \/ s.plan.files = {} THEN <<>>
  ELSE [i \in 1..Cardinality(s.touched \ s.plan.files) |-> Violation("operation", "medium", "warn")] \o
       IfSo(s.touched # {} /\ Cardinality(s.plan.files \ s.touched) > 5, "operation", "low", "warn")

RunAllInvariants(s) ==
  EvaluateReconciliationInvariant(s) \o EvaluateValidationInvariant(s) \o
  EvaluateLifecycleInvariant(s) \o EvaluateArtifactInvariant(s) \o EvaluateOperationInvariant(s)

-----------------------------------------------------------------------------
(* The score.                                                              *)
AtLeastZero(n) == Max({0, n})

ScoreReconciliation(s) ==
  IF s.recon = Null THEN 100
  ELSE AtLeastZero(100 - (IF Divergent(s) THEN 35 ELSE IF s.recon.unmatched > 0 THEN 15 ELSE 0)
                   - Min({40, 12 * s.recon.unexpected + 6 * s.recon.unmatched}))

ScorePlanAdherence(s) ==
  IF s.plan = Null THEN 100 ELSE IF s.recon = Null THEN 85 ELSE ScoreReconciliation(s)

ScoreValidation(s) == IF s.validation = "failed" THEN 40 ELSE 100

ScoreRisk(s) ==
  [absent |-> 100, low |-> 90, moderate |-> 75, high |-> 55, critical |-> 25][s.risk]

(* Of a run with these failing invariants and that many warnings: the mean *)
(* of seven dimensions, one of which never fails.                          *)
StructuralScore(s, fails, warnings) ==
  LET lifecycle == IF \E v \in Range(fails) : v.category = "lifecycle" THEN 50 ELSE 100
      artifacts == AtLeastZero(100 - 20 * Len(fails) - 6 * warnings)
  IN  (200 * (ScorePlanAdherence(s) + ScoreReconciliation(s) + ScoreValidation(s) + ScoreRisk(s) +
              lifecycle + 100 + artifacts) + 7) \div 14

SemanticScore(s) ==
  IF s.mode = "structural" THEN 100
  ELSE LET n == Cardinality(s.touched)
       IN  100 - (IF n > 12 THEN 8 ELSE 0) - (IF s.verbose THEN 4 ELSE 0)
               - (IF s.allowed # Null /\ n > s.allowed THEN 12 ELSE 0)
               - (IF s.validation = "absent" /\ n > 0 THEN 6 ELSE 0)

NormalizeScores(s, structural) ==
  (45 * structural + 2000 * SemanticScore(s) + 2000 * ScoreRisk(s) + 1500 * ScoreValidation(s) + 50)
    \div 100

SeverityWeight == [critical |-> 40, high |-> 22, medium |-> 12, low |-> 5]

PenaltyFromInvariants(fails) ==
  Min({80, FoldLeft(LAMBDA sum, v : sum + SeverityWeight[v.severity], 0, fails)})

-----------------------------------------------------------------------------
(* The verdict of the engine, and how review.json has it.                  *)
RequiresCorrection(fails, score) == fails >= 3 \/ score < 4000

ResolveSummaryStatus(s, fails, score) ==
  LET failed == s.validation = "failed"
  IN  IF failed /\ Divergent(s) THEN "blocked"
      ELSE IF fails >= 3 \/ score < 3000 THEN "rejected"
      ELSE IF s.risk = "critical" /\ failed THEN "blocked"
      ELSE IF score >= 8000 /\ fails = 0 THEN "approved"
      ELSE IF score >= 4500 THEN "partial"
      ELSE "rejected"

RunReviewOrchestration(s) ==
  LET invariants == RunAllInvariants(s)
      Failing(v) == v.outcome = "fail"
      fails == SelectSeq(invariants, Failing)
      warnings == Len(invariants) - Len(fails)
      score == AtLeastZero(NormalizeScores(s, StructuralScore(s, fails, warnings))
                           - 25 * PenaltyFromInvariants(fails))
  IN  [fails |-> Len(fails), score |-> score, status |-> ResolveSummaryStatus(s, Len(fails), score),
       correction |-> RequiresCorrection(Len(fails), score),
       manual |-> s.risk = "critical" \/ warnings >= 6]

Review(status, issues, correction) ==
  [status |-> status, issues |-> issues, correction |-> correction]

EscalationHints(s) ==
  s.risk = "critical" \/ (s.validation = "failed" /\ Divergent(s)) \/ SemanticScore(s) < 72

LegacyFromDeterministic_AsSummarised(s, r) ==
  Review(r.status, r.status # "approved" /\ (r.fails > 0 \/ EscalationHints(s)), r.correction)

LegacyFromDeterministic(s, r) ==
  LET status == IF r.status # "partial" THEN r.status
                ELSE IF r.correction THEN "rejected" ELSE "blocked"
  IN  IF status = "approved" THEN Review(status, FALSE, FALSE)
      ELSE Review(status, r.fails > 0 \/ EscalationHints(s),
                  r.correction \/ (status = "rejected" /\ r.fails >= 3))

(* review.js: what the engine, the executor that changed nothing and the   *)
(* model say.  The model's answer is checked, and the engine's is not.     *)
ValidateReviewResult(r) ==
  /\ r.status \in {"approved", "rejected", "blocked"}
  /\ r.status = "approved" => ~r.correction /\ ~r.issues
  /\ r.status = "rejected" => r.correction

RunReview(s, r, noop, answer) ==
  LET engine == s.mode # "off" /\ ~s.broken
      stands == r.status \in {"rejected", "blocked"}
                \/ (r.status = "partial" /\ (r.correction \/ r.manual))
  IN  CASE noop = "vague" -> Review("blocked", TRUE, FALSE)
        [] noop = "concrete" ->
             IF engine /\ stands THEN LegacyFromDeterministic(s, r) ELSE Review("approved", FALSE, FALSE)
        [] noop = "none" ->
             IF engine THEN LegacyFromDeterministic(s, r)
             ELSE IF ValidateReviewResult(answer) THEN answer
             ELSE Review("rejected", TRUE, TRUE)

-----------------------------------------------------------------------------
(* The same run with its files listed the other way round.                 *)
Mirrored(f) ==
  [f EXCEPT !.plan = IF @ = Null THEN Null
                     ELSE [@ EXCEPT !.commands = Reverse(@), !.targets = Reverse(@)],
            !.results = IF @ = Null THEN Null ELSE [@ EXCEPT !.rows = Reverse(@)],
            !.graph = IF @ = Null THEN Null ELSE [@ EXCEPT !.nodes = Reverse(@), !.edges = Reverse(@)],
            !.manifest = IF @ = Null THEN Null ELSE [@ EXCEPT !.refs = Reverse(@)],
            !.operations = Reverse(@)]

(* The run with one thing put right.                                       *)
Repairs(f) ==
  (IF f.results = Null THEN {}
   ELSE {[f EXCEPT !.results.rows[i].status = "passed"] : i \in DOMAIN f.results.rows}) \cup
  (IF f.plan = Null \/ f.results = Null THEN {}
   ELSE {[f EXCEPT !.results.identity = f.plan.identity]}) \cup
  (IF f.graph = Null THEN {} ELSE {[f EXCEPT !.graph.hash = "right"]}) \cup
  (IF f.project = Null THEN {} ELSE {[f EXCEPT !.project = @ \cup Range(f.operations)]}) \cup
  (IF f.manifest = Null THEN {}
   ELSE {[f EXCEPT !.files = @ \cup {r[2] : r \in Range(f.manifest.refs)}]})

(* A document accuses nothing twice, is the same for every order of what   *)
(* it reads, and its level is as high as what happened asks for.           *)
DocumentSound(f, doc) ==
  LET findings == doc.findings
      other == Findings(Mirrored(f))
      ran == {c.id : c \in Range(ResolvedCommands(f))}
      failed == {r.command : r \in {x \in Range(Rows(f)) : x.status # "passed"}}
      untold == ran \ {r.command : r \in Range(Rows(f))}
      Count(s, x) == Cardinality({i \in DOMAIN s : s[i] = x})
  IN  /\ Len(findings) = Len(other)
      /\ \A i \in DOMAIN findings : Count(findings, findings[i]) = Count(other, findings[i])
      /\ \A i, j \in DOMAIN findings : findings[i].id = findings[j].id => i = j
      /\ failed # {} => doc.level >= 3
      /\ Cardinality(failed) > 1 => doc.level = 4
      /\ (f.results # Null /\ f.results.form = "rows" /\ untold # {}) \/ (ran # {} /\ f.results = Null)
           => doc.level >= 2

(* Putting something right is no regression, leaves nothing new and makes  *)
(* no level higher; what is higher than in the baseline is noticed.        *)
EvidenceSound(f, threshold) ==
  \A doc \in {BuildDeterministicReviewDocument(f, "enforce", threshold)} :
    /\ DocumentSound(f, doc)
    /\ \A after \in {BuildDeterministicReviewDocument(g, "enforce", threshold) : g \in Repairs(f)} :
         /\ after.level <= doc.level
         /\ BaselineEffect("enforce", doc, after, {}) = 0
         /\ IdsOf(after) # IdsOf(doc) => BaselineEffect("enforce", after, doc, {"new_findings"}) = 2

BaselineSound(f, g, threshold) ==
  \A before \in {BuildDeterministicReviewDocument(f, "enforce", threshold)},
     after \in {BuildDeterministicReviewDocument(g, "enforce", threshold)} :
    /\ after.level > before.level => BaselineEffect("enforce", before, after, {}) = 2
    /\ after.gate > before.gate => BaselineEffect("advisory", before, after, {"new_findings"}) = 1

(* The run with one thing gone wrong.                                      *)
Worsened(s) ==
  (IF s.recon = Null THEN {}
   ELSE {[s EXCEPT !.recon.unexpected = @ + 1], [s EXCEPT !.recon.unmatched = @ + 1]}) \cup
  (IF s.plan = Null THEN {}
   ELSE {[s EXCEPT !.plan.illegal = @ + 1], [s EXCEPT !.plan.behind = TRUE]}) \cup
  {[s EXCEPT !.validation = "failed"], [s EXCEPT !.risk = "critical"], [s EXCEPT !.patched = TRUE],
   [s EXCEPT !.verbose = TRUE]}

(* A verdict would pass the check of the model's answers but for one kind: *)
(* a rejection by the score alone.  Such a score is never below the        *)
(* threshold of corrections, 40, so only three failing invariants make a   *)
(* rejection ask for a correction.  No engine that refuses is overruled.   *)
Reviews(s, r, answers) ==
  {RunReview(s, r, noop, answer) : noop \in {"none", "vague", "concrete"}, answer \in answers}

VerdictSound(s, r, answers) ==
  \A v \in Reviews(s, r, answers) :
    /\ ValidateReviewResult(v) \/ (v.status = "rejected" /\ r.fails < 3 /\ r.score \in 4000..4499)
    /\ r.status = "rejected" => (r.correction <=> r.fails >= 3)
    /\ r.status \in {"rejected", "blocked"} /\ s.mode # "off" /\ ~s.broken => v.status # "approved"

(* Nothing that goes wrong makes the score better or the run approved, or  *)
(* takes away the correction that it was given without it.                 *)
EngineSound(s, answers) ==
  \A r \in {RunReviewOrchestration(s)} :
    /\ VerdictSound(s, r, answers)
    /\ \A w \in Worsened(s) : \A t \in {RunReviewOrchestration(w)} :
         /\ VerdictSound(w, t, answers)
         /\ t.score <= r.score
         /\ r.correction => t.correction
         /\ r.status # "approved" => t.status # "approved"

(* Not so: a rejection asks for the correction without which the pipeline  *)
(* throws.                                                                 *)
RejectionsAskForCorrection(s, answers) ==
  \A r \in {RunReviewOrchestration(s)} : \A v \in Reviews(s, r, answers) : ValidateReviewResult(v)

(* What the code does not do.  A gate in enforce mode ends every command   *)
(* with an error.                                                          *)
GateEndsTheCommand(command, gates) ==
  2 \in gates => ExitCode(command, gates, 0) = 1

(* A plan that the program wrote has its own hash.                         *)
PlansAreIntact(s) ==
  s.plan # Null /\ ~s.patched => \A v \in Range(RunAllInvariants(s)) :
                                    v.category = "artifact" => v.outcome # "fail"
=============================================================================
