---------------------------- MODULE ExecutionPlan ----------------------------
(***************************************************************************)
(* The plan of a run in shadow mode: the operations derived from what the  *)
(* architect allowed, their structural validation, the state of the plan   *)
(* over the hooks of the pipeline, the comparison of the plan with the     *)
(* changes that the executor made, and the files to validate with the      *)
(* commands that do it.  A file is [name, kind, dir].                      *)
(***************************************************************************)
EXTENDS Integers, Sequences, FiniteSets, TLC

CONSTANT Null

LOCAL INSTANCE SequencesExt

-----------------------------------------------------------------------------
(* The draft: one operation per allowed file, a chain of the steps the     *)
(* architect wrote, and a marker.                                          *)
Draft(allowed, bullets) ==
  LET n == Len(allowed)
      steps == IF bullets > 48 THEN 48 ELSE bullets
  IN  [i \in 1..n + steps + 1 |->
        CASE i <= n -> [id |-> i, scope |-> TRUE, file |-> allowed[i], deps |-> {}]
          [] i \in n + 1..n + steps ->
               [id |-> i, scope |-> FALSE, file |-> Null, deps |-> IF i = n + 1 THEN {} ELSE {i - 1}]
          [] i = n + steps + 1 -> [id |-> i, scope |-> FALSE, file |-> Null, deps |-> {}]]

(* An operation without an id has id 0; of two with one id the search      *)
(* knows the dependencies of the later one.                                *)
Ids(ops) == {ops[i].id : i \in DOMAIN ops}

DepsOf(ops, id) ==
  LET I == {i \in DOMAIN ops : ops[i].id = id}
  IN  IF I = {} THEN {} ELSE ops[CHOOSE i \in I : \A j \in I : j <= i].deps

RECURSIVE Dfs(_, _, _)
Dfs(ops, node, stack) ==
  IF node = 0 THEN FALSE
  ELSE node \in stack \/ \E d \in DepsOf(ops, node) : Dfs(ops, d, stack \cup {node})

DetectDependencyProblems(ops) ==
  {"DEPENDENCY_UNKNOWN_ID" : x \in {i \in DOMAIN ops : ~ops[i].deps \subseteq Ids(ops) \ {0}}}
  \cup {"DEPENDENCY_CYCLE" : x \in {id \in Ids(ops) \ {0} : Dfs(ops, id, {})}}

ValidateOperationsIntegrity(ops) ==
  {"OPERATION_ID_MISSING" : x \in {i \in DOMAIN ops : ops[i].id = 0}}
  \cup {"DUPLICATE_OPERATION_ID" : x \in {i \in DOMAIN ops : ops[i].id # 0 /\
                                            \E j \in 1..i - 1 : ops[j].id = ops[i].id}}
  \cup DetectDependencyProblems(ops)

(* No list of allowed files allows every file.                             *)
ValidateAllowedFilesConsistency(ops, allowed) ==
  {"OPERATION_FILE_NOT_ALLOWED" : x \in {i \in DOMAIN ops :
      ops[i].file # Null /\ allowed # {} /\ ops[i].file \notin allowed}}

StructuralErrors(ops, allowed) ==
  ValidateOperationsIntegrity(ops) \cup ValidateAllowedFilesConsistency(ops, allowed)

-----------------------------------------------------------------------------
Terminal == {"COMPLETED", "FAILED", "BLOCKED"}

AllowedEdges ==
  [s \in {"DRAFT", "VALIDATED", "APPROVED", "EXECUTING"} |->
     {"FAILED", "BLOCKED"} \cup CASE s = "DRAFT" -> {"VALIDATED"}
                                 [] s = "VALIDATED" -> {"APPROVED"}
                                 [] s = "APPROVED" -> {"EXECUTING", "COMPLETED"}
                                 [] s = "EXECUTING" -> {"APPROVED", "COMPLETED"}]

(* A transition that is refused leaves the plan as it is.                  *)
ApplyTransition(state, to) ==
  IF state = to \/ state \in Terminal \/ to \notin AllowedEdges[state] THEN state ELSE to

AfterArchitect(errors) ==
  IF errors # {} THEN ApplyTransition("DRAFT", "FAILED")
  ELSE ApplyTransition(ApplyTransition("DRAFT", "VALIDATED"), "APPROVED")

(* The executor's turn leaves the plan approved again: the review and the  *)
(* corrections come after it.                                              *)
Hook_TurnCompletes(state, hook) ==
  CASE hook = "executing" -> ApplyTransition(state, "EXECUTING")
    [] hook \in {"completed", "finish"} -> ApplyTransition(state, "COMPLETED")
    [] hook = "failed" -> IF state = "EXECUTING" THEN ApplyTransition(state, "FAILED") ELSE state
    [] hook = "blocked" -> ApplyTransition(state, "BLOCKED")
    [] hook = "partial" -> ApplyTransition(state, "FAILED")

Hook(state, hook) ==
  CASE hook = "executing" -> ApplyTransition(state, "EXECUTING")
    [] hook = "completed" -> ApplyTransition(state, "APPROVED")
    [] hook = "failed" -> IF state = "EXECUTING" THEN ApplyTransition(state, "FAILED") ELSE state
    [] hook = "finish" -> ApplyTransition(state, "COMPLETED")
    [] hook = "blocked" -> ApplyTransition(state, "BLOCKED")
    [] hook = "partial" -> ApplyTransition(state, "FAILED")

-----------------------------------------------------------------------------
(* Of several operations on one file the first counts, those that only     *)
(* name the file before the others.                                        *)
BuildPathToPlanOp(ops) ==
  LET I == {i \in DOMAIN ops : ops[i].file # Null}
      Before(i, j) == \/ ops[i].scope /\ ~ops[j].scope
                      \/ ops[i].scope = ops[j].scope /\ i <= j
  IN  [f \in {ops[i].file : i \in I} |->
         ops[CHOOSE i \in I : ops[i].file = f /\ \A j \in I : ops[j].file = f => Before(i, j)]]

ReconcileExecutionPlan(ops, changes) ==
  LET plan == BuildPathToPlanOp(ops)
      changed == ToSet(changes)
      matched == Cardinality({i \in DOMAIN changes : changes[i] \in DOMAIN plan})
      unmatched == DOMAIN plan \ changed
      unexpected == changed \ DOMAIN plan
  IN  [unmatched |-> unmatched, unexpected |-> unexpected, matched |-> matched,
       status |-> CASE unexpected # {} -> "divergent"
                    [] unexpected = {} /\ (unmatched # {} \/ (DOMAIN plan = {} /\ matched > 0)) ->
                         "partial"
                    [] OTHER -> "full"]

-----------------------------------------------------------------------------
ProjectKinds == {"package", "lock", "tsconfig", "dockerfile", "compose", "tf", "env"}

InferValidators(f, biome) ==
  (CASE f.kind = "ts" -> {"eslint", "typescript", "jest_or_vitest"}
     [] f.kind = "js" -> {"eslint", "jest_or_vitest"}
     [] f.kind = "vue" -> {"eslint", "vue_compiler", "jest_or_vitest"}
     [] f.kind = "go" -> {"gofmt", "golangci-lint", "go_test"}
     [] f.kind = "php" -> {"phpstan", "phpunit"}
     [] f.kind = "json" -> {"json_parse"}
     [] f.kind = "package" -> {"json_parse", "npm_package_lint"}
     [] f.kind = "tsconfig" -> {"json_parse", "typescript_project_refs"}
     [] f.kind \in {"yaml", "compose"} -> {"yaml_parse"}
     [] f.kind = "md" -> {"markdown_lint"}
     [] f.kind = "css" -> {"stylelint"}
     [] f.kind = "dockerfile" -> {"hadolint"}
     [] OTHER -> {})
  \cup (IF biome THEN {"biome"} ELSE {})

(* A JSON file is of its module only below a directory of src.             *)
InferValidationScope(f) ==
  CASE f.kind \in ProjectKinds \/ f.dir = "infra" -> "project"
    [] f.kind = "json" /\ f.dir = "src/sub" -> "module"
    [] f.kind \in {"ts", "js", "vue", "go", "php", "css"} /\ f.dir # "infra" -> "module"
    [] OTHER -> "file"

ReasonPriority == <<"reconciliation_unexpected", "reconciliation_unmatched",
                    "executor_change", "operation_match">>

AccumulateCandidates(ops, recon, changes) ==
  LET planned == {ops[i].file : i \in DOMAIN ops} \ {Null}
      Reasons(f) ==
        (IF f \in planned THEN {"operation_match"} ELSE {})
        \cup (IF f \in ToSet(changes) THEN {"executor_change"} ELSE {})
        \cup (IF recon # Null /\ f \in recon.unmatched THEN {"reconciliation_unmatched"} ELSE {})
        \cup (IF recon # Null /\ f \in recon.unexpected THEN {"reconciliation_unexpected"} ELSE {})
  IN  [f \in planned \cup ToSet(changes) |->
         [reasons |-> Reasons(f),
          ops |-> {ops[i].id : i \in {j \in DOMAIN ops : ops[j].file = f}}]]

GenerateValidationTargets(ops, recon, changes, allowed, biome) ==
  LET candidates == AccumulateCandidates(ops, recon, changes)
      First(R) == ReasonPriority[CHOOSE p \in 1..4 : ReasonPriority[p] \in R /\
                                   \A q \in 1..p - 1 : ReasonPriority[q] \notin R]
  IN  {[file |-> f, reason |-> First(candidates[f].reasons), ops |-> candidates[f].ops,
        scope |-> InferValidationScope(f), validators |-> InferValidators(f, biome),
        risk |-> (IF allowed # {} /\ f \notin allowed THEN {"outside_architect_allowed_files"} ELSE {})
                 \cup (candidates[f].reasons \cap {First(candidates[f].reasons)}
                       \cap {"reconciliation_unexpected", "reconciliation_unmatched"})] :
       f \in DOMAIN candidates}

-----------------------------------------------------------------------------
Supported == {"eslint", "jest_or_vitest", "typescript", "typescript_project_refs"}

(* What the resolver runs for a label: nothing, if it does not know it, or *)
(* if the project has both test runners or none.                           *)
Argv(file, label, runners) ==
  CASE label = "eslint" -> <<"eslint", file>>
    [] label = "jest_or_vitest" ->
         IF Cardinality(runners) = 1 THEN <<CHOOSE r \in runners : TRUE, file>> ELSE Null
    [] label \in {"typescript", "typescript_project_refs"} -> <<"tsc">>
    [] OTHER -> Null

ResolveValidatorCommands(targets, runners) ==
  {[target |-> <<t.file, t.reason, t.ops>>, label |-> l, argv |-> Argv(t.file, l, runners)] :
     <<t, l>> \in {p \in targets \X UNION {t.validators : t \in targets} : p[2] \in p[1].validators}}

-----------------------------------------------------------------------------
(* A draft never has errors, and a plan without errors has unique ids,     *)
(* known dependencies without a cycle and only allowed files.              *)
ValidationSound(ops, allowed) ==
  LET Reach[i \in 0..Len(ops)] ==
        [a \in Ids(ops) |-> IF i = 0 THEN DepsOf(ops, a)
                            ELSE Reach[i - 1][a] \cup UNION {DepsOf(ops, b) : b \in Reach[i - 1][a]}]
  IN  (StructuralErrors(ops, allowed) = {}) <=>
        /\ Cardinality(Ids(ops) \ {0}) = Len(ops)
        /\ \A i \in DOMAIN ops : ops[i].deps \subseteq Ids(ops)
        /\ \A a \in Ids(ops) : a \notin Reach[Len(ops)][a]
        /\ \A i \in DOMAIN ops : ops[i].file # Null => allowed = {} \/ ops[i].file \in allowed

DraftSound(allowed, bullets) == StructuralErrors(Draft(allowed, bullets), ToSet(allowed)) = {}

(* The plan of a run ends as the first command that ended it: what a later *)
(* command does to the run cannot be seen in its plan.                     *)
EndOf == [finish |-> "COMPLETED", blocked |-> "BLOCKED", partial |-> "FAILED", failed |-> "FAILED"]

LifecycleSound(hooks) ==
  LET states == FoldLeft(LAMBDA s, h : Append(s, Hook(s[Len(s)], h)), <<AfterArchitect({})>>, hooks)
      ends == {i \in DOMAIN hooks : hooks[i] \in DOMAIN EndOf}
  IN  states[Len(states)] =
        IF ends # {} THEN EndOf[hooks[CHOOSE i \in ends : \A j \in ends : i <= j]]
        ELSE IF hooks # <<>> /\ hooks[Len(hooks)] = "executing" THEN "EXECUTING" ELSE "APPROVED"

(* No file that was planned or changed escapes validation, nothing else is *)
(* validated, the report is full only of a plan that was carried out, and  *)
(* what can be run is run for every target whose files ask for it.         *)
TargetsSound(ops, changes, allowed, runners) ==
  LET recon == ReconcileExecutionPlan(ops, changes)
      targets == GenerateValidationTargets(ops, recon, changes, allowed, FALSE)
      planned == {ops[i].file : i \in DOMAIN ops} \ {Null}
      commands == ResolveValidatorCommands(targets, runners)
      early == GenerateValidationTargets(ops, Null, <<>>, allowed, FALSE)
  IN  /\ {t.file : t \in early} = planned /\ \A t \in early : t.reason = "operation_match"
      /\ {t.file : t \in targets} = planned \cup ToSet(changes)
      /\ Cardinality(targets) = Cardinality({t.file : t \in targets})
      /\ recon.status = "full" <=> planned = ToSet(changes)
      /\ \A t \in targets : /\ t.reason = "executor_change" <=> t.file \in planned \cap ToSet(changes)
                            /\ t.reason = "reconciliation_unmatched" <=> t.file \notin ToSet(changes)
      /\ \A t \in targets : t.risk # {} => t.file \notin planned \cap ToSet(changes) \cap allowed
      /\ \A c, d \in commands : c.target = d.target /\ c.label = d.label => c = d
      /\ \A t \in targets : t.file.kind = "ts" =>
           \E c \in commands : c.target[1] = t.file /\ c.argv = <<"tsc">>
=============================================================================
