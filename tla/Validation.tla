------------------------------ MODULE Validation ------------------------------
(***************************************************************************)
(* The two validations of a run, both after every turn of the executor:    *)
(* the commands of the validation plan, one after the other with a cache   *)
(* of those that passed, and the validation run time, a graph of adapters  *)
(* by stage with a cache of every verdict.  A world is what they look at:  *)
(* the contents of the files and the state of the tools.                   *)
(***************************************************************************)
EXTENDS ExecutionPlan

LOCAL INSTANCE FiniteSetsExt
LOCAL INSTANCE SequencesExt

-----------------------------------------------------------------------------
(* The rows of the targets and those that the semantic propagation adds,   *)
(* one per file or directory: a row that is there only gets more labels.   *)
BuildConsolidatedTargetMap(targets, expanded) ==
  LET Base == [k \in {t.file : t \in targets} |->
                 [key |-> k, reason |-> (CHOOSE t \in targets : t.file = k).reason,
                  ops |-> (CHOOSE t \in targets : t.file = k).ops,
                  validators |-> (CHOOSE t \in targets : t.file = k).validators]]
      Merge(map, x) ==
        IF x.original THEN map
        ELSE IF x.key \in DOMAIN map
        THEN [map EXCEPT ![x.key].validators = @ \cup x.validators]
        ELSE (x.key :> [key |-> x.key, reason |-> Null, ops |-> {}, validators |-> x.validators])
             @@ map
  IN  FoldLeft(Merge, Base, expanded)

(* The commands of a plan: one per row and label, resolved if there is     *)
(* something to run.  A row for a directory has no file.                   *)
Commands(rows, runners) ==
  {[row |-> [key |-> rows[k].key, reason |-> rows[k].reason, ops |-> rows[k].ops], label |-> l,
    argv |-> IF rows[k].key.kind = "directory" /\ l \in {"eslint", "jest_or_vitest"} THEN Null
             ELSE Argv(rows[k].key, l, runners)] :
   <<k, l>> \in {p \in (DOMAIN rows) \X UNION {rows[k].validators : k \in DOMAIN rows} :
                   p[2] \in rows[p[1]].validators}}

(* What a plan is known by: what is run on what, for which changed paths,  *)
(* but nothing of the contents of the files.                               *)
PlanIdentity(rows, runners, changes, phase) ==
  [rows |-> rows, commands |-> Commands(rows, runners), changes |-> ToSet(changes), phase |-> phase]

(* The verdict of a tool: one that is killed or cannot be started is an    *)
(* error, any exit but zero a failure.  The type check reads every file.   *)
RunArgvSync(argv, world) ==
  LET read == IF argv = <<"tsc">> THEN DOMAIN world.files ELSE {argv[2]}
  IN  CASE world.tools[argv[1]] \in {"absent", "killed"} -> "error"
        [] world.tools[argv[1]] = "works" /\ \E f \in read : world.files[f] = "bad" -> "failed"
        [] world.tools[argv[1]] = "works" /\ \A f \in read : world.files[f] # "bad" -> "passed"

(* A hit is always reported as passed: the cache may hold nothing else.    *)
RunValidationExecutorSync_KeepAll(commands, identity, cache, world) ==
  LET resolved == {c \in commands : c.argv # Null}
      Hit(c) == <<identity, c>> \in cache
  IN  [rows |-> {[command |-> c, cached |-> Hit(c),
                  status |-> IF Hit(c) THEN "passed" ELSE RunArgvSync(c.argv, world)] : c \in resolved},
       cache |-> cache \cup {<<identity, c>> : c \in resolved}]

RunValidationExecutorSync(commands, identity, cache, world) ==
  LET resolved == {c \in commands : c.argv # Null}
      Hit(c) == <<identity, c>> \in cache
      rows == {[command |-> c, cached |-> Hit(c),
                status |-> IF Hit(c) THEN "passed" ELSE RunArgvSync(c.argv, world)] : c \in resolved}
  IN  [rows |-> rows,
       cache |-> cache \cup {<<identity, r.command>> : r \in {q \in rows : q.status = "passed"}}]

-----------------------------------------------------------------------------
(* The adapters of the validation run time.                                *)
AdapterOf ==
  [l \in {"eslint", "typescript", "typescript_project_refs", "json_parse", "yaml_parse",
          "markdown_lint", "gofmt", "golangci-lint", "phpstan"} |->
     CASE l = "eslint" -> "eslint"
       [] l \in {"typescript", "typescript_project_refs"} -> "typescript"
       [] l = "json_parse" -> "json"
       [] l = "yaml_parse" -> "yaml"
       [] l = "markdown_lint" -> "markdown"
       [] l = "gofmt" -> "gofmt"
       [] l = "golangci-lint" -> "golangci"
       [] l = "phpstan" -> "phpstan"]

StageOf ==
  [a \in {"json", "yaml", "typescript", "gofmt", "eslint", "markdown", "golangci", "phpstan"} |->
     CASE a \in {"json", "yaml"} -> "structural"
       [] a \in {"typescript", "gofmt"} -> "syntax"
       [] a \in {"eslint", "markdown"} -> "lightweight"
       [] a \in {"golangci", "phpstan"} -> "semantic"]

StagesForProfile(profile) ==
  {"structural", "syntax"}
  \cup (IF profile = "minimal" THEN {} ELSE {"lightweight"})
  \cup (IF profile = "strict" THEN {"semantic", "project"} ELSE {})

(* One node per adapter: it gets the files of all the targets that ask for *)
(* it, and the widest of their scopes.                                     *)
Asks(t, a) == \E l \in t.validators \cap DOMAIN AdapterOf : AdapterOf[l] = a

BuildValidationGraph(targets, profile) ==
  LET Of(a) == {t \in targets : Asks(t, a)}
      adapters == {a \in DOMAIN StageOf : StageOf[a] \in StagesForProfile(profile) /\ Of(a) # {}}
      Widest(scopes) == CASE "project" \in scopes -> "project"
                          [] "project" \notin scopes /\ "module" \in scopes -> "module"
                          [] OTHER -> "file"
  IN  {[adapter |-> a, stage |-> StageOf[a], paths |-> {t.file : t \in Of(a)},
        scope |-> Widest({t.scope : t \in Of(a)})] : a \in adapters}

(* Which of its files an adapter hands to its tool: the linter all.        *)
Own(adapter, paths) ==
  LET kinds == [typescript |-> {"ts"}, gofmt |-> {"go"}, golangci |-> {"go"},
                phpstan |-> {"php"}, markdown |-> {"md"}]
  IN  IF adapter \in DOMAIN kinds THEN {f \in paths : f.kind \in kinds[adapter]} ELSE paths

(* A tool that is not there is skipped, one that takes too long an error.  *)
(* JSON is read by the program itself.                                     *)
Execute(node, world) ==
  LET own == Own(node.adapter, node.paths)
      tool == IF node.adapter = "json" THEN "works" ELSE world.tools[node.adapter]
  IN  CASE own = {} \/ tool = "absent" -> "skipped"
        [] own # {} /\ tool = "killed" -> "error"
        [] own # {} /\ tool = "works" ->
             IF \E f \in own : world.files[f] = "bad" THEN "failed" ELSE "passed"

(* A verdict is remembered for the contents of the paths of the node.      *)
CacheKey_PathsOnly(node, world) == [adapter |-> node.adapter, paths |-> node.paths]

CacheKey(node, world) ==
  [adapter |-> node.adapter, contents |-> [f \in node.paths |-> world.files[f]]]

RunValidationOrchestration(nodes, cache, world) ==
  LET Status(n) == IF CacheKey(n, world) \in DOMAIN cache THEN cache[CacheKey(n, world)]
                   ELSE Execute(n, world)
      keys == {CacheKey(n, world) : n \in nodes}
  IN  [rows |-> {[node |-> n, status |-> Status(n), cached |-> CacheKey(n, world) \in DOMAIN cache] :
                 n \in nodes},
       cache |-> [k \in DOMAIN cache \cup keys |->
                    IF k \in DOMAIN cache THEN cache[k]
                    ELSE Status(CHOOSE n \in nodes : CacheKey(n, world) = k)]]

Failing(rows) == {r \in rows : r.status \in {"failed", "error"}}

DeriveSummaryStatus(rows) ==
  LET executed == {r \in rows : r.status # "skipped"}
  IN  CASE Failing(executed) = {} -> "passed"
        [] executed # {} /\ Failing(executed) = executed -> "failed"
        [] OTHER -> "partial"

-----------------------------------------------------------------------------
(* validation-results.json after a round: the plan's rows, overwritten by  *)
(* the rows of the run time when that is on and there is a target.         *)
Results(mode, targets, planRows, nodeRows) ==
  IF mode = "off" \/ targets = {} THEN [kind |-> "results", rows |-> planRows]
  ELSE [kind |-> "validators", rows |-> nodeRows]

(* Governance reads the rows of the run time only, and blocks for errors.  *)
ValidationCritical(doc) ==
  doc.kind = "validators" /\ \E r \in doc.rows : r.status = "error"

(* The review looks for commands without a row, in the plan's rows only.   *)
MissingRows(doc, commands) ==
  IF doc.kind # "results" THEN {}
  ELSE {c \in commands : c.argv # Null /\ \A r \in doc.rows : r.command # c}

-----------------------------------------------------------------------------
(* One round after the executor.  A setting is the mode and the profile of *)
(* the validation run time and the test runners of the project.            *)
Round(ops, setting, before, r) ==
  LET recon == ReconcileExecutionPlan(ops, r.changes)
      targets == GenerateValidationTargets(ops, recon, r.changes, {}, FALSE)
      map == BuildConsolidatedTargetMap(targets, r.expanded)
      commands == Commands(map, setting.runners)
      identity == PlanIdentity(map, setting.runners, r.changes, "post_reconciliation")
      exec == RunValidationExecutorSync(commands, identity, before.plan, r.world)
      nodes == BuildValidationGraph(targets, setting.profile)
      run == RunValidationOrchestration(nodes, before.nodes, r.world)
      on == setting.mode # "off" /\ targets # {}
  IN  [plan |-> exec.cache, nodes |-> IF on THEN run.cache ELSE before.nodes,
       identity |-> identity, commands |-> commands, targets |-> targets, graph |-> nodes,
       exec |-> exec.rows, run |-> IF on THEN run.rows ELSE {},
       doc |-> Results(setting.mode, targets, exec.rows, run.rows), world |-> r.world]

Rounds(ops, setting, rounds) ==
  LET First == [plan |-> {}, nodes |-> <<>>]
      Next(done, r) == Append(done, Round(ops, setting,
                                          IF done = <<>> THEN First ELSE done[Len(done)], r))
  IN  FoldLeft(Next, <<>>, rounds)

(* What a round reports happened: every command that can be run has one    *)
(* row, a command passes if it does so now or did for the same plan, a     *)
(* verdict of an adapter is of the contents of its files, and a round is   *)
(* summed up as passed only if nothing that ran failed.                    *)
RowsSound(done, i) ==
  LET now == done[i]
      Now(r) == RunArgvSync(r.command.argv, now.world)
  IN  /\ {r.command : r \in now.exec} = {c \in now.commands : c.argv # Null}
      /\ \A r, q \in now.exec : r.command = q.command => r = q
      /\ \A r \in now.exec :
           r.status = Now(r) \/
           /\ r.status = "passed"
           /\ \E j \in 1..i - 1 : /\ done[j].identity = now.identity
                                  /\ RunArgvSync(r.command.argv, done[j].world) = "passed"
      /\ \A r \in now.run :
           \E j \in 1..i : /\ \A f \in r.node.paths : done[j].world.files[f] = now.world.files[f]
                           /\ \E q \in done[j].run : /\ q.node.adapter = r.node.adapter
                                                     /\ q.node.paths = r.node.paths
                           /\ r.status = Execute(r.node, done[j].world)
      /\ DeriveSummaryStatus(now.run) = "passed" <=> Failing(now.run) = {}

(* No changed file is without its adapters, a stricter profile asks for no *)
(* less, no adapter has two nodes, and none gets the files of another.     *)
GraphSound(now, profile) ==
  /\ \A t \in now.targets, l \in DOMAIN AdapterOf :
       l \in t.validators /\ StageOf[AdapterOf[l]] \in StagesForProfile(profile) =>
         \E n \in now.graph : n.adapter = AdapterOf[l] /\ t.file \in n.paths
  /\ \A m, n \in now.graph : m.adapter = n.adapter => m = n
  /\ \A n \in now.graph : \A f \in n.paths : \E t \in now.targets : t.file = f /\ Asks(t, n.adapter)
  /\ \A n \in BuildValidationGraph(now.targets, "minimal") : n \in now.graph
  /\ now.graph \subseteq BuildValidationGraph(now.targets, "strict")

(* Whoever reads the results sees an adapter that could not end, whether   *)
(* or not its verdict is an old one; the plan's rows are only seen by the  *)
(* review, and only while the run time is off.                             *)
ReadersSound(now, setting) ==
  /\ ValidationCritical(now.doc) <=> \E r \in now.run : r.status = "error"
  /\ MissingRows(now.doc, now.commands) = {}
  /\ setting.mode = "off" => now.doc.rows = now.exec

RoundsSound(ops, setting, rounds) ==
  \A done \in {Rounds(ops, setting, rounds)} :
      \A i \in DOMAIN done : /\ RowsSound(done, i)
                             /\ GraphSound(done[i], setting.profile)
                             /\ ReadersSound(done[i], setting)

(* Not so: a command that passed is not run again after a correction that  *)
(* changed the same files, so its row may be of contents that are gone.    *)
VerdictsAreCurrent(ops, setting, rounds) ==
  LET done == Rounds(ops, setting, rounds)
  IN  \A i \in DOMAIN done : \A r \in done[i].exec :
        r.status = RunArgvSync(r.command.argv, done[i].world)
=============================================================================
