------------------------------ MODULE Preflight ------------------------------
(***************************************************************************)
(* What a run decides before it calls a model: the analysis of the task    *)
(* (scripts/runtime/preflight), the policy that is merged from profile,    *)
(* file, environment and command line (scripts/runtime/governance), and    *)
(* the verdict of both.                                                    *)
(*                                                                         *)
(* A task is a record [words, names, chars, lines]: the kinds of keywords  *)
(* and of paths that its text matches, and its size.  Ratios and averages  *)
(* are in hundredths.  Null stands for null and Bad for a number that does *)
(* not parse (NaN).  The prompt size and the cost are inputs.              *)
(***************************************************************************)
EXTENDS Integers, Sequences, FiniteSets, SequencesExt, FiniteSetsExt

CONSTANTS Null, Bad

Points(b, n) == IF b THEN n ELSE 0

(* Math.round(a / b).                                                      *)
Rounded(a, b) == (2 * a + b) \div (2 * b)

Clamp(n, lo, hi) == Max({lo, Min({hi, n})})

-----------------------------------------------------------------------------
(* The analysis of the task.                                               *)

(* The task speaks of two layers.                                          *)
CrossLayer(task) ==
  \E a, b \in task.words \cap {"frontend", "backend", "database", "orchestration"} : a # b

RuntimeCore(task) == task.names \cap {"runtime", "review"} # {}

Wide(task) == task.words \cap {"integration", "refactor"} # {}

FewestFiles(task, project) ==
  2 + Points(task.chars > 3500, 1) + Points(task.chars > 9000, 2) + Points(CrossLayer(task), 1)
    + Points(Wide(task), 1) + Points(RuntimeCore(task), 1)
    + Points(project.layered /\ CrossLayer(task), 1)

MostFiles(task, project) ==
  5 + Points(task.chars > 3500, 3) + Points(task.chars > 9000, 5) + Points(CrossLayer(task), 4)
    + Points(Wide(task), 3) + Points(RuntimeCore(task), 3)
    + Points(project.layered /\ CrossLayer(task), 2) + Points(project.files > 1200, 2)

(* The mean with what earlier runs changed, if there are any.              *)
Blend(n, known, history) == IF history.files > 0 THEN Rounded(n + known, 2) ELSE n

EstimateFileRange(task, project, history) ==
  LET docs == "docs" \in task.words
      min == IF docs THEN Min({FewestFiles(task, project), 2}) ELSE FewestFiles(task, project)
      max == IF docs THEN Min({MostFiles(task, project), 4}) ELSE MostFiles(task, project)
      hMin == Max({1, Rounded(history.files * 65, 100)})
      hMax == Max({hMin + 1, Rounded(history.files * 135, 100)})
      first == Clamp(Blend(min, hMin, history), 1, 40)
  IN  [min |-> first,
       max |-> Clamp(Max({Blend(max, hMax, history), first + 1}), first + 1, 48)]

RiskPoints(task, project, history, filesMax) ==
  (CASE filesMax >= 14 -> 4 [] filesMax \in 9..13 -> 3 [] filesMax \in 6..8 -> 2 [] OTHER -> 0)
  + Points(CrossLayer(task), 3) + Points(RuntimeCore(task), 4)
  + Points("secret" \in task.names \/ "security" \in task.words, 3)
  + Points("integration" \in task.words, 2) + Points("refactor" \in task.words, 2)
  + Points(project.hasRuntime /\ RuntimeCore(task), 2)
  + (CASE history.corrections >= 200 -> 3 [] history.corrections \in 130..199 -> 2 [] OTHER -> 0)
  + (CASE history.errors >= 10 -> 3 [] history.errors \in 4..9 -> 2 [] OTHER -> 0)
  + Points(history.inflation > 72, 2)

RiskTier(points) ==
  CASE points <= 5 -> "LOW" [] points \in 6..10 -> "MEDIUM" [] points \in 11..16 -> "HIGH"
    [] OTHER -> "CRITICAL"

SizePoints(task) ==
  Points(task.chars > 1500, 2) + Points(task.chars > 4500, 3) + Points(task.chars > 12000, 4)
  + Points(task.lines > 40, 2) + Points(task.lines > 120, 3)

WordPoints(task) ==
  Points("integration" \in task.words, 2) + Points("refactor" \in task.words, 3)
  + Points("orchestration" \in task.words, 2) + Points("security" \in task.words, 2)
  + Points("database" \in task.words, 1) + Points(CrossLayer(task), 4)
  + Points(RuntimeCore(task), 4)

ContextPoints(project, history) ==
  Points(project.files > 900, 2) + Points(project.files > 4000, 2)
  + Points(history.corrections >= 150, 3)

RangePoints(range) ==
  Min({6, Rounded(range.max - range.min, 3)}) + Min({5, Rounded(range.max, 5)})

ComplexityScore(task, project, history, range) ==
  LET score == SizePoints(task) + WordPoints(task) + ContextPoints(project, history)
               + RangePoints(range)
  IN  IF "docs" \in task.words THEN Max({0, score - 5}) ELSE score

ComplexityTier(score) ==
  CASE score <= 6 -> "LOW" [] score \in 7..12 -> "MEDIUM" [] score \in 13..20 -> "HIGH"
    [] OTHER -> "EXTREME"

(* The ranks of the levels of risk and of complexity.                      *)
Level == [LOW |-> 0, MEDIUM |-> 1, HIGH |-> 2, EXTREME |-> 3, CRITICAL |-> 3]

(* Of the warnings, the one that the policy reads.                         *)
TouchesRuntime(task) == RuntimeCore(task) \/ "orchestration" \in task.words

ChangeTypes(task) == task.words \cap {"refactor", "integration", "security", "database"}

Analyze(task, project, history) ==
  LET range == EstimateFileRange(task, project, history)
      risk == RiskTier(RiskPoints(task, project, history, range.max))
      complexity == ComplexityTier(ComplexityScore(task, project, history, range))
  IN  [risk |-> risk, complexity |-> complexity, files |-> range.max,
       severity |-> Max({Level[complexity], Level[risk]}),
       touchesRuntime |-> TouchesRuntime(task), kinds |-> ChangeTypes(task)]

-----------------------------------------------------------------------------
(* The policy.                                                             *)

Hard == {"BLOCK_CRITICAL", "BLOCK_ENTERPRISE"}
Profiles == {"FAST", "NORMAL", "STRICT", "ENTERPRISE"}
Demands == {"high_risk", "runtime_core", "migration_or_security", "confirm", "apply_later", "protected"}

Profile(p) ==
  [enforcement |-> CASE p = "STRICT" -> "BLOCK_CRITICAL" [] p = "ENTERPRISE" -> "BLOCK_ENTERPRISE"
                     [] OTHER -> "WARN",
   cost |-> Null, corrections |-> Null, mode |-> "report", resolution |-> "block",
   ratio |-> CASE p = "FAST" -> Null [] p = "NORMAL" -> 92 [] p = "STRICT" -> 90 [] OTHER -> 85,
   files |-> CASE p = "STRICT" -> 24 [] p = "ENTERPRISE" -> 20 [] OTHER -> Null,
   prompt |-> CASE p = "STRICT" -> 180000 [] p = "ENTERPRISE" -> 120000 [] OTHER -> Null,
   inflation |-> CASE p = "FAST" -> Null [] p = "NORMAL" -> 75 [] p = "STRICT" -> 72 [] OTHER -> 68,
   demands |-> CASE p = "STRICT" -> Demands \ {"apply_later"} [] p = "ENTERPRISE" -> Demands
                 [] OTHER -> {}]

(* The first value that is not null.                                       *)
Pick(values) ==
  LET there == {i \in DOMAIN values : values[i] # Null}
  IN  IF there = {} THEN Null ELSE values[Min(there)]

(* The limits a file may set, two of them under two names; the later name  *)
(* is the older one.                                                       *)
Names == [cost |-> <<"cost">>, ratio |-> <<"ratio">>, inflation |-> <<"inflation">>,
          files |-> <<"files", "files_estimate">>, prompt |-> <<"prompt", "prompt_estimate">>,
          corrections |-> <<"corrections_cap", "corrections">>,
          mode |-> <<"mode">>, resolution |-> <<"resolution">>]

Get(file, key) == IF key \in DOMAIN file THEN file[key] ELSE Null

Explicit(file, field) == [i \in DOMAIN Names[field] |-> Get(file, Names[field][i])]

DemandsOf(file, base) ==
  {d \in Demands : IF Get(file, d) # Null THEN Get(file, d) = "yes" ELSE d \in base.demands}

Merged(file, base) ==
  [f \in DOMAIN Names \cup {"enforcement", "demands"} |->
     CASE f = "enforcement" -> base.enforcement
       [] f = "demands" -> DemandsOf(file, base)
       [] OTHER -> Pick(Append(Explicit(file, f), base[f]))]

(* A profile of the command line is merged a second time; the limit on the *)
(* cost is not.                                                            *)
MergedAgain(file, base, merged) ==
  [f \in DOMAIN merged |->
     CASE f = "cost" -> merged.cost
       [] f = "enforcement" -> base.enforcement
       [] f = "demands" -> DemandsOf(file, base)
       [] f \in {"files", "prompt"} ->
            LET given == Explicit(file, f)
                default == IF Pick(given) # Null THEN Null ELSE Pick(<<base[f], merged[f]>>)
            IN  Pick(given \o <<default, merged[f]>>)
       [] OTHER -> Pick(Explicit(file, f) \o <<base[f], merged[f]>>)]

(* The flags of the command line are also written to the environment.      *)
ApplyCli(env, cli) ==
  [profile |-> Pick(<<cli.profile, env.profile>>), disable |-> env.disable \/ cli.disable,
   bypass |-> env.bypass \/ cli.bypass, limits |-> env.limits]

NoFlags == [profile |-> Null, bypass |-> FALSE, disable |-> FALSE]

Override(env, merged) ==
  [f \in DOMAIN merged |->
     IF f \in {"cost", "files", "corrections", "mode", "resolution"} \cap DOMAIN env.limits
     THEN env.limits[f] ELSE merged[f]]

(* The environment is a record of parsed values; `cli` has the flags.      *)
LoadMergedPolicy(file, env, cli) ==
  LET profile == Pick(<<cli.profile, Get(file, "profile"), env.profile>>)
      base == Profile(profile)
      first == Merged(file, base)
      merged == IF cli.profile = Null THEN first ELSE MergedAgain(file, base, first)
      bypass == cli.bypass \/ env.bypass \/ Get(file, "bypass_always") = "yes"
  IN  IF cli.disable \/ env.disable
      THEN [disabled |-> TRUE, bypass |-> bypass, profile |-> "NORMAL",
            merged |-> Profile("NORMAL")]
      ELSE [disabled |-> FALSE, bypass |-> bypass, profile |-> profile,
            merged |-> Override(env, merged)]

AllowsHardGate(pack) == ~pack.bypass /\ pack.merged.enforcement \in Hard

ResolveMode(pack) ==
  LET enforce == ~pack.disabled /\ pack.merged.mode = "enforce"
  IN  [mode |-> IF enforce THEN "enforce" ELSE "report",
       hard |-> enforce /\ ~pack.bypass,
       resolution |-> IF ~pack.disabled THEN pack.merged.resolution ELSE "block"]
-----------------------------------------------------------------------------
(* The verdict before the run.  `est` has what the cost estimator says:    *)
(* the size of the prompts and the cost, Null without prices.              *)

Caps(limit) == limit \notin {Null, Bad}
Over(value, limit) == Caps(limit) /\ value # Null /\ value > limit

SensitiveText(task) == task.names \cap {"runtime", "replay"} # {}

\* Mutated form: the warning of the analysis is not looked at.
Signals_TextOnly(task, report) ==
  {s \in {"high_risk", "complex", "runtime_core", "migration_or_security"} :
     CASE s = "high_risk" -> report.risk \in {"HIGH", "CRITICAL"}
       [] s = "complex" -> report.complexity \in {"HIGH", "EXTREME"}
       [] s = "runtime_core" -> SensitiveText(task)
       [] OTHER -> report.kinds \cap {"security", "database"} # {} \/ SensitiveText(task)}

Signals(task, report) ==
  {s \in {"high_risk", "complex", "runtime_core", "migration_or_security"} :
     CASE s = "high_risk" -> report.risk \in {"HIGH", "CRITICAL"}
       [] s = "complex" -> report.complexity \in {"HIGH", "EXTREME"}
       [] s = "runtime_core" -> report.touchesRuntime \/ SensitiveText(task)
       [] OTHER -> report.kinds \cap {"security", "database"} # {} \/ SensitiveText(task)}

MandatoryDryRun(merged, signals) ==
  \/ merged.demands \cap {"high_risk", "runtime_core", "migration_or_security"} \cap signals # {}
  \/ merged.enforcement = "BLOCK_ENTERPRISE" /\ {"complex", "high_risk"} \subseteq signals

EffectiveCorrections(cap, envMax) ==
  IF Caps(cap) THEN Min({envMax, Max({0, cap})}) ELSE envMax

(* The decisions of the policy; only under a hard gate do they block.      *)
Decisions(pack, task, report, est, dry) ==
  LET m == pack.merged
      signals == Signals(task, report)
      hard == AllowsHardGate(pack)
      later == "apply_later" \in m.demands /\ "runtime_core" \in signals /\ ~dry
      needsDry == MandatoryDryRun(m, signals)
      warnAt == IF Caps(m.ratio) THEN m.ratio ELSE 92
      said == {c \in {"dry_run", "apply_later", "cost", "files", "prompt",
                      "cost_near", "inflation", "override"} :
                 CASE c = "dry_run" -> needsDry /\ ~dry /\ ~pack.bypass
                   [] c = "apply_later" -> later /\ hard
                   [] c = "cost" -> Over(est.cost, m.cost)
                   [] c = "files" -> Over(report.files, m.files)
                   [] c = "prompt" -> Over(est.prompt, m.prompt)
                   [] c = "cost_near" -> /\ Caps(m.cost) /\ est.cost # Null /\ est.cost <= m.cost
                                         /\ est.cost * 100 >= m.cost * warnAt
                   [] c = "inflation" -> Over(est.inflation, m.inflation)
                   [] OTHER -> needsDry /\ ~dry /\ pack.bypass}
  IN  {[code |-> c, blocker |-> hard /\ c \notin {"cost_near", "inflation", "override"}] : c \in said}

EvaluateRuntimeGovernance(pack, task, report, est, dry, envMax) ==
  LET m == pack.merged
      signals == Signals(task, report)
      decisions == Decisions(pack, task, report, est, dry)
      later == "apply_later" \in m.demands /\ "runtime_core" \in signals /\ ~dry
  IN  IF pack.disabled
      THEN [block |-> FALSE, dryRun |-> FALSE, confirm |-> FALSE, corrections |-> envMax,
            decisions |-> {}]
      ELSE [block |-> ~pack.bypass /\ \E d \in decisions : d.blocker,
            dryRun |-> MandatoryDryRun(m, signals),
            confirm |-> \/ "confirm" \in m.demands /\ signals \ {"complex"} # {}
                        \/ m.enforcement = "BLOCK_ENTERPRISE" /\ "complex" \in signals /\ later,
            corrections |-> EffectiveCorrections(m.corrections, envMax),
            decisions |-> decisions]

(* The severity of the report after the policy has spoken.                 *)
EscalateOperational(pack, report, gov, dry) ==
  LET shape == \E d \in gov.decisions : d.code \in {"inflation", "files", "prompt"}
      strong == gov.confirm \/ gov.block \/ (gov.dryRun /\ ~dry)
  IN  IF pack.disabled THEN report.severity
      ELSE Max({report.severity, IF shape THEN 2 ELSE 0, IF strong THEN 3 ELSE 0})

(* An operator is asked only at a terminal; elsewhere the answer is yes.   *)
Asked(operator, needed) == needed /\ operator.terminal /\ ~operator.skip

ExecutePreflightPhase(task, report, gov, operator) ==
  CASE gov.block -> "POLICY_BLOCKED"
    [] ~gov.block /\ Asked(operator, gov.confirm) /\ ~operator.yes -> "GOVERNANCE_CANCELLED"
    [] ~gov.block /\ ~(Asked(operator, gov.confirm) /\ ~operator.yes)
         /\ Asked(operator, report.complexity # "LOW") /\ ~operator.yes -> "PREFLIGHT_CANCELLED"
    [] OTHER -> "proceeds"

(* Apply later: some changed path is protected, and a hard gate.           *)
EvaluateApply(pack, touchesProtected) ==
  pack.disabled \/ ~touchesProtected \/ "protected" \notin pack.merged.demands
    \/ ~AllowsHardGate(pack)

-----------------------------------------------------------------------------
(* What the policy promises.                                               *)

(* Every limit is the first that is given by the environment, the file and *)
(* the profile, wherever the profile comes from.  Who reads the policy     *)
(* later, from the environment alone, finds the same bypass, and the same  *)
(* profile unless the file has one.                                        *)
MergeSound(file, env, cli) ==
  LET pack == LoadMergedPolicy(file, env, cli)
      later == LoadMergedPolicy(file, ApplyCli(env, cli), NoFlags)
      base == Profile(pack.profile)
      Given(f) == IF f \in DOMAIN env.limits THEN <<env.limits[f]>> ELSE <<>>
  IN  /\ later.bypass = pack.bypass /\ later.disabled = pack.disabled
      /\ later.profile # pack.profile => later.profile = Get(file, "profile")
      /\ ~pack.disabled =>
        /\ pack.merged.enforcement = base.enforcement
        /\ \A f \in DOMAIN Names :
             pack.merged[f] = Pick(Given(f) \o Explicit(file, f) \o <<base[f]>>)
        /\ pack.merged.demands = DemandsOf(file, base)
        /\ ResolveMode(pack).hard =>
             ~pack.bypass /\ Pick(Given("mode") \o Explicit(file, "mode")) = "enforce"

(* What of a task a strict profile does not let through.                   *)
Sensitive(task, report) ==
  \/ task.names \cap {"runtime", "review", "replay"} # {}
  \/ task.words \cap {"orchestration", "security", "database"} # {}
  \/ report.risk \in {"HIGH", "CRITICAL"}

(* A real run of a sensitive task is stopped by a strict profile that no   *)
(* file waters down, and only a bypass or a dry run gets it past; lax      *)
(* profiles and bypasses stop nothing.  What a profile stops or refuses to *)
(* apply, the next stricter one does too, and no profile grants more       *)
(* corrections than the process allows.  A stop is seen by everybody; a    *)
(* confirmation only by who sits at a terminal.                            *)
Stricter ==
  [FAST |-> "NORMAL", NORMAL |-> "STRICT", STRICT |-> "ENTERPRISE", ENTERPRISE |-> "ENTERPRISE"]

VerdictSound(task, project, history, est, file, env, cli, dry, envMax) ==
  LET report == Analyze(task, project, history)
      pack == LoadMergedPolicy(file, env, cli)
      next == LoadMergedPolicy(file, env, [cli EXCEPT !.profile = Stricter[@]])
      gov == EvaluateRuntimeGovernance(pack, task, report, est, dry, envMax)
      onlyDry == EvaluateRuntimeGovernance(pack, task, report, est, TRUE, envMax)
      nextGov == EvaluateRuntimeGovernance(next, task, report, est, dry, envMax)
      severity == EscalateOperational(pack, report, gov, dry)
      strict == ~pack.disabled /\ ~pack.bypass /\ cli.profile \in {"STRICT", "ENTERPRISE"}
      Phase(yes, terminal) ==
        ExecutePreflightPhase(task, report, gov, [yes |-> yes, terminal |-> terminal, skip |-> FALSE])
  IN  /\ gov.block => strict /\ severity = 3
      /\ strict /\ ~dry /\ Sensitive(task, report) /\ DOMAIN file \cap Demands = {} => gov.block
      /\ onlyDry.block => \E d \in onlyDry.decisions : d.code \in {"cost", "files", "prompt"}
      /\ gov.block => nextGov.block
      /\ gov.confirm => nextGov.confirm
      /\ EvaluateApply(next, TRUE) => EvaluateApply(pack, TRUE)
      /\ gov.corrections \in 0..envMax
      /\ severity >= report.severity
      /\ \A yes \in BOOLEAN : (Phase(yes, FALSE) = "proceeds") = ~gov.block
      /\ Phase(FALSE, TRUE) = "proceeds" => ~gov.block /\ ~gov.confirm

(* A task that says more is not taken for less, except that it is only     *)
(* documentation.                                                          *)
AnalysisSound(task, project, history) ==
  LET report == Analyze(task, project, history)
      More == {[task EXCEPT !.words = @ \cup {w}] :
                 w \in {"integration", "frontend", "backend", "database", "security",
                        "orchestration", "refactor"}}
              \cup {[task EXCEPT !.names = @ \cup {n}] :
                       n \in {"runtime", "review", "replay", "secret"}}
              \cup {[task EXCEPT !.chars = 13000], [task EXCEPT !.lines = 200]}
  IN  \A t \in More :
        LET other == Analyze(t, project, history)
        IN  /\ other.files >= report.files /\ other.severity >= report.severity
            /\ Level[other.risk] >= Level[report.risk]
            /\ Signals(task, report) \subseteq Signals(t, other)
=============================================================================
