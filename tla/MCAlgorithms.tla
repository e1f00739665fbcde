---------------------------- MODULE MCAlgorithms ----------------------------
(***************************************************************************)
(* Applies the algorithms of the run time to every small input: a step     *)
(* chooses one, and the invariants compare what the algorithm makes of it  *)
(* with a definition of what it promises.                                  *)
(***************************************************************************)
EXTENDS RunPolicy, RunRecords, FiniteSets, TLC

G == INSTANCE ExecutionGraph
X == INSTANCE PatchSet
W == INSTANCE Snippets
V == INSTANCE Validation
R == INSTANCE Propagation
Z == INSTANCE Review
H == INSTANCE Hybrid

-----------------------------------------------------------------------------
(* Graphs of three nodes with both kinds of edges, of four nodes with one, *)
(* and the graph of the pipeline.                                          *)
ThreeNodes ==
  {[nodes |-> 1..3, hard |-> {e \in DOMAIN k : k[e] = "hard"},
    cond |-> {e \in DOMAIN k : k[e] = "cond"}, repeat |-> {}] :
   k \in [{e \in (1..3) \X (1..3) : e[1] # e[2]} -> {"none", "hard", "cond"}]}

FourNodes ==
  {[nodes |-> 1..4, hard |-> E, cond |-> {}, repeat |-> {<<4, 1>>}] :
   E \in SUBSET {e \in (1..4) \X (1..4) : e[1] # e[2]}}

(* A node that has gone some way, one of the other nodes being blocked.    *)
Worked(g, n, path, b) ==
  LET Step(q, to) == G!Transition(q, n, to)
      start == [ok |-> TRUE, counter |-> 0, doc |-> G!Snapshot(g)]
  IN  G!Transition(G!FoldLeft(Step, start, path), b, "blocked").doc

Paths == {<<>>, <<"ready">>, <<"skipped">>, <<"ready", "running", "completed">>,
          <<"ready", "running", "failed">>}

ChooseGraph == \E g \in ThreeNodes \cup FourNodes \cup {G!Canonical} :
                 input' = [case |-> "graph", g |-> g]

ChooseWork(path) ==
  \E g \in ThreeNodes, n, b \in 1..3 :
    n # b /\ input' = [case |-> "work", g |-> g, doc |-> Worked(g, n, path, b)]

ChooseReplay(g) ==
  IF g = G!Canonical
  THEN \E t, u, s, r \in g.nodes :
         input' = [case |-> "replay", g |-> g, targets |-> {t, u}, stops |-> {s, r}]
  ELSE \E t \in g.nodes, u \in 1..5, stops \in {{}, {1}, {3}, {2, 4}} :
         input' = [case |-> "replay", g |-> g, targets |-> {t, u}, stops |-> stops]

ChooseRun ==
  \E n \in 0..6 : \E c \in [1..n -> {G!PipelinePhases[p] : p \in 1..4}] :
  \E missing \in SUBSET {G!Plan, G!ValidationPlan, G!Validator, G!Knowledge} :
    G!IsPipelineRun(c) /\ input' = [case |-> "overlay", checkpoints |-> c, present |-> (1..9) \ missing]

-----------------------------------------------------------------------------
(* Tasks with every set of keywords and of names, over a quiet and a rough *)
(* history; the limits of a policy around what the task needs.             *)
Quiet == [files |-> 0, corrections |-> 0, errors |-> 0, inflation |-> 0]
Rough == [files |-> 20, corrections |-> 160, errors |-> 4, inflation |-> 80]
Small == [files |-> 100, layered |-> FALSE, hasRuntime |-> FALSE]
Large == [files |-> 5000, layered |-> TRUE, hasRuntime |-> TRUE]

ChooseTask ==
  \E w \in SUBSET Words, n \in {{}, {"runtime"}, {"review", "secret"}, {"replay"}},
     size \in {<<100, 3>>, <<5000, 50>>}, h \in {Quiet, Rough}, p \in {Small, Large} :
    input' = [case |-> "task", history |-> h, project |-> p,
              task |-> [words |-> w, names |-> n, chars |-> size[1], lines |-> size[2]]]

Files ==
  {<<>>, [profile |-> "FAST"], [profile |-> "ENTERPRISE", bypass_always |-> "yes"],
   [files |-> 3, files_estimate |-> 30], [files_estimate |-> Bad], [files |-> Null, prompt |-> 90],
   [cost |-> 10, ratio |-> 50], [corrections_cap |-> -1], [corrections |-> 9, mode |-> "enforce"],
   [high_risk |-> "no", runtime_core |-> "no"], [protected |-> "no", confirm |-> "yes"],
   [corrections |-> Bad, prompt_estimate |-> 50, inflation |-> 10]}

Environments ==
  {[profile |-> p, disable |-> d, bypass |-> b, limits |-> l] :
     p \in {"NORMAL", "STRICT"}, d \in {FALSE}, b \in BOOLEAN,
     l \in {<<>>, [files |-> 8], [corrections |-> 1, cost |-> 5, mode |-> "report"]}}
  \cup {[profile |-> "NORMAL", disable |-> TRUE, bypass |-> FALSE, limits |-> <<>>]}

Flags == {[profile |-> p, bypass |-> b, disable |-> d] :
            p \in P!Profiles \cup {Null}, b, d \in BOOLEAN}

ChooseMerge ==
  \E f \in Files, e \in Environments, c \in Flags :
    input' = [case |-> "merge", file |-> f, env |-> e, cli |-> c]

TwoEstimates == {[cost |-> Null, prompt |-> 40, inflation |-> Null],
                 [cost |-> 7, prompt |-> 100, inflation |-> 80]}

ChooseVerdict(f) ==
  \E e \in Environments, est \in TwoEstimates, dry \in BOOLEAN, max \in {0, 3}, c \in P!Profiles :
  \E w \in {{}, {"orchestration"}, {"security", "backend"},
            {"database", "backend", "integration", "refactor"}},
     n \in {{}, {"review"}, {"replay"}} :
    input' = [case |-> "verdict", project |-> Small, history |-> Quiet,
              file |-> f, env |-> e, est |-> est, dry |-> dry, max |-> max,
              cli |-> [profile |-> c, bypass |-> FALSE, disable |-> FALSE],
              task |-> [words |-> w, names |-> n, chars |-> 2000, lines |-> 9]]

-----------------------------------------------------------------------------
(* Texts with every mixture of line ends; sets of up to three patches of   *)
(* two files; every answer of the model; windows over a short file.        *)
Texts(chars, lo, hi) == UNION {[1..n -> chars] : n \in lo..hi}

Patches ==
  [search : Texts({"a", "CR", "LF"}, 1, 2),
   replace : Texts({"b", "CR", "LF", "$&"}, 0, 1) \cup {<<"b", "LF">>, <<"$&", "LF">>, <<"CR", "LF">>}]

ChoosePatch(p) ==
  \E t \in Texts({"a", "CR", "LF"}, 0, 6) :
    input' = [case |-> "patch", text |-> t, search |-> p.search, replace |-> p.replace]

Project ==
  [p |-> [kind |-> "text", text |-> <<"a", "LF", "b">>],
   q |-> [kind |-> "text", text |-> <<"a", "CR", "LF", "a">>],
   contexto |-> [kind |-> "symlink", text |-> <<>>],
   dir |-> [kind |-> "directory", text |-> <<>>],
   bin |-> [kind |-> "binary", text |-> <<>>]]

Change(path, search, replace) ==
  [operation |-> "patch", path |-> path, search |-> search, replace |-> replace]

Edits == {Change(p, s, r) : p \in {"p", "q"}, s \in {<<"a">>, <<"b">>, <<"LF", "a">>},
                            r \in {<<"a">>, <<"b">>, <<"LF">>}}

OddEdits == {Change(p, <<"a">>, <<"b">>) : p \in {"", "../p", "/p", "none", "contexto", "dir", "bin"}}
            \cup {Change("p", <<>>, <<"b">>), [Change("p", <<"a">>, <<"b">>) EXCEPT !.operation = "create"]}

Scopes == {{"p"}, {"p", "q", "none", "contexto", "bin", "../p", "/p"}, {"p", "dir"}}

ChooseSet ==
  \/ \E c \in UNION {[1..n -> Edits] : n \in 0..3} :
       input' = [case |-> "set", allowed |-> {"p", "q"}, changes |-> c]
  \/ \E a \in Scopes, c, d \in OddEdits \cup {Change("p", <<"a">>, <<"b">>)} :
       input' = [case |-> "set", allowed |-> a, changes |-> <<c, d>>]

ChooseAnswer(a) ==
  \E parses, object, noop, concrete, hint \in BOOLEAN,
     status \in {"success", "blocked", "other"}, reason, evidence \in {"none", "own", "not_found", "noop"},
     c \in {<<>>} \cup {<<e>> : e \in OddEdits \cup {Change("p", <<"a">>, <<"b">>),
           Change("p", <<"a">>, <<"a">>), Change("p", <<"c">>, <<"b">>), Change("q", <<"a">>, <<"b">>)}}
          \cup {<<Change("p", <<"a">>, <<"b">>), Change("p", <<"a">>, <<"b">>)>>} :
    input' = [case |-> "answer", allowed |-> a,
              answer |-> [parses |-> parses, object |-> object, status |-> status, changes |-> c,
                          noop |-> noop, concrete |-> concrete, reason |-> reason,
                          evidence |-> evidence, hint |-> hint]]

(* Files of a few declarations, one or two patches of them, and flags of   *)
(* the structural way from none of its reports to all.                     *)
SourceLines == {<<"i", "x">>, <<"v", "x">>, <<"v", "y">>, <<"e", "v", "x">>, <<"c", "x">>, <<"x">>, <<>>}

TwoLines == {l \o e \o m : l, m \in SourceLines, e \in {<<"LF">>, <<"CR", "LF">>}}

ThreeLines == {<<"i", "x", "LF", "v", "y", "LF", "f", "z">>, <<"v", "x", "CR", "LF", "v", "y", "LF", "x">>,
               <<"v", "y", "CR", "LF", "v", "z", "CR", "LF", "x">>, <<"e", "v", "x", "LF", "v", "z", "LF", "y">>}

Sources == [p : TwoLines \cup ThreeLines, q : {<<"f", "x">>}]

Patch == {Change("p", s, r) : s \in {<<"x">>, <<"y">>, <<"v", "x">>, <<"x", "LF">>, <<"LF", "v">>, <<"x", "LF", "v">>},
                               r \in {<<>>, <<"y">>, <<"$<">>, <<"LF", "v", "x">>, <<"!">>, <<"$&", "y">>}}

Elsewhere == {Change("q", <<"x">>, <<"z">>), Change("q", <<"f">>, <<"!">>), Change("q", <<"y">>, <<>>)}

Structural == [languages |-> {"p", "q"}, min |-> 90, controlled |-> TRUE, governance |-> FALSE,
               block |-> FALSE, foundation |-> TRUE, idempotency |-> FALSE, excerpt |-> 99]

Settled == {Structural, [Structural EXCEPT !.governance = TRUE, !.min = 95],
            [Structural EXCEPT !.controlled = FALSE, !.min = 60, !.idempotency = TRUE, !.excerpt = 3],
            [Structural EXCEPT !.languages = {"q"}, !.governance = TRUE, !.foundation = FALSE]}

ChooseHybrid(source) ==
  \/ \E f \in Settled, c \in Patch :
       input' = [case |-> "hybrid", source |-> source, flags |-> f, changes |-> <<c>>]
  \/ /\ source.p \in ThreeLines
     /\ \E f \in Settled, c \in Patch, d \in Patch \cup Elsewhere :
          input' = [case |-> "hybrid", source |-> source, flags |-> f, changes |-> <<c, d>>]

Base == [snippet |-> 6000, targeted |-> 4, window |-> 1200, refMin |-> 1200, refRatio |-> 45,
         refTargeted |-> 2, refWindow |-> 65]

Bases == {Base, [Base EXCEPT !.snippet = 500, !.refMin = 100], [Base EXCEPT !.window = 330],
          [Base EXCEPT !.targeted = 0, !.refTargeted = 0], [Base EXCEPT !.window = 40000]}

ChooseSnippets(length) ==
  \/ \E window \in {1, 4}, max \in {1, 3, 4} :
     \E at \in [1..5 -> {{}, {0}, {1, 9}, {3}, {4, 8}, {6, 10}}] :
       input' = [case |-> "snippets", length |-> length, window |-> window, max |-> max,
                 keywords |-> {[name |-> k, len |-> 1 + (k % 2), at |-> at[k]] : k \in 1..5}]
  \/ \E base \in Bases, strategy \in {"search_not_found", "search_not_unique", "json_parse_failed"} :
       input' = [case |-> "sizes", base |-> base, cause |-> strategy]
  \/ \E correction \in BOOLEAN, named, applied, allowed \in SUBSET (1..3) :
       input' = [case |-> "rebuild", correction |-> correction, named |-> named,
                 applied |-> applied, allowed |-> allowed]

-----------------------------------------------------------------------------
(* Plans with every graph of dependencies of three operations and with ids *)
(* that are missing or used twice; what one or two commands do to the      *)
(* state of a plan; operations against changes; rounds of validation.      *)
File(name, kind, dir) == [name |-> name, kind |-> kind, dir |-> dir]
Code == File("a", "ts", "src")
Config == File("tsconfig", "tsconfig", ".")
Data == File("d", "json", "src/sub")
Text == File("t", "md", ".")

Operation(id, scope, file, deps) == [id |-> id, scope |-> scope, file |-> file, deps |-> deps]

ChoosePlan(k) ==
  \/ \E k1, k2, k3 \in SUBSET (1..3), d \in {<<2, 3>>, <<2, 2>>, <<0, 3>>, <<1, 2>>},
        f \in {Null, Code}, allowed \in {{}, {Code}, {Data}} :
       input' = [case |-> "plan", allowed |-> allowed,
                 ops |-> SubSeq(<<Operation(1, FALSE, f, k1), Operation(d[1], FALSE, Null, k2),
                                  Operation(d[2], FALSE, Null, k3)>>, 1, k)]
  \/ \E n \in 0..2, bullets \in {0, 1, 2, 3, 47, 48, 49, 60} :
       input' = [case |-> "draft", bullets |-> bullets, allowed |-> SubSeq(<<Code, Data>>, 1, n)]

Turns == <<"executing", "completed", "executing", "completed">>

Commands == {SubSeq(Turns, 1, 2 * k) \o e : k \in 0..2,
             e \in {<<>>, <<"executing">>, <<"executing", "failed">>, <<"finish">>, <<"blocked">>,
                    <<"partial">>}}

ChooseHooks == \E c, d \in Commands : input' = [case |-> "hooks", hooks |-> c \o d]

ChooseTargets(n) ==
  \E o \in [1..n -> [file : {Null, Code, Data, Text}, scope : BOOLEAN]] :
  \E m \in 0..3 : \E changes \in [1..m -> {Code, Data, Text}] :
  \E allowed \in {{}, {Code}, {Code, Data, Text}}, runners \in SUBSET {"jest", "vitest"} :
    input' = [case |-> "targets", changes |-> changes, allowed |-> allowed, runners |-> runners,
              ops |-> [i \in 1..n |-> Operation(i, o[i].scope, o[i].file, {})]]

World(bad, state) ==
  [files |-> [f \in {Code, Config, Data, Text} |-> IF f \in bad THEN "bad" ELSE "good"],
   tools |-> [t \in {"eslint", "jest", "vitest", "tsc", "typescript", "markdown"} |-> state]]

Tree == [original |-> FALSE, key |-> File("src", "directory", "."), validators |-> {"eslint", "typescript"}]
More == [original |-> FALSE, key |-> Code, validators |-> {"stylelint"}]

RoundsOf(changes, bad, states, expanded) ==
  {[changes |-> c, world |-> World(b, s), expanded |-> x] :
     <<c, b, s, x>> \in changes \X bad \X states \X expanded}

ChooseRounds(setting) ==
  \/ \E r, q \in RoundsOf({<<Code>>, <<Code, Config>>, <<Data, Text>>}, SUBSET {Code, Data},
                          {"works", "absent", "killed"}, {<<>>, <<Tree, More>>}) :
       input' = [case |-> "rounds", setting |-> setting, rounds |-> <<r, q>>]
  \/ \E r, q, t \in RoundsOf({<<Code>>, <<Code, Data>>}, {{}, {Code}},
                             {"works", "killed"}, {<<>>}) :
       input' = [case |-> "rounds", setting |-> setting, rounds |-> <<r, q, t>>]

Settings ==
  {[mode |-> m, profile |-> p, runners |-> {"jest"}] :
     m \in {"report"}, p \in {"minimal", "balanced", "strict"}}
  \cup {[mode |-> "off", profile |-> "balanced", runners |-> {"vitest"}]}

-----------------------------------------------------------------------------
(* Every way in which four files import one another, two of them beside    *)
(* each other in one directory; limits that cut and limits that do not.    *)
Relations == SUBSET {e \in (1..4) \X (1..4) : e[1] # e[2]}
ImportsOf(E) == [f \in 1..4 |-> {g \in 1..4 : <<f, g>> \in E}]

Dir == <<<<>>, <<"m">>, <<"m", "s">>, <<"m", "s">>>>
Order == (<<"m">> :> 1) @@ (<<"m", "s">> :> 2)

ChooseImpact(nodes) ==
  \E E \in Relations, targets \in {1..4, 2..4} :
    input' = [case |-> "impact", targets |-> [f \in targets |-> ImportsOf(E)[f]],
              project |-> [exists |-> 1..3, tests |-> {2}, guess |-> (2 :> 1)], planned |-> {1},
              limits |-> [reverseDepth |-> 3, reverseNodes |-> nodes,
                          forwardDepth |-> 2, forwardNodes |-> 12 - nodes], max |-> 2 * nodes]

Lists == {<<>>} \cup UNION {[1..n -> {1, 2, 3, Null}] : n \in 1..2}

Chains == {<<>>} \cup {<<f>> : f \in 1..5}

ChooseReading(limits) ==
  \E sources \in {<<[1..3 -> Lists], {{1, 4}, {3}}>>, <<[1..5 -> Chains], {{1, 4}}>>} :
  \E s \in sources[1], entries \in sources[2] :
    input' = [case |-> "reading", source |-> s, entries |-> entries,
              limits |-> [depth |-> limits[1], files |-> limits[2], edges |-> limits[3],
                          turns |-> limits[4]]]

ChooseMutation(roots) ==
  \E E \in Relations, cut \in {<<3, 9, 99, {}, 2>>, <<1, 9, 99, {2, 3}, 1>>,
                                 <<3, 2, 99, {1}, 9>>, <<3, 9, 2, {}, 9>>} :
    input' = [case |-> "mutation", imports |-> ImportsOf(E), original |-> cut[4], cap |-> cut[5],
              limits |-> [hops |-> cut[1], nodes |-> cut[2], edges |-> cut[3]],
              roots |-> [f \in roots |-> IF f = 4 THEN {"unexpected"} ELSE {"direct_change"}]]

ChooseReach ==
  \E k \in 0..5, missing \in {0, 1, 5} : \E levels \in [1..k -> {1, 2, 5, 39, 119}] :
  LET seeds == IF k = 0 THEN 0 ELSE levels[1]
  IN  input' = [case |-> "reach", levels |-> levels, seeds |-> seeds, roots |-> seeds + missing]

-----------------------------------------------------------------------------
(* What a review may leave, and the two kinds of it that runs go on from.  *)
Violation(n, kind, critical) == [n |-> n, kind |-> kind, critical |-> critical]

Violations ==
  {{}, {Violation(1, "invariants", TRUE)},
   {Violation(1, "manifests", FALSE), Violation(2, "replay mismatch", FALSE)},
   {Violation(1, "invariants", FALSE), Violation(2, "invariants", FALSE), Violation(3, "lifecycle", TRUE)}}

SemanticFinding(n, subtype) == [n |-> n, subtype |-> subtype]

SemanticReviews ==
  {[score |-> Null, findings |-> {}], [score |-> 90, findings |-> {}], [score |-> 30, findings |-> {}],
   [score |-> 70, findings |-> {SemanticFinding(1, "architecture drift")}],
   [score |-> 60, findings |-> {SemanticFinding(1, "maintainability"),
                                SemanticFinding(2, "intent mismatch")}]}

NoHints == [invariants |-> {}, policies |-> {}, fix |-> {}]

AllHints ==
  [invariants : {{}, {1, 2}}, policies : {{}, {1}},
   fix : {{}, {"validation"}, {"reconciliation", "semantic"}}]

ChooseTrouble(validation) ==
  \E v \in Violations, sem \in SemanticReviews, h \in AllHints, req, risk, plan, e \in BOOLEAN :
  \E r \in {"none", "divergent"} :
    input' = [case |-> "trouble", facts |->
      [violations |-> v, plan |-> plan, validation |-> validation, reconciliation |-> r,
       score |-> sem.score, findings |-> sem.findings, risk |-> risk, executor |-> e,
       said |-> IF e THEN "nothing" ELSE "insufficient snippet", hints |-> h, required |-> req,
       manual |-> risk, graph |-> IF plan THEN 1..9 ELSE {}]]

Trouble(violations, validation) ==
  [violations |-> violations, plan |-> TRUE, validation |-> validation, reconciliation |-> "none",
   score |-> Null, findings |-> {}, risk |-> FALSE, executor |-> TRUE, said |-> "nothing",
   hints |-> NoHints, required |-> TRUE, manual |-> FALSE, graph |-> {}]

MCTroubles == {Trouble({}, "failed"), Trouble({Violation(1, "lifecycle", TRUE)}, "passed")}

MCRetryThresholds == {Null, 1}

(* Runs of which one or more files are wrong, missing or of another plan.  *)
Command(id, target, validator, status) ==
  [id |-> id, target |-> target, validator |-> validator, descriptor |-> validator, status |-> status]

Lint == Command("c1", "t1", "eslint", "resolved")
Test == Command("c2", "t1", "jest", "resolved")
Again == Command("c3", "t1", "eslint", "resolved")
Stray == Command("c4", "t9", "jest", "resolved")
Open == Command("c5", "t2", "tsc", "unresolved")

Target(id, file, hinted) == [id |-> id, file |-> file, hinted |-> hinted, inferred |-> ~hinted]

Impact(capped, linked, reached) ==
  [graph |-> TRUE, capped |-> capped, hinted |-> linked = 0, reverse |-> linked, forward |-> 0,
   linked |-> linked, reached |-> reached]

ValidationPlans ==
  {[commands |-> c, targets |-> <<Target("t1", "f", FALSE), Target("t2", "g", h)>>,
    descriptors |-> {"eslint"}, catalogued |-> h, catalog |-> {"eslint", "jest"}, impact |-> i,
    identity |-> "new"] :
     c \in {<<Lint, Test>>, <<Lint, Again, Open>>, <<Test, Stray>>, <<Open>>}, h \in BOOLEAN,
     i \in {Null, Impact(FALSE, 0, {"f"}), Impact(TRUE, 2, {"f", "g"})}}

Row(command, status) == [command |-> command, target |-> "t1", status |-> status]

Result(form, rows, identity, reused) ==
  [form |-> form, rows |-> rows, identity |-> identity, reused |-> reused]

ValidationResults ==
  {Null, Result("validators", <<Row("c1", "failed")>>, "new", 0),
   Result("rows", <<Row("c1", "passed"), Row("c2", "passed")>>, "new", 0),
   Result("rows", <<Row("c1", "failed"), Row("c2", "passed")>>, "new", 2),
   Result("rows", <<Row("c1", "failed"), Row("c2", "error")>>, "old", 0),
   Result("rows", <<Row("c1", "passed")>>, "old", 1)}

Node(id, type) == [id |-> id, type |-> type, path |-> "p"]

DependencyGraphs ==
  {Null, [nodes |-> <<Node("a", "file"), Node("b", "test")>>, edges |-> <<<<"a", "b">>>>, hash |-> "right"],
   [nodes |-> <<Node("a", "file"), Node("a", "file"), Node("", "other")>>,
    edges |-> <<<<"a", "b">>, <<"b", "c">>>>, hash |-> "other"]}

Manifests ==
  {Null, [refs |-> <<<<"plan", "x">>, <<"result", "y">>>>, generated |-> <<<<"generated", "z">>>>]}

ChooseEvidence(plan) ==
  \E r \in ValidationResults, c \in {Null, [k |-> "old", l |-> "new"]}, g \in DependencyGraphs,
     m \in Manifests, p \in {Null, {"f"}} :
    input' = [case |-> "evidence", threshold |-> IF c = Null THEN 2 ELSE 3, run |->
      [plan |-> plan, results |-> r, cache |-> c, graph |-> g, manifest |-> m, project |-> p,
       files |-> IF c = Null THEN {} ELSE {"x", "y", "z"}, operations |-> <<"f", "g">>, cacheOff |-> p = Null]]

ChooseBaseline(plan) ==
  \E r, q \in {v \in ValidationResults : v # Null /\ Len(v.rows) = 2}, g, h \in DependencyGraphs \ {Null},
     other \in {v \in ValidationPlans : v.impact = Null} :
    LET Run(v, w, d) == [plan |-> v, results |-> w, cache |-> Null, graph |-> d, manifest |-> Null,
                         project |-> {"f"}, files |-> {}, operations |-> <<"f">>, cacheOff |-> FALSE]
    IN  input' = [case |-> "baseline", before |-> Run(plan, r, g), after |-> Run(other, q, h)]

ChooseEngine(risk) ==
  \E plan \in {Null} \cup [illegal : {0, 1}, behind : BOOLEAN, files : {1..2, 1..9}],
     recon \in {Null} \cup [unexpected : {0, 1, 4}, unmatched : {0, 9}],
     v \in {"absent", "passed", "failed"}, touched \in {{}, {1}, 2..15},
     patched, listed, verbose \in BOOLEAN, allowed \in {Null, 3},
     engine \in {<<"off", FALSE>>, <<"structural", FALSE>>, <<"full", FALSE>>, <<"full", TRUE>>} :
    /\ listed => plan = Null
    /\ input' = [case |-> "engine", snapshot |->
         [plan |-> plan, recon |-> recon, validation |-> v, risk |-> risk, touched |-> touched,
          mode |-> engine[1], patched |-> patched, listed |-> listed, verbose |-> verbose,
          allowed |-> allowed, broken |-> engine[2]]]

Answers ==
  {[status |-> "approved", issues |-> TRUE, correction |-> FALSE],
   [status |-> "rejected", issues |-> TRUE, correction |-> FALSE],
   [status |-> "blocked", issues |-> FALSE, correction |-> TRUE]}

(* Each initial state is for one algorithm and one of its inputs, the      *)
(* seed, so that no step has to make all of them.                          *)
Algorithms == {"graph", "work", "replay", "run", "task", "merge", "verdict", "patch", "set",
               "answer", "hybrid", "snippets", "plan", "hooks", "targets", "rounds",
               "transaction", "impact", "reading", "mutation", "reach",
               "trouble", "correction", "evidence", "baseline", "engine"}

Seeds(algorithm) ==
  CASE algorithm = "work" -> Paths
    [] algorithm = "replay" -> FourNodes \cup {G!Canonical}
    [] algorithm = "verdict" -> Files
    [] algorithm = "patch" -> Patches
    [] algorithm = "answer" -> Scopes
    [] algorithm = "hybrid" -> Sources
    [] algorithm = "snippets" -> {12, 15}
    [] algorithm = "plan" -> 0..3
    [] algorithm = "targets" -> 0..2
    [] algorithm = "rounds" -> Settings
    [] algorithm = "impact" -> {2, 9}
    [] algorithm = "reading" -> {<<1, 9, 1, 99>>, <<2, 9, 9, 99>>, <<2, 2, 9, 99>>,
                               <<2, 9, 9, 5>>, <<-1, 9, 9, 12>>}
    [] algorithm = "mutation" -> {{3}, {2, 4}, {4, 5}}
    [] algorithm = "trouble" -> {"none", "passed", "failed"}
    [] algorithm \in {"evidence", "baseline"} -> {Null} \cup ValidationPlans
    [] algorithm = "engine" -> {"absent", "low", "moderate", "high", "critical"}
    [] OTHER -> {Null}

Init ==
  \E a \in Algorithms : \E s \in Seeds(a) : input = [case |-> "none", of |-> a, seed |-> s]

Choose(algorithm) == input.case = "none" /\ input.of = algorithm

Next ==
  \/ Choose("graph") /\ ChooseGraph
  \/ Choose("work") /\ ChooseWork(input.seed)
  \/ Choose("replay") /\ ChooseReplay(input.seed)
  \/ Choose("run") /\ ChooseRun
  \/ Choose("task") /\ ChooseTask
  \/ Choose("merge") /\ ChooseMerge
  \/ Choose("verdict") /\ ChooseVerdict(input.seed)
  \/ Choose("patch") /\ ChoosePatch(input.seed)
  \/ Choose("set") /\ ChooseSet
  \/ Choose("answer") /\ ChooseAnswer(input.seed)
  \/ Choose("hybrid") /\ ChooseHybrid(input.seed)
  \/ Choose("snippets") /\ ChooseSnippets(input.seed)
  \/ Choose("plan") /\ ChoosePlan(input.seed)
  \/ Choose("hooks") /\ ChooseHooks
  \/ Choose("targets") /\ ChooseTargets(input.seed)
  \/ Choose("rounds") /\ ChooseRounds(input.seed)
  \/ Choose("transaction") /\ input' \in Transactions
  \/ StepTransaction
  \/ Choose("impact") /\ ChooseImpact(input.seed)
  \/ Choose("reading") /\ ChooseReading(input.seed)
  \/ Choose("mutation") /\ ChooseMutation(input.seed)
  \/ Choose("reach") /\ ChooseReach
  \/ Choose("trouble") /\ ChooseTrouble(input.seed)
  \/ Choose("correction") /\ input' \in Corrections
  \/ StepCorrection
  \/ Choose("evidence") /\ ChooseEvidence(input.seed)
  \/ Choose("baseline") /\ ChooseBaseline(input.seed)
  \/ Choose("engine") /\ ChooseEngine(input.seed)

Spec == Init /\ [][Next]_input

-----------------------------------------------------------------------------
(* The graph is scheduled whole and in the one order that its edges and    *)
(* the names leave, and nothing is started twice; a replay is planned for  *)
(* all that depends on its targets, up to its boundaries, and a run that   *)
(* loops is not reported as a divergence.                                  *)
GraphRunsInOrder ==
  /\ input.case = "graph" => G!ScheduleSound(input.g)
  /\ input.case = "work" => G!WorkedSound(input.g, input.doc)
  /\ input.case = "replay" =>
       G!ReplaySound(input.g, input.targets, input.stops, input.g.nodes \ {2})
  /\ input.case = "overlay" => G!OverlaySound(input.checkpoints, input.present)

(* A patch changes the one place it names, a set of patches fails as a     *)
(* whole and only for reasons that another answer can mend, a refusal is   *)
(* repeated exactly if it is of that kind, and the next pass sees more.    *)
RefusalsAreWholeAndMendable ==
  /\ input.case = "patch" => X!PatchSound(input.text, input.search, input.replace)
  /\ input.case = "set" => X!SetSound(Project, input.allowed, input.changes)
  /\ input.case = "answer" => X!RefusalSound(Project, input.allowed, input.answer)
  /\ input.case = "hybrid" =>
       H!HybridSound(input.flags, H!ProjectOf(input.source), {"p", "q"}, input.changes)
  /\ input.case = "snippets" =>
       W!SnippetsSound(input.length, input.window, input.keywords, input.max)
  /\ input.case = "sizes" =>
       \A tuning \in X!ResolveStrategy([cause |-> input.cause]) : W!SizesSound(input.base, tuning)
  /\ input.case = "rebuild" =>
       W!RebuildSound(input.correction, input.named, input.applied, input.allowed)

(* What was planned or changed is validated and nothing else, a plan that  *)
(* can be carried out is told from one that cannot, and a round reports    *)
(* what it ran, or what it ran before on the same.                         *)
ChangesAreValidated ==
  /\ input.case = "plan" => V!ValidationSound(input.ops, input.allowed)
  /\ input.case = "draft" => V!DraftSound(input.allowed, input.bullets)
  /\ input.case = "hooks" => V!LifecycleSound(input.hooks)
  /\ input.case = "targets" =>
       V!TargetsSound(input.ops, input.changes, input.allowed, input.runners)
  /\ input.case = "rounds" =>
       V!RoundsSound(<<Operation(1, TRUE, Code, {}), Operation(2, FALSE, Text, {})>>,
                     input.setting, input.rounds)

(* What a change may reach is what its imports lead to, nearest first      *)
(* where a limit cuts it off, and whatever is cut off is reported; the one *)
(* cut without a mark, that of the turns of the reader of imports, does    *)
(* not fall while there are turns for all imports at all depths.           *)
ReachIsExact ==
  /\ input.case = "impact" =>
       R!ImpactSound(input.project, input.targets, input.planned, input.limits, input.max)
  /\ input.case = "reading" => R!ReadingSound(input.source, input.entries, input.limits)
  /\ input.case = "mutation" =>
       R!MutationSound(input.imports, input.roots, input.limits, input.original, Dir, Order, input.cap)
  /\ input.case = "reach" => R!ReachSound(input.levels, input.seeds, input.roots)

(* Every trouble of a run is judged for what it is: the review names it    *)
(* and no order of its files hides it, what gets worse is not approved nor *)
(* passes for the baseline, and it has its class and its targets.  A       *)
(* rejection asks for a correction unless it is by the score alone.        *)
TroubleIsJudged ==
  /\ input.case = "trouble" => C!FactsSound(input.facts)
  /\ input.case = "evidence" => Z!EvidenceSound(input.run, input.threshold)
  /\ input.case = "baseline" => Z!BaselineSound(input.before, input.after, 3)
  /\ input.case = "engine" => Z!EngineSound(input.snapshot, Answers)
=============================================================================
