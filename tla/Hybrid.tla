-------------------------------- MODULE Hybrid --------------------------------
(***************************************************************************)
(* The structural way of applying patches (scripts/hybrid-executor): a     *)
(* patch is bound to the declaration that it changes, applied within it    *)
(* where that is safe and to the whole text where it is not, and reported  *)
(* for a replay.  All of it is off unless its flags are set.               *)
(*                                                                         *)
(* The parser is abstracted to what the executor asks of it: a line that   *)
(* begins with "i", "v", "f" or "c" is a declaration, "e" exports what     *)
(* follows it, and "!" is an error of syntax.  A span begins at `start`    *)
(* and ends before `end`.                                                  *)
(***************************************************************************)
EXTENDS PatchSet

Letters == [i |-> "import", v |-> "variable", f |-> "function", c |-> "class"]

Parses(text) == \A i \in DOMAIN text : text[i] # "!"

EndOfLine(text, i) ==
  Min({k \in i..Len(text) : text[k] \in {"CR", "LF"}} \cup {Len(text) + 1})

Declaration(text, i) ==
  IF i <= Len(text) /\ text[i] \in DOMAIN Letters
  THEN {[kind |-> Letters[text[i]], start |-> i, end |-> EndOfLine(text, i)]}
  ELSE {}

Exported(text, i) ==
  IF text[i] = "e"
  THEN {[kind |-> "export", start |-> i, end |-> EndOfLine(text, i)]} \cup Declaration(text, i + 1)
  ELSE {}

CollectMvpStatementNodes(text) ==
  UNION {Declaration(text, i) \cup Exported(text, i) :
         i \in {k \in DOMAIN text : k = 1 \/ text[k - 1] = "LF"}}

-----------------------------------------------------------------------------
(* Binding a patch to a declaration.                                       *)

Multiplicity(text, s) ==
  [literal |-> Len(Matches(text, s, 1)),
   normalized |-> Len(Matches(NormalizeEol(text), NormalizeEol(s), 1))]

(* Where the k-th character of the text without CR is in the text.         *)
NormalizedIndexToOriginal(text, k) ==
  LET firsts == {i \in DOMAIN text : ~IsPair(text, i - 1)} \cup {Len(text) + 1}
  IN  CHOOSE i \in firsts : Cardinality({j \in firsts : j < i}) = k - 1

Bounds(start, end, mode) == [start |-> start, end |-> end, mode |-> mode]

Located(text, s, literal, normalized) ==
  CASE Len(literal) = 1 -> {Bounds(literal[1], literal[1] + Len(s), "literal")}
    [] Len(literal) = 0 /\ Len(normalized) = 1 ->
         {Bounds(NormalizedIndexToOriginal(text, normalized[1]),
                 NormalizedIndexToOriginal(text, normalized[1] + Len(NormalizeEol(s))), "normalized")}
    [] OTHER -> {}

FindPatchSearchBounds(text, s) ==
  Located(text, s, Matches(text, s, 1), Matches(NormalizeEol(text), NormalizeEol(s), 1))

Width(n) == n.end - n.start

Rank(n) == CASE n.kind = "class" -> 1 [] n.kind = "export" -> 2 [] n.kind = "function" -> 3
             [] n.kind = "import" -> 4 [] n.kind = "variable" -> 5

Narrower(n, m) ==
  \/ Width(n) < Width(m)
  \/ Width(n) = Width(m) /\ Rank(n) < Rank(m)
  \/ Width(n) = Width(m) /\ Rank(n) = Rank(m) /\ n.start < m.start

FindOverlappingCandidates(text, found) ==
  {n \in CollectMvpStatementNodes(text) : \E b \in found : b.start < n.end /\ b.end > n.start}

Narrowest(nodes) == CHOOSE n \in nodes : \A m \in nodes \ {n} : Narrower(n, m)

(* 70 % of the weight of the kind, and what speaks for or against it.      *)
ScoreStructuralConfidence(kind, overlaps, picks, inside, mode) ==
  LET weight == CASE kind = "import" -> 64 [] kind = "export" -> 63 [] kind = "variable" -> 62
                  [] kind = "function" -> 60 [] kind = "class" -> 59
      alone == CASE overlaps = 1 -> 18 [] overlaps \in 2..3 -> 8 [] OTHER -> -10
      crowd == IF overlaps >= 8 THEN -12 ELSE 0
      sure == (IF picks THEN 6 ELSE 0) + (IF inside THEN 8 ELSE 0)
  IN  Max({0, Min({100, weight + alone + crowd + sure + (IF mode = "literal" THEN 4 ELSE 2)})})

NoPlan(why) ==
  [op |-> "none", why |-> why, node |-> [kind |-> "none", start |-> 0, end |-> 0], mapped |-> FALSE,
   inside |-> FALSE, times |-> [literal |-> 0, normalized |-> 0], scores |-> {}]

Mapped(times, b, node, overlaps, picks, inside) ==
  LET shadow == node.kind \in {"import", "variable", "function"}
  IN  [op |-> IF shadow THEN "replace_node" ELSE "none",
       why |-> IF shadow THEN "none" ELSE "node_kind_not_mvp_shadow",
       node |-> node, mapped |-> picks, inside |-> inside, times |-> times,
       scores |-> {ScoreStructuralConfidence(node.kind, Cardinality(overlaps), picks, inside, b.mode)}]

Mapping(times, b, node, overlaps) ==
  Mapped(times, b, node, overlaps, Cardinality({n \in overlaps : Width(n) = Width(node)}) = 1,
         b.start >= node.start /\ b.end <= node.end)

Bind(text, c, languages, found, overlaps) ==
  LET why == FirstOf(<< <<"language", c.path \notin languages>>, <<"empty_snap", text = <<>> >>,
                        <<"bounds_miss", found = {}>>, <<"parse_error", ~Parses(text)>>,
                        <<"no_overlap", overlaps = {}>> >>)
  IN  IF why # "none" THEN NoPlan(why)
      ELSE Mapping(Multiplicity(text, c.search), CHOOSE b \in found : TRUE, Narrowest(overlaps), overlaps)

Searched(text, c, languages, found) ==
  Bind(text, c, languages, found, FindOverlappingCandidates(text, found))

BuildPlan(text, c, languages) ==
  Searched(text, c, languages, FindPatchSearchBounds(text, c.search))

-----------------------------------------------------------------------------
(* One patch.  The flags are [languages, min, controlled, governance,      *)
(* block, foundation, idempotency, excerpt].                               *)

Raised(guards) == {guards[i][1] : i \in {k \in DOMAIN guards : guards[k][2]}}

Inner(text, span) == SubSeq(text, span.start, span.end - 1)

Around(text, span, inner) ==
  SubSeq(text, 1, span.start - 1) \o inner \o SubSeq(text, span.end, Len(text))

(* The reasons of the gate against the structural way.                     *)
Gate(plan, min, text, c) ==
  IF plan.op # "replace_node" THEN {"not_replace_node_plan"}
  ELSE Raised(<< <<"mapping_not_unique_minspan", ~plan.mapped>>,
                 <<"shadow_confidence_degraded", ~plan.mapped>>,
                 <<"confidence_below_threshold", \E s \in plan.scores : s < min>>,
                 <<"patch_bounds_not_fully_inside_mvp_span", ~plan.inside>>,
                 <<"search_not_unique_in_file", plan.times.literal # 1 \/ plan.times.normalized # 1>>,
                 <<"search_not_unique_in_mvp_inner",
                   Multiplicity(Inner(text, plan.node), c.search).literal # 1>> >>)

ApplyWithin(text, plan, out) == IF out.ok THEN Patched(Around(text, plan.node, out.text)) ELSE out

ApplyStructuralReplaceNode(text, plan, c) ==
  ApplyWithin(text, plan, ApplyPatch(Inner(text, plan.node), c.search, c.replace))

Blank(text) == \A i \in DOMAIN text : text[i] \in {"CR", "LF"}

(* The governance stands in the way of what leaves nothing of the node.    *)
Preempts(flags, plan, c, inner, out) ==
  /\ flags.governance /\ plan.op = "replace_node"
  /\ Blank(c.replace) \/ (out.ok /\ Blank(out.text) /\ ~Blank(inner))

\* Mutated form: the structural result is taken as it is.
Verified_Unchecked(textual, structural) == IF structural.ok THEN "none" ELSE "apply_exception"

(* The structural result is taken only if it says what the textual says.   *)
Verified(textual, structural) ==
  CASE ~structural.ok -> "apply_exception"
    [] structural.ok /\ NormalizeEol(structural.text) # NormalizeEol(textual) -> "divergence"
    [] OTHER -> "none"

Resolved(plan, textual, structural, gate, trigger) ==
  [plan |-> plan, trigger |-> trigger, layer |-> "none",
   codes |-> CASE trigger = "governance_escalation" -> {"STRUCTURAL_UNSAFE_DELETE_NODE"}
               [] trigger = "gate" -> gate
               [] trigger = "divergence" -> {"structural_textual_post_verify_mismatch"}
               [] trigger = "apply_exception" -> {"structural_apply_error"}
               [] trigger = "none" -> {},
   after |-> IF trigger = "none" THEN structural.text ELSE textual]

Decided(plan, textual, structural, gate, preempts) ==
  Resolved(plan, textual, structural, gate,
           CASE preempts -> "governance_escalation"
             [] ~preempts /\ gate # {} -> "gate"
             [] OTHER -> Verified(textual, structural))

BothWays(flags, text, c, textual, plan, inner, out) ==
  Decided(plan, textual, ApplyWithin(text, plan, out), Gate(plan, flags.min, text, c),
          Preempts(flags, plan, c, inner, out))

WithinNode(flags, text, c, textual, plan, inner) ==
  BothWays(flags, text, c, textual, plan, inner, ApplyPatch(inner, c.search, c.replace))

ByPlan(flags, text, c, textual, plan) ==
  WithinNode(flags, text, c, textual, plan, Inner(text, plan.node))

ResolvePatch(flags, text, c, textual) ==
  ByPlan(flags, text, c, textual, BuildPlan(text, c, flags.languages))

\* Mutated form: the result is not parsed again.
PostValidate_NoReparse(flags, before, after, plan, path) ==
  IF path \in flags.languages THEN {} ELSE {"language"}

(* What is wrong with the structural result, once it is made.              *)
PostValidate(flags, before, after, plan, path) ==
  LET grown == Len(after) - Len(before)
      drift == Raised(<< <<"formatter_drift_prefix", Inner(after, [start |-> 1, end |-> plan.node.start])
                                            # SubSeq(before, 1, plan.node.start - 1)>>,
                         <<"formatter_drift_suffix", SubSeq(after, plan.node.end + grown, Len(after))
                                            # SubSeq(before, plan.node.end, Len(before))>> >>)
      later == Raised(<< <<"language", path \notin flags.languages>>,
                         <<"ast_reparse_failed", ~Parses(after)>> >>)
  IN  IF drift # {} THEN drift ELSE later

(* The controlled apply, for a patch that would be structural.             *)
Settle(r, textual, reasons) ==
  IF reasons = {} THEN [r EXCEPT !.layer = "committed"]
  ELSE [r EXCEPT !.layer = "rejected", !.trigger = "post_structural_validate",
                 !.codes = reasons, !.after = textual]

Control(flags, before, path, textual, r) ==
  IF r.trigger # "none" THEN r
  ELSE IF ~flags.controlled THEN [r EXCEPT !.layer = "skipped_flag_off"]
  ELSE Settle(r, textual, PostValidate(flags, before, r.after, r.plan, path))

-----------------------------------------------------------------------------
(* A set of patches: one row of telemetry for each, and the session of the *)
(* controlled apply, whose attempts are numbers of rows.                   *)

Row(flags, before, c, i, textual) ==
  [index |-> i, change |-> c, before |-> before] @@
    Control(flags, before, c.path, textual, ResolvePatch(flags, before, c, textual))

Structural(row) == row.trigger = "none"

Attempted(rows) == SelectSeq(rows, LAMBDA r : r.layer \in {"committed", "rejected"})

(* recordRollback, for the last row.                                       *)
Rollback(rows) ==
  LET row == rows[Len(rows)]
      mine == Attempted(rows)
      same == SelectSeq(mine, LAMBDA r : r.change.path = row.change.path)
  IN  [attempt |-> Len(mine), index |-> row.index, prior |-> [i \in DOMAIN same |-> same[i].index]]

Noted(run, row) ==
  [result |-> [run.result EXCEPT !.files[row.change.path].text = row.after],
   rows |-> Append(run.rows, row),
   rollbacks |-> IF row.layer = "rejected" THEN Append(run.rollbacks, Rollback(Append(run.rows, row)))
                 ELSE run.rollbacks]

(* applyChanges with its hybrid execution: the guards, and that the whole  *)
(* of the text can be patched, come first.                                 *)
Hybridly(flags, run, c, textual) ==
  IF textual.refusal # NoRefusal THEN [run EXCEPT !.result = textual]
  ELSE Noted(run, Row(flags, run.result.files[c.path].text, c, Len(run.rows) + 1,
                      textual.files[c.path].text))

HybridOne(flags, allowed, run, c) == Hybridly(flags, run, c, ComputeOne(allowed, run.result, c))

HybridRun(flags, files, allowed, changes) ==
  LET One(run, c) == HybridOne(flags, allowed, run, c)
  IN  FoldLeft(One, [result |-> [files |-> files, refusal |-> NoRefusal],
                     rows |-> <<>>, rollbacks |-> <<>>], changes)

-----------------------------------------------------------------------------
(* Governance: what speaks against a row, and the tier of its risk, from   *)
(* none, 0, over warning and medium to high, 3.                            *)

DistinctFiles(rows) == Cardinality({rows[i].change.path : i \in DOMAIN rows})

Blockers(flags, row, distinct) ==
  Raised(<< <<"MULTI_FILE_CASCADE", distinct >= 2>>,
            <<"LOW_CONFIDENCE", \E s \in row.plan.scores : s < flags.min>>,
            <<"AST_CORRUPT", row.codes \cap {"ast_reparse_failed", "structural_apply_error"} # {}>>,
            <<"FORMATTER_DRIFT", row.codes \cap {"formatter_drift_prefix", "formatter_drift_suffix"} # {}>>,
            <<"UNSAFE_DELETE_NODE", row.trigger = "governance_escalation">> >>)

Tier(flags, blockers, distinct) ==
  Max({0} \cup {CASE b = "MULTI_FILE_CASCADE" -> IF distinct >= 3 THEN 3 ELSE 2
                  [] b = "LOW_CONFIDENCE" -> IF flags.block THEN 3 ELSE 1
                  [] OTHER -> 3 : b \in blockers})

RowTier(flags, row, distinct) == Tier(flags, Blockers(flags, row, distinct), distinct)

(* A run that is mostly textual is not without risk.                       *)
Escalated(rows, tier) ==
  LET textual == Cardinality({i \in DOMAIN rows : ~Structural(rows[i])})
  IN  IF tier = 0 /\ rows # <<>> /\ 2 * textual >= Len(rows) THEN 1 ELSE tier

RunTier(flags, rows) ==
  Escalated(rows, Max({0} \cup {RowTier(flags, rows[i], DistinctFiles(rows)) : i \in DOMAIN rows}))

-----------------------------------------------------------------------------
(* What the reports of a run say of a replay of it.                        *)

Planned(row) == row.plan.op = "replace_node"

Has(text, s) == At(text, s) # {}

SearchMissing(row) == ~Has(Inner(row.before, row.plan.node), row.change.search)

SpansOverlap(a, b) == a.start < b.end /\ b.start < a.end

Superseded(rows, i) ==
  \E k \in (i + 1)..Len(rows) : /\ Planned(rows[k]) /\ rows[k].change.path = rows[i].change.path
                                /\ SpansOverlap(rows[i].plan.node, rows[k].plan.node)

AlreadyApplied(flags, row) ==
  LET excerpt == SubSeq(row.before, 1, Min({flags.excerpt, Len(row.before)}))
  IN  /\ flags.idempotency /\ ~Has(excerpt, row.change.search)
      /\ row.change.replace # <<>> /\ Has(excerpt, row.change.replace)

Classify(flags, rows, i) ==
  LET row == rows[i]
      blocked == flags.governance /\ Blockers(flags, row, DistinctFiles(rows)) # {}
      planned == flags.foundation /\ Planned(row)
      why == FirstOf(<< <<"blocked_by_governance", blocked>>, <<"unplanned", ~planned>>,
                        <<"selector_missing", ~row.plan.mapped>>,
                        <<"stale_selector", SearchMissing(row)>>,
                        <<"superseded_transform", Superseded(rows, i)>>,
                        <<"already_applied", AlreadyApplied(flags, row)>> >>)
  IN  IF why \in {"none", "unplanned"} THEN "replayable" ELSE why

(* The replay in memory: what has no plan is left out, and what fails is   *)
(* noted and left out.                                                     *)
Replayed(sim, row, out) ==
  IF out.ok THEN [sim EXCEPT !.texts[row.change.path] = out.text] ELSE [sim EXCEPT !.abort = row.index]

ReplayOne(flags, sim, row) ==
  IF flags.foundation /\ Planned(row)
  THEN Replayed(sim, row, ApplyStructuralReplaceNode(sim.texts[row.change.path], row.plan, row.change))
  ELSE sim

RunReplay(flags, rows, texts) ==
  LET One(sim, row) == ReplayOne(flags, sim, row)
  IN  FoldLeft(One, [texts |-> texts, abort |-> 0], rows)

(* The parent of a row is the row before it of the same file.              *)
Parent(rows, i) ==
  Max({0} \cup {k \in 1..(i - 1) : rows[k].change.path = rows[i].change.path})

-----------------------------------------------------------------------------
(* Before the patches: a forecast of the binding of each, and a comparison *)
(* of both ways, all of whose plans are made on the texts at the start.    *)

Forecasted(chain, c, plan, out) ==
  LET say(ch, what) == [ch EXCEPT !.plans = Append(@, what)]
  IN  CASE chain.abort -> say(chain, NoPlan("skipped_after_sim_abort"))
        [] ~chain.abort /\ plan.why \in {"language", "empty_snap"} -> say(chain, plan)
        [] OTHER -> say(IF out.ok THEN [chain EXCEPT !.texts[c.path] = out.text]
                        ELSE [chain EXCEPT !.abort = TRUE], plan)

ForecastOne(languages, chain, c) ==
  Forecasted(chain, c, BuildPlan(chain.texts[c.path], c, languages),
             ApplyPatch(chain.texts[c.path], c.search, c.replace))

Forecast(languages, texts, changes) ==
  LET One(chain, c) == ForecastOne(languages, chain, c)
  IN  FoldLeft(One, [texts |-> texts, abort |-> FALSE, plans |-> <<>>], changes)

(* One of both ways goes on until a patch fails it.                        *)
Way(way, path, tries, out) ==
  IF way.abort \/ ~tries THEN way
  ELSE IF out.ok THEN [way EXCEPT !.texts[path] = out.text] ELSE [way EXCEPT !.abort = TRUE]

ShadowRow(rows, c, plan, textual, structural) ==
  [textual |-> textual, structural |-> structural,
   rows |-> Append(rows, [path |-> c.path, planned |-> plan.op = "replace_node",
                          diverged |-> NormalizeEol(textual.texts[c.path])
                                         # NormalizeEol(structural.texts[c.path])])]

ShadowOne(pair, c, plan) ==
  ShadowRow(pair.rows, c, plan,
            Way(pair.textual, c.path, TRUE,
                IF pair.textual.texts[c.path] = <<>> THEN Unpatched("empty_snap")
                ELSE ApplyPatch(pair.textual.texts[c.path], c.search, c.replace)),
            Way(pair.structural, c.path, plan.op = "replace_node",
                ApplyStructuralReplaceNode(pair.structural.texts[c.path], plan, c)))

ShadowTransforms(languages, start, changes) ==
  LET One(pair, c) == ShadowOne(pair, c, BuildPlan(start[c.path], c, languages))
      way == [texts |-> start, abort |-> FALSE]
  IN  FoldLeft(One, [textual |-> way, structural |-> way, rows |-> <<>>], changes)

-----------------------------------------------------------------------------
(* What all this promises.                                                 *)

ProjectOf(texts) == [p \in DOMAIN texts |-> [kind |-> "text", text |-> texts[p]]]

TextsOf(files) == [p \in DOMAIN files |-> files[p].text]

(* The project gets what the textual way alone would have given it.        *)
Neutral(files, allowed, changes, run) ==
  LET plain == ApplyChanges(files, allowed, changes)
  IN  /\ run.result.refusal = plain.refusal
      /\ plain.refusal = NoRefusal => run.result = plain

(* A row that is structural changed one declaration and nothing beside it, *)
(* which under governance is not emptied and under control still parses;   *)
(* every other row says why it is not, and only one that was rejected is   *)
(* rolled back, as the last of the attempts at its file.                   *)
RowsSound(flags, run) ==
  /\ \A i \in DOMAIN run.rows :
     \A row \in {run.rows[i]} :
       IF Structural(row)
       THEN \E n \in CollectMvpStatementNodes(row.before) :
              LET grown == Len(row.after) - Len(row.before)
                  inner == SubSeq(row.after, n.start, n.end - 1 + grown)
              IN  /\ row.after = Around(row.before, n, inner)
                  /\ flags.governance => ~Blank(inner)
                  /\ flags.controlled => Parses(row.after)
                  /\ row.change.path \in flags.languages /\ row.codes = {}
       ELSE row.codes # {}
  /\ \A k \in DOMAIN run.rollbacks :
     \A r \in {run.rollbacks[k]} :
       /\ Attempted(run.rows)[r.attempt].index = r.index
       /\ Last(r.prior) = r.index /\ run.rows[r.index].layer = "rejected"
       /\ \A j \in 1..(k - 1) : run.rollbacks[j].attempt < r.attempt
  /\ \A i \in DOMAIN run.rows :
       run.rows[i].layer = "rejected" => \E k \in DOMAIN run.rollbacks : run.rollbacks[k].index = i

(* A run without risk changed one file, mostly the structural way, and     *)
(* deleted nothing; blocking on doubt raises the tier only.                *)
RiskSound(flags, rows) ==
  /\ flags.governance /\ rows # <<>> /\ RunTier(flags, rows) = 0 =>
       /\ DistinctFiles(rows) = 1
       /\ 2 * Cardinality({i \in DOMAIN rows : Structural(rows[i])}) > Len(rows)
       /\ \A i \in DOMAIN rows : rows[i].trigger # "governance_escalation" /\ rows[i].layer # "rejected"
  /\ RunTier(flags, rows) <= RunTier([flags EXCEPT !.block = TRUE], rows)

(* What may be replayed gives, from where it began, what it gave, and so   *)
(* does the run if all of it may be and has a plan.                        *)
ReplaySound(flags, files, run) ==
  \A safe \in {{i \in DOMAIN run.rows : /\ Planned(run.rows[i])
                                       /\ Classify(flags, run.rows, i) = "replayable"
                                       /\ ~Has(run.rows[i].change.replace, <<"$<">>)}} :
    flags.foundation =>
      /\ \A i \in safe :
           \A row \in {run.rows[i]} :
             ApplyStructuralReplaceNode(row.before, row.plan, row.change) = Patched(row.after)
      /\ run.result.refusal = NoRefusal /\ safe = DOMAIN run.rows =>
           RunReplay(flags, run.rows, TextsOf(files))
             = [texts |-> TextsOf(run.result.files), abort |-> 0]
      /\ \A i, k \in DOMAIN run.rows : Parent(run.rows, i) = k => run.rows[k].after = run.rows[i].before

(* The forecast says of every patch what the executor then finds, as far   *)
(* as it comes.                                                            *)
ForecastSound(flags, files, changes, run) ==
  \A f \in {Forecast(flags.languages, TextsOf(files), changes)} :
    /\ Len(f.plans) = Len(changes)
    /\ {c.path : c \in ToSet(changes)} \subseteq flags.languages =>
         /\ \A i \in DOMAIN run.rows : f.plans[i] = run.rows[i].plan
         /\ f.abort <=> run.result.refusal # NoRefusal

(* Both ways come apart only where one of them stopped, where a patch has  *)
(* no plan, or where the replacement speaks of what is before it.          *)
ShadowSound(flags, files, changes, run) ==
  \A s \in {ShadowTransforms(flags.languages, TextsOf(files), changes)} :
    /\ s.textual.abort <=> run.result.refusal # NoRefusal
    /\ ~s.textual.abort => s.textual.texts = TextsOf(run.result.files)
    /\ \A i \in DOMAIN changes : s.rows[i].diverged =>
         \/ s.textual.abort \/ s.structural.abort
         \/ \E k \in 1..i : /\ changes[k].path = changes[i].path
                            /\ ~s.rows[k].planned \/ Has(changes[k].replace, <<"$<">>)

HybridSound(flags, files, allowed, changes) ==
  ValidatePatchSet(files, allowed, changes) = NoRefusal =>
    \A run \in {HybridRun(flags, files, allowed, changes)} :
      /\ Neutral(files, allowed, changes, run)
      /\ RowsSound(flags, run)
      /\ RiskSound(flags, run.rows)
      /\ ReplaySound(flags, files, run)
      /\ ForecastSound(flags, files, changes, run)
      /\ ShadowSound(flags, files, changes, run)

-----------------------------------------------------------------------------
(* Stated, and not so: the replay of the reports begins with the texts as  *)
(* the run left them, on disk or in the overlay of a dry run, so it finds  *)
(* nothing of what the patches looked for (executor.js).                   *)
ReportedReplayAgrees(flags, files, allowed, changes) ==
  \A run \in {HybridRun(flags, files, allowed, changes)} :
    run.result.refusal = NoRefusal =>
      RunReplay(flags, run.rows, TextsOf(run.result.files)).abort = 0
=============================================================================
