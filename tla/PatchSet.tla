------------------------------ MODULE PatchSet ------------------------------
(***************************************************************************)
(* What the executor makes of an answer of the model (scripts/executor.js):*)
(* the patches of one text (scripts/patch-content.js), the checks of a set *)
(* of patches and its application in memory, the refusals and how the      *)
(* recovery (scripts/runtime/recovery) reads them.                         *)
(*                                                                         *)
(* A text is a sequence of characters: "CR" and "LF" end lines, and "$&"   *)
(* and "$<" stand for the pairs of characters that String.replace expands  *)
(* to what it found and to what is before it.  A change is a record        *)
(* [operation, path, search, replace].  A message is abstracted to the     *)
(* phrase in it that somebody looks for, and to whether it has one of the  *)
(* words of missing context in it, which a path can have as well.          *)
(***************************************************************************)
EXTENDS Integers, Sequences, FiniteSets, SequencesExt, FiniteSetsExt, Functions

-----------------------------------------------------------------------------
(* One patch of one text.                                                  *)

Each(text, Op(_)) == FlattenSeq([i \in DOMAIN text |-> Op(text[i])])

At(text, s) == {i \in 1..(Len(text) - Len(s) + 1) : SubSeq(text, i, i + Len(s) - 1) = s}

(* The matches that split finds: from the left, without overlaps.          *)
RECURSIVE Matches(_, _, _)
Matches(text, s, from) ==
  LET ahead == {i \in At(text, s) : i >= from}
  IN  IF ahead = {} THEN <<>>
      ELSE <<Min(ahead)>> \o Matches(text, s, Min(ahead) + Len(s))

IsPair(text, i) == i \in 1..(Len(text) - 1) /\ text[i] = "CR" /\ text[i + 1] = "LF"

NormalizeEol(text) ==
  FlattenSeq([i \in DOMAIN text |-> CASE IsPair(text, i) -> <<>>
                                      [] text[i] = "CR" /\ ~IsPair(text, i) -> <<"LF">>
                                      [] OTHER -> <<text[i]>>])

DetectEol(text) == IF \E i \in DOMAIN text : IsPair(text, i) THEN <<"CR", "LF">> ELSE <<"LF">>

ToFileEol(text, eol) == Each(NormalizeEol(text), LAMBDA c : IF c = "LF" THEN eol ELSE <<c>>)

(* String.replace: the first match, with the patterns of the replacement.  *)
Expanded(replace, before, s) ==
  Each(replace, LAMBDA c : CASE c = "$&" -> s [] c = "$<" -> before [] OTHER -> <<c>>)

Put(text, i, s, replace) ==
  LET before == SubSeq(text, 1, i - 1)
  IN  before \o Expanded(replace, before, s) \o SubSeq(text, i + Len(s), Len(text))

Patched(text) == [ok |-> TRUE, text |-> text, phrase |-> "none"]
Unpatched(phrase) == [ok |-> FALSE, text |-> <<>>, phrase |-> phrase]

Strictly(text, search, replace, found) ==
  IF Len(found) = 1 THEN Patched(Put(text, found[1], search, replace)) ELSE Unpatched("not_unique")

\* Mutated form: without the line ends of the text, the first match will do.
Loosely_FirstMatch(text, search, replace, found, eol) ==
  IF found = <<>> THEN Unpatched("not_found")
  ELSE Patched(ToFileEol(Put(text, found[1], search, replace), eol))

Loosely(text, search, replace, found, eol) ==
  CASE found = <<>> -> Unpatched("not_found")
    [] Len(found) = 1 -> Patched(ToFileEol(Put(text, found[1], search, replace), eol))
    [] OTHER -> Unpatched("not_unique")

(* The search as it is, else without regard to the line ends; the second   *)
(* way gives every line the ends that the text has somewhere.              *)
LooseMatch(text, search, replace, eol) ==
  Loosely(text, search, replace, Matches(text, search, 1), eol)

Match(text, search, replace, found) ==
  IF found # <<>> THEN Strictly(text, search, replace, found)
  ELSE LooseMatch(NormalizeEol(text), NormalizeEol(search), NormalizeEol(replace), DetectEol(text))

ApplyPatch(text, search, replace) == Match(text, search, replace, Matches(text, search, 1))

-----------------------------------------------------------------------------
(* A set of patches.  The project is a function from paths to records      *)
(* [kind, text]; a path outside its domain has no file.                    *)

Kind(files, p) == IF p \in DOMAIN files THEN files[p].kind ELSE "none"

UnsafePath(p) == p = "../p"
AbsolutePath(p) == p = "/p"

(* The first of some guards, in their order, that holds.                   *)
FirstOf(guards) ==
  LET raised == {i \in DOMAIN guards : guards[i][2]}
  IN  IF raised = {} THEN "none" ELSE guards[Min(raised)][1]

Same(c, d) == c.path = d.path /\ c.search = d.search /\ c.replace = d.replace

(* validatePatchSet, one change of it.                                     *)
CheckChange(files, allowed, changes, i) ==
  LET c == changes[i]
  IN  FirstOf(<< <<"operation", c.operation # "patch">>,
                 <<"empty_path", c.path = "">>,
                 <<"scope", c.path \notin allowed>>,
                 <<"absolute", AbsolutePath(c.path)>>,
                 <<"unsafe", UnsafePath(c.path)>>,
                 <<"empty_search", c.search = <<>> >>,
                 <<"noop", c.search = c.replace>>,
                 <<"duplicate", \E k \in 1..(i - 1) : Same(changes[k], c)>>,
                 <<"missing", Kind(files, c.path) = "none">>,
                 <<"symlink", Kind(files, c.path) = "symlink">>,
                 <<"directory", Kind(files, c.path) = "directory">>,
                 <<"binary", Kind(files, c.path) = "binary">> >>)

Refusal(path, phrase) == [path |-> path, phrase |-> phrase]
NoRefusal == Refusal("", "none")

ValidatePatchSet(files, allowed, changes) ==
  LET bad == {i \in DOMAIN changes : CheckChange(files, allowed, changes, i) # "none"}
  IN  IF bad = {} THEN NoRefusal
      ELSE Refusal(changes[Min(bad)].path, CheckChange(files, allowed, changes, Min(bad)))

(* The compute phase of applyChanges, which looks at some of it again.     *)
Computed(result, c, guard, out) ==
  CASE result.refusal # NoRefusal -> result
    [] result.refusal = NoRefusal /\ guard # "none" ->
         [result EXCEPT !.refusal = Refusal(c.path, guard)]
    [] result.refusal = NoRefusal /\ guard = "none" /\ ~out.ok ->
         [result EXCEPT !.refusal = Refusal(c.path, out.phrase)]
    [] OTHER -> [result EXCEPT !.files[c.path].text = out.text]

ComputeOne(allowed, result, c) ==
  Computed(result, c,
           FirstOf(<< <<"scope", c.path \notin allowed>>,
                      <<"operation", c.operation # "patch">>,
                      <<"empty_path", c.path = "">>,
                      <<"absolute", AbsolutePath(c.path)>>,
                      <<"unsafe", UnsafePath(c.path)>>,
                      <<"missing", Kind(result.files, c.path) = "none">> >>),
           ApplyPatch(result.files[c.path].text, c.search, c.replace))

(* Nothing is written unless all of it can be computed.                    *)
ApplyChanges(files, allowed, changes) ==
  LET One(result, c) == ComputeOne(allowed, result, c)
      all == FoldLeft(One, [files |-> files, refusal |-> NoRefusal], changes)
  IN  IF all.refusal = NoRefusal THEN all ELSE [all EXCEPT !.files = files]

-----------------------------------------------------------------------------
(* An answer: whether it parses and is an object, its status and changes,  *)
(* whether its summary declares that nothing is to be done and its         *)
(* evidence is concrete, and what the reason and the evidence speak of.    *)

NormalizeExecutorResult(a) ==
  LET nothing == a.status = "success" /\ a.changes = <<>>
      why == FirstOf(<< <<"no_object", ~a.object>>,
                        <<"no_changes", nothing /\ ~a.noop>>,
                        <<"vague_noop", nothing /\ a.noop /\ ~a.concrete>>,
                        <<"bad_status", a.status \notin {"success", "blocked"}>>,
                        <<a.reason, a.status = "blocked">> >>)
  IN  [status |-> IF why = "none" THEN "success" ELSE "blocked", reason |-> why,
       evidence |-> IF why = "no_object" THEN "none" ELSE a.evidence,
       hint |-> why \notin {"none", "no_object"} /\ a.hint,
       changes |-> IF why = "none" THEN a.changes ELSE <<>>]

Blocked(reason, hint) ==
  [status |-> "blocked", reason |-> reason, evidence |-> "none", hint |-> hint, changes |-> <<>>]

HasHint(path) == path = "contexto"

(* runExecutor asks nothing if a directory is allowed to be changed, and   *)
(* an answer that does not parse is kept beside a refusal of its own.      *)
Directories(files, allowed) == {p \in allowed : Kind(files, p) = "directory"}

DirectoriesRefused(paths) == Blocked("directories", \E p \in paths : HasHint(p))
ParseRefused == Blocked("parse", FALSE)

(* The rest of it: what it leaves in the project and in executor-result.   *)
Left(files, result) == [files |-> files, result |-> result, refused |-> result.reason]

Refused(files, r) == Left(files, Blocked(r.phrase, HasHint(r.path)))

Applied(files, result, applied) ==
  IF applied.refusal # NoRefusal THEN Refused(files, applied.refusal)
  ELSE [files |-> applied.files, result |-> result, refused |-> "none"]

Answered(files, allowed, result, refusal) ==
  CASE result.status = "blocked" -> Left(files, result)
    [] result.status = "success" /\ refusal # NoRefusal -> Refused(files, refusal)
    [] result.status = "success" /\ refusal = NoRefusal ->
         Applied(files, result, ApplyChanges(files, allowed, result.changes))

Pass(files, allowed, a) ==
  LET result == NormalizeExecutorResult(a)
      directories == Directories(files, allowed)
  IN  CASE directories # {} -> Left(files, DirectoriesRefused(directories))
        [] directories = {} /\ ~a.parses -> Left(files, ParseRefused)
        [] directories = {} /\ a.parses ->
             Answered(files, allowed, result, ValidatePatchSet(files, allowed, result.changes))

-----------------------------------------------------------------------------
(* Reading a refusal: for the history of problems, and for the recovery.   *)

ClassifyPatchFailure(phrase) ==
  CASE phrase = "noop" -> [type |-> "patch_validation_block", cause |-> "noop_patch"]
    [] phrase = "duplicate" -> [type |-> "patch_validation_block", cause |-> "duplicate_patch"]
    [] phrase = "empty_search" -> [type |-> "patch_validation_block", cause |-> "empty_search"]
    [] phrase = "symlink" -> [type |-> "patch_validation_block", cause |-> "symlink_blocked"]
    [] phrase = "binary" -> [type |-> "patch_validation_block", cause |-> "binary_file"]
    [] phrase = "not_found" -> [type |-> "patch_search_not_found", cause |-> "search_not_found"]
    [] phrase = "not_unique" -> [type |-> "patch_search_not_unique", cause |-> "search_not_unique"]
    [] phrase = "scope" -> [type |-> "path_safety_block", cause |-> "out_of_allowed_files"]
    [] phrase = "directory" -> [type |-> "patch_validation_block", cause |-> "target_is_directory"]
    [] phrase = "unsafe" -> [type |-> "path_safety_block", cause |-> "path_unsafe"]
    [] phrase = "absolute" -> [type |-> "path_safety_block", cause |-> "absolute_path"]
    [] phrase = "operation" -> [type |-> "executor_blocked", cause |-> "invalid_operation"]
    [] phrase = "missing" -> [type |-> "missing_file", cause |-> "missing_file"]
    [] OTHER -> [type |-> "patch_apply_failed", cause |-> "apply_failed"]

InferModelBlockedType(reason) ==
  CASE reason = "no_object" -> [type |-> "llm_invalid_json", cause |-> "invalid_model_payload"]
    [] reason = "no_changes" -> [type |-> "executor_blocked", cause |-> "no_changes_success"]
    [] OTHER -> [type |-> "executor_blocked", cause |-> "executor_declined"]

Verdict(class, cause, retry) == [class |-> class, cause |-> cause, retry |-> retry]

\* Mutated form: a duplicate is a conflict that another try may solve.
ClassifyFromPatchMessage_RetryConflicts(phrase) ==
  CASE phrase = "not_found" -> Verdict("CONTEXT_INSUFFICIENT", "search_not_found", TRUE)
    [] phrase = "not_unique" -> Verdict("CONTEXT_INSUFFICIENT", "search_not_unique", TRUE)
    [] phrase = "duplicate" -> Verdict("PATCH_CONFLICT", "duplicate_patch", TRUE)
    [] phrase \in {"noop", "empty_search"} -> Verdict("VALIDATION_FAILURE", "validation", FALSE)
    [] OTHER -> Verdict("NON_RECOVERABLE", "other_patch", FALSE)

ClassifyFromPatchMessage(phrase) ==
  CASE phrase = "not_found" -> Verdict("CONTEXT_INSUFFICIENT", "search_not_found", TRUE)
    [] phrase = "not_unique" -> Verdict("CONTEXT_INSUFFICIENT", "search_not_unique", TRUE)
    [] phrase = "duplicate" -> Verdict("PATCH_CONFLICT", "duplicate_patch", FALSE)
    [] phrase \in {"noop", "empty_search"} -> Verdict("VALIDATION_FAILURE", "validation", FALSE)
    [] OTHER -> Verdict("NON_RECOVERABLE", "other_patch", FALSE)

ClassifyExecutorBlockedJson(r) ==
  LET reason == ClassifyFromPatchMessage(r.reason)
      evidence == ClassifyFromPatchMessage(r.evidence)
      known == reason.cause # "other_patch"
      told == ~known /\ evidence.cause # "other_patch"
  IN  CASE r.status = "success" -> Verdict("RETRYABLE", "none", FALSE)
        [] r.status = "blocked" /\ r.reason = "parse" ->
             Verdict("VALIDATION_FAILURE", "json_parse_failed", TRUE)
        [] r.status = "blocked" /\ r.reason # "parse" /\ known -> reason
        [] r.status = "blocked" /\ r.reason # "parse" /\ told -> evidence
        [] r.status = "blocked" /\ r.reason # "parse" /\ ~known /\ ~told ->
             IF r.hint THEN Verdict("CONTEXT_INSUFFICIENT", "context_insufficient", TRUE)
             ELSE Verdict("NON_RECOVERABLE", "executor_declined", FALSE)

(* What the next pass of the executor sees, in percent of what this one    *)
(* did; nothing where the recovery gives up.                               *)
Tuning(window, snippet, targeted, tighten) ==
  {[window |-> window, snippet |-> snippet, targeted |-> targeted, tighten |-> tighten]}

ResolveStrategy(verdict) ==
  CASE verdict.cause \in {"search_not_found", "context_insufficient"} -> Tuning(135, 112, 1, 100)
    [] verdict.cause = "search_not_unique" -> Tuning(92, 100, 1, 82)
    [] verdict.cause = "json_parse_failed" -> Tuning(105, 100, 0, 100)
    [] OTHER -> {}

(* The calls of the model in one pass: an error that may pass is tried     *)
(* again until the limit.                                                  *)
RetryableError(error) == error \in {"timeout", "rate_limit", "server_transient"}

RECURSIVE ProviderCalls(_, _, _)
ProviderCalls(errors, limit, attempt) ==
  IF attempt <= Len(errors) /\ RetryableError(errors[attempt]) /\ attempt < Max({1, limit})
  THEN ProviderCalls(errors, limit, attempt + 1)
  ELSE [attempts |-> attempt, error |-> IF attempt <= Len(errors) THEN errors[attempt] ELSE "none"]

-----------------------------------------------------------------------------
(* What all this promises.                                                 *)

Uniform(text) ==
  \/ \A i \in DOMAIN text : text[i] # "CR"
  \/ \A i \in DOMAIN text : text[i] = "LF" => IsPair(text, i - 1)

(* A line ends with LF or with CR LF, and the search begins in no line end.*)
WholeLines(text) == \A i \in DOMAIN text : text[i] = "CR" => IsPair(text, i)

CutsPair(text, s) == \E i \in At(text, s) : IsPair(text, i - 1)

(* A patch replaces one place that says what the search says, and touches  *)
(* no other character; in a text of mixed line ends it may change line     *)
(* ends elsewhere, but nothing else.  Of two places that do not overlap it *)
(* chooses none.                                                           *)
PatchSound(text, search, replace) ==
  LET out == ApplyPatch(text, search, replace)
      s == NormalizeEol(search)
      Splits(t, r, whole) ==
        \E i \in 1..(Len(t) + 1), k \in 0..Len(t) :
          /\ i <= k + 1
          /\ NormalizeEol(SubSeq(t, i, k)) = s
          /\ \E before \in {SubSeq(t, 1, i - 1)} :
             \E new \in {Expanded(r, before, SubSeq(t, i, k)),
                        ToFileEol(Expanded(r, before, s), DetectEol(t))} :
               whole = before \o new \o SubSeq(t, k + 1, Len(t))
  IN  WholeLines(text) /\ WholeLines(search) /\ WholeLines(replace) /\ ~CutsPair(text, search) =>
      /\ out.ok =>
           /\ Splits(NormalizeEol(text), NormalizeEol(replace), NormalizeEol(out.text))
           /\ Uniform(text) => Splits(text, replace, out.text)
           /\ Len(Matches(text, search, 1)) <= 1
           /\ Uniform(text) => Len(Matches(NormalizeEol(text), s, 1)) = 1
      /\ ~out.ok => Len(Matches(NormalizeEol(text), s, 1)) # 1 \/ ~Uniform(text)

Swapped(changes, i) ==
  [k \in DOMAIN changes |-> CASE k = i -> changes[i + 1] [] k = i + 1 -> changes[i]
                              [] OTHER -> changes[k]]

(* A checked set fails only by a text that is not there or not unique, and *)
(* then nothing is changed; changes of different files may change places.  *)
ApplicationSound(files, allowed, changes, out) ==
  /\ out.refusal.phrase \in {"none", "not_found", "not_unique"}
  /\ out.refusal # NoRefusal => out.files = files
  /\ \A p \in DOMAIN files : out.files[p] # files[p] =>
       p \in allowed /\ \E i \in DOMAIN changes : changes[i].path = p
  /\ \A i \in 1..(Len(changes) - 1) :
       changes[i].path # changes[i + 1].path =>
         ApplyChanges(files, allowed, Swapped(changes, i)).files = out.files

SetSound(files, allowed, changes) ==
  ValidatePatchSet(files, allowed, changes) = NoRefusal =>
    ApplicationSound(files, allowed, changes, ApplyChanges(files, allowed, changes))

(* A pass is repeated only where another answer can help, the next one     *)
(* then sees something else, and both readings of a refusal agree; a       *)
(* refused pass leaves the project alone and no changes on record.         *)
RefusalSound(files, allowed, a) ==
  \A pass \in {Pass(files, allowed, a)} :
  \A verdict \in {ClassifyExecutorBlockedJson(pass.result)} :
  LET patch == ClassifyPatchFailure(pass.refused)
      said == a.parses /\ a.object /\ NormalizeExecutorResult(a).status = "blocked"
      changed == pass.files # files
  IN  /\ verdict.retry <=> ResolveStrategy(verdict) # {}
      /\ pass.result.status = "blocked" => ~changed /\ pass.result.changes = <<>>
      /\ pass.refused \in {"not_found", "not_unique"} /\ ~said =>
           verdict.cause = patch.cause /\ verdict.retry
      /\ pass.refused \in {"noop", "duplicate", "empty_search"} => ~verdict.retry
      /\ verdict.retry /\ ~said /\ ~pass.result.hint =>
           pass.refused \in {"parse", "not_found", "not_unique"}
      /\ patch.type \in {"path_safety_block", "missing_file"} /\ ~pass.result.hint => ~verdict.retry
=============================================================================
