----------------------------- MODULE RunPolicy -----------------------------
(***************************************************************************)
(* The decision before a run (module Preflight) for one input: a task, or  *)
(* the places that a policy comes from, or both.                           *)
(***************************************************************************)
EXTENDS Cases, Integers, Sequences

CONSTANT Bad     \* a number that does not parse

P == INSTANCE Preflight

-----------------------------------------------------------------------------
(* Inputs.  What a file or the environment does not set is missing from    *)
(* it; the environment sets a variable to something or not at all.         *)
ASSUME PolicyAssumption ==
  Null \notin Int \cup STRING \cup P!Profiles /\ Bad \notin Int \cup {Null}

Words == {"integration", "frontend", "backend", "database", "security", "orchestration", "refactor",
          "docs"}

Tasks ==
  [words : SUBSET Words, names : SUBSET {"runtime", "review", "replay", "secret"},
   chars : Nat, lines : Nat]

Projects == [files : Nat, layered : BOOLEAN, hasRuntime : BOOLEAN]

Histories == [files : Nat, corrections : Nat, errors : Nat, inflation : Int]

IsPolicyFile(file) ==
  \A key \in {"cost", "ratio", "inflation", "files", "files_estimate", "prompt",
              "prompt_estimate", "corrections_cap", "corrections"} :
    P!Get(file, key) \in Int \cup {Null, Bad}

IsEnvironment(env) ==
  /\ env = [profile |-> env.profile, disable |-> env.disable, bypass |-> env.bypass,
            limits |-> env.limits]
  /\ env.profile # Null /\ env.disable \in BOOLEAN /\ env.bypass \in BOOLEAN
  /\ DOMAIN env.limits \subseteq {"cost", "files", "corrections", "mode", "resolution"}
  /\ \A key \in DOMAIN env.limits :
       env.limits[key] \in IF key \in {"mode", "resolution"} THEN STRING ELSE Int \cup {Bad}

CommandLines(profiles) == [profile : profiles, bypass : BOOLEAN, disable : BOOLEAN]

Estimates ==
  [cost : Int \cup {Null}, prompt : Int \cup {Null}, inflation : Int \cup {Null}]

PolicyInput ==
  /\ input.case = "task" =>
       input.task \in Tasks /\ input.project \in Projects /\ input.history \in Histories
  /\ input.case = "merge" =>
       /\ IsPolicyFile(input.file) /\ IsEnvironment(input.env)
       /\ input.cli \in CommandLines(STRING \cup {Null})
  /\ input.case = "verdict" =>
       /\ input.task \in Tasks /\ input.project \in Projects /\ input.history \in Histories
       /\ IsPolicyFile(input.file) /\ IsEnvironment(input.env)
       /\ input.cli \in CommandLines(P!Profiles)
       /\ input.est \in Estimates /\ input.dry \in BOOLEAN /\ input.max \in Nat

-----------------------------------------------------------------------------
(* The policy stops what it names, a stricter one stops no less, the       *)
(* limits are merged in one order, and more words do not make a task       *)
(* harmless.                                                               *)
PolicyStopsWhatItNames ==
  /\ input.case = "task" => P!AnalysisSound(input.task, input.project, input.history)
  /\ input.case = "merge" => P!MergeSound(input.file, input.env, input.cli)
  /\ input.case = "verdict" =>
       P!VerdictSound(input.task, input.project, input.history, input.est, input.file, input.env,
                      input.cli, input.dry, input.max)
=============================================================================
