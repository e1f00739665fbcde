------------------------------ MODULE Snippets ------------------------------
(***************************************************************************)
(* The parts of a file that the executor shows the model (executor.js):    *)
(* windows around the keywords of the task, how large they are, and which  *)
(* files are cut anew after a correction.                                  *)
(*                                                                         *)
(* A file is its length and, for each keyword, the offsets at which the    *)
(* scan finds it; a keyword is a record [name, len, at], name being its    *)
(* place in the list.  Offsets count from 0, a window ends before `end`.   *)
(***************************************************************************)
EXTENDS Integers, Sequences, FiniteSets, SequencesExt, FiniteSetsExt

Candidate(length, window, k, idx) ==
  LET pad == Max({0, window - k.len})
      left == pad \div 2
  IN  [keyword |-> k.name, idx |-> idx, start |-> Max({0, idx - left}),
       end |-> Min({length, idx + k.len + (pad - left)})]

Earlier(c, d) ==
  \/ c.idx < d.idx
  \/ c.idx = d.idx /\ c.start < d.start
  \/ c.idx = d.idx /\ c.start = d.start /\ c.keyword < d.keyword

RECURSIVE InOrder(_)
InOrder(S) ==
  IF S = {} THEN <<>>
  ELSE LET first == CHOOSE c \in S : \A d \in S \ {c} : Earlier(c, d)
       IN  <<first>> \o InOrder(S \ {first})

Candidates(length, window, keywords) ==
  InOrder(UNION {{Candidate(length, window, k, i) : i \in k.at} : k \in keywords})

Overlap(c, d) == ~(c.end <= d.start \/ c.start >= d.end)

\* Mutated form: a window may overlap all but the window before it.
Fits_Last(chosen, c) ==
  /\ \A d \in ToSet(chosen) : d.keyword # c.keyword
  /\ chosen # <<>> => ~Overlap(chosen[Len(chosen)], c)

Fits(chosen, c) == \A d \in ToSet(chosen) : d.keyword # c.keyword /\ ~Overlap(d, c)

Take(candidates, max) ==
  LET One(chosen, c) == IF Len(chosen) < max /\ Fits(chosen, c) THEN Append(chosen, c) ELSE chosen
  IN  FoldLeft(One, <<>>, candidates)

(* Four windows or more, none of the second half: the last one gives way   *)
(* to the first that fits there.                                           *)
Balance(length, candidates, chosen, max) ==
  LET half == length \div 2
      InFirst(c) == c.idx < half
      kept == Front(chosen)
      Instead(c) == c.idx >= half /\ Fits(kept, c)
      others == SelectSeq(candidates, Instead)
  IN  IF /\ max >= 4 /\ Len(chosen) = max
         /\ Len(SelectSeq(chosen, InFirst)) >= 3 /\ InFirst(Last(chosen))
         /\ others # <<>>
      THEN Append(kept, others[1])
      ELSE chosen

CreateTargetedSnippets(length, window, keywords, max) ==
  LET candidates == Candidates(length, window, keywords)
  IN  Balance(length, candidates, Take(candidates, max), max)

(* The sizes, for a file that is changed (primary) or only read, under the *)
(* tuning of a recovery, in percent.                                       *)
Between(lo, hi, n) == Max({lo, Min({hi, n})})

Sizes(primary, base, tuning) ==
  LET snippet == IF primary THEN base.snippet
                 ELSE Max({base.refMin, (base.snippet * base.refRatio) \div 100})
      targeted == IF primary THEN base.targeted ELSE Max({1, base.refTargeted})
      window == IF primary THEN base.window
                ELSE Max({320, (base.window * base.refWindow) \div 100})
  IN  [snippet |-> Between(400, 80000, (snippet * tuning.snippet) \div 100),
       targeted |-> Max({1, targeted + tuning.targeted}),
       window |-> Between(200, 24000, (window * tuning.window * tuning.tighten) \div 10000)]

(* null rebuilds every file.                                               *)
InferExecutorRebuildPaths(correction, named, applied, allowed) ==
  LET paths == (applied \cap allowed) \cup (IF correction THEN named \cap allowed ELSE {})
  IN  IF ~correction \/ paths = {} THEN allowed ELSE paths

-----------------------------------------------------------------------------
(* Windows lie in the file, show their keyword whole, never overlap and    *)
(* never repeat a keyword; room is left only if nothing else fits; and if  *)
(* four are shown, the second half is among them whenever one of its       *)
(* windows fits beside the others.                                         *)
SnippetsSound(length, window, keywords, max) ==
  LET chosen == CreateTargetedSnippets(length, window, keywords, max)
      all == Candidates(length, window, keywords)
      Len0(c) == (CHOOSE k \in keywords : k.name = c.keyword).len
      half == length \div 2
  IN  /\ Len(chosen) <= max
      /\ \A c \in ToSet(chosen) : 0 <= c.start /\ c.start <= c.idx
                               /\ c.idx + Len0(c) <= c.end /\ c.end <= length
      /\ \A i, k \in DOMAIN chosen :
           i # k => chosen[i].keyword # chosen[k].keyword /\ ~Overlap(chosen[i], chosen[k])
      /\ Len(chosen) < max => \A c \in ToSet(all) \ ToSet(chosen) : ~Fits(chosen, c)
      /\ Len(chosen) = max /\ max >= 4 /\ (\A c \in ToSet(chosen) : c.idx < half)
           => \A d \in ToSet(all) : d.idx >= half => ~Fits(Front(chosen), d)

(* A tuned pass shows a changed file no less than a file that is only      *)
(* read, and the recovery of a lost search widens what is shown.           *)
SizesSound(base, tuning) ==
  LET whole == Sizes(TRUE, base, tuning)
      part == Sizes(FALSE, base, tuning)
      plain == Sizes(TRUE, base, [window |-> 100, snippet |-> 100, targeted |-> 0, tighten |-> 100])
  IN  /\ base.refRatio <= 100 /\ base.refMin <= base.snippet => part.snippet <= whole.snippet
      /\ base.refWindow <= 100 /\ base.window >= 320 => part.window <= whole.window
      /\ tuning.window * tuning.tighten >= 10000 => whole.window >= plain.window
      /\ tuning.snippet >= 100 => whole.snippet >= plain.snippet
      /\ whole.targeted >= 1 /\ part.targeted >= 1

(* After a correction, what was changed or what it names is shown anew.    *)
RebuildSound(correction, named, applied, allowed) ==
  LET anew == InferExecutorRebuildPaths(correction, named, applied, allowed)
  IN  /\ anew \subseteq allowed /\ applied \cap allowed \subseteq anew
      /\ correction => named \cap allowed \subseteq anew
      /\ allowed # {} => anew # {}
=============================================================================
