------------------------------- MODULE EventLog -------------------------------
(***************************************************************************)
(* The event log of the daemon (scripts/daemon/lib/runtime-events.js):     *)
(* events.jsonl, to which the daemon, every scripts/run.js it spawned and  *)
(* the CLI append without a lock.  Whoever appends rotates the file when   *)
(* it has grown too large, maintenance prunes it, and both write a copy of *)
(* the last lines over it.  A follower reads page after page, from the     *)
(* last event it saw.                                                      *)
(*                                                                         *)
(* One access to the file per step.  A process opens the file and writes   *)
(* to it in two steps: a rename in between takes the file away under it.   *)
(* Events are numbered in the order in which they are written.             *)
(***************************************************************************)
EXTENDS Integers, Sequences, FiniteSets, SequencesExt

CONSTANTS
  Processes,   \* the daemon, its children, the CLI
  MaxSize,     \* SETUP_BOSS_EVENTS_MAX_BYTES, counted in events
  KeepLines,   \* lines that a rotation keeps: SETUP_BOSS_EVENTS_TRIM_LINES, at least 500
  PruneLines,  \* lines that maintenance keeps: keepLines of the request
  PageLimit,   \* limit of a page
  MaxEvents,   \* bound: events written
  MaxCrashes   \* bound: processes killed half way

ASSUME EventLogAssumption ==
  /\ {MaxSize, KeepLines, PruneLines, PageLimit} \subseteq Nat \ {0}
  /\ {MaxEvents, MaxCrashes} \subseteq Nat

VARIABLES
  file,     \* Seq(Nat), the lines of events.jsonl
  written,  \* number of events written
  at,       \* [Processes -> Points], the place each process has reached
  copy,     \* [Processes -> Seq(Nat)], the lines it is going to put back
  cursor,   \* the last event the follower saw, or 0
  raced,    \* history: events written while another process put lines back
  crashes   \* history: processes killed

logVars == <<file, written, at, copy, cursor, raced, crashes>>

Points == {"idle", "open", "replaced", "written", "rotate", "prune", "copied", "saved"}

Init ==
  /\ file = <<>>
  /\ written = 0
  /\ at = [p \in Processes |-> "idle"]
  /\ copy = [p \in Processes |-> <<>>]
  /\ cursor = 0
  /\ raced = {}
  /\ crashes = 0

-----------------------------------------------------------------------------
(* emitRuntimeEvent: append, then rotate.                                  *)

Open(p) ==
  /\ at[p] = "idle"
  /\ written < MaxEvents
  /\ at' = [at EXCEPT ![p] = "open"]
  /\ UNCHANGED <<file, written, copy, cursor, raced, crashes>>

PuttingBack(p) == at[p] \in {"copied", "saved"}

Write(p) ==
  LET event == written + 1
  IN  /\ at[p] \in {"open", "replaced"}
      /\ written < MaxEvents
      /\ written' = event
      /\ file' = IF at[p] = "open" THEN Append(file, event) ELSE file
      /\ raced' = IF at[p] = "replaced" \/ \E q \in Processes \ {p} : PuttingBack(q)
                  THEN raced \cup {event} ELSE raced
      /\ at' = [at EXCEPT ![p] = "written"]
      /\ UNCHANGED <<copy, cursor, crashes>>

(* The disk is full: the event is dropped, and the emitter goes on.        *)
WriteFails(p) ==
  /\ at[p] \in {"open", "replaced"}
  /\ at' = [at EXCEPT ![p] = "idle"]
  /\ UNCHANGED <<file, written, copy, cursor, raced, crashes>>

(* maybeRotateEventsFile.                                                  *)
CheckSize(p) ==
  /\ at[p] = "written"
  /\ at' = [at EXCEPT ![p] = IF Len(file) > MaxSize THEN "rotate" ELSE "idle"]
  /\ UNCHANGED <<file, written, copy, cursor, raced, crashes>>

(* pruneRuntimeEventsFile, by size or by force.                            *)
Prune(p, force) ==
  /\ at[p] = "idle"
  /\ file # <<>>
  /\ force \/ Len(file) > MaxSize
  /\ at' = [at EXCEPT ![p] = "prune"]
  /\ UNCHANGED <<file, written, copy, cursor, raced, crashes>>

LastLines(lines, n) == SubSeq(lines, IF Len(lines) > n THEN Len(lines) - n + 1 ELSE 1, Len(lines))

\* Mutated form: the first lines are kept.
TailOf_First(p) == SubSeq(file, 1, IF Len(file) > KeepLines THEN KeepLines ELSE Len(file))

TailOf(p) == LastLines(file, IF at[p] = "rotate" THEN KeepLines ELSE PruneLines)

ReadTail(p) ==
  /\ at[p] \in {"rotate", "prune"}
  /\ copy' = [copy EXCEPT ![p] = TailOf(p)]
  /\ at' = [at EXCEPT ![p] = "copied"]
  /\ UNCHANGED <<file, written, cursor, raced, crashes>>

(* The lines go to a file of the process's own ...                         *)
SaveTail(p) ==
  /\ at[p] = "copied"
  /\ at' = [at EXCEPT ![p] = "saved"]
  /\ UNCHANGED <<file, written, copy, cursor, raced, crashes>>

(* ... which takes the place of the log.                                   *)
ReplaceLog(p) ==
  /\ at[p] = "saved"
  /\ file' = copy[p]
  /\ copy' = [copy EXCEPT ![p] = <<>>]
  /\ at' = [q \in Processes |->
              CASE q = p -> "idle" [] at[q] = "open" -> "replaced" [] OTHER -> at[q]]
  /\ UNCHANGED <<written, cursor, raced, crashes>>

Crash(p) ==
  /\ at[p] # "idle"
  /\ crashes < MaxCrashes
  /\ at' = [at EXCEPT ![p] = "idle"]
  /\ copy' = [copy EXCEPT ![p] = <<>>]
  /\ crashes' = crashes + 1
  /\ UNCHANGED <<file, written, cursor, raced>>

-----------------------------------------------------------------------------
\* Mutated form: a cursor that is gone starts from the first line again.
After_Restart(event) ==
  IF event \in ToSet(file)
    THEN LET here == CHOOSE i \in DOMAIN file : file[i] = event
         IN  SubSeq(file, here + 1, Len(file))
    ELSE file

(* readRuntimeEventsFiltered: of the lines after the cursor, the last      *)
(* PageLimit.  A cursor that is not in the file has no lines after it.     *)
After(event) ==
  IF event = 0 THEN file
  ELSE IF event \in ToSet(file)
    THEN LET here == CHOOSE i \in DOMAIN file : file[i] = event
         IN  SubSeq(file, here + 1, Len(file))
    ELSE <<>>

Page == LastLines(After(cursor), PageLimit)

Follow ==
  /\ Page # <<>>
  /\ cursor' = Last(Page)
  /\ UNCHANGED <<file, written, at, copy, raced, crashes>>

Next ==
  \/ \E p \in Processes :
       \/ Open(p) \/ Write(p) \/ WriteFails(p) \/ CheckSize(p)
       \/ \E force \in BOOLEAN : Prune(p, force)
       \/ ReadTail(p) \/ SaveTail(p) \/ ReplaceLog(p) \/ Crash(p)
  \/ Follow

Spec == Init /\ [][Next]_logVars

-----------------------------------------------------------------------------
(* What the log and the copies say, and what a process puts back.          *)

LogTypeOK ==
  /\ file \in Seq(Nat)
  /\ written \in Nat
  /\ at \in [Processes -> Points]
  /\ copy \in [Processes -> Seq(Nat)]
  /\ cursor \in Nat
  /\ raced \subseteq Nat

(* Of the events 1..last, the lines hold some in their order: two lines    *)
(* are at least as far apart as their places.                              *)
InOrder(lines, last) ==
  /\ \A i \in DOMAIN lines : lines[i] \in 1..last
  /\ \A i, j \in DOMAIN lines : i < j => j - i <= lines[j] - lines[i]

(* An event that is missing is lost, or followed by as many as are kept.   *)
Explains(lines, last, lost) ==
  \A event \in 1..last :
    \/ event \in ToSet(lines) \/ event \in lost
    \/ last - event >= KeepLines \/ last - event >= PruneLines

Accounts(lines, last, lost) == InOrder(lines, last) /\ Explains(lines, last, lost)

LogInvariant ==
  /\ LogTypeOK
  /\ Accounts(file, written, raced)
  /\ \A p \in Processes : PuttingBack(p) => Accounts(copy[p], written, raced)

-----------------------------------------------------------------------------
(* Only what was written while another process put lines back can be lost  *)
(* early; any other event stays until as many newer ones were written as   *)
(* the smaller of the two limits keeps.                                    *)
LossIsExplained ==
  \A event \in 1..written :
    event \in ToSet(file) \/ event \in raced
      \/ written - event >= KeepLines \/ written - event >= PruneLines

(* A follower never sees an event again, nor one older than what it saw,   *)
(* whatever rotations and prunings happen between two pages.               *)
PagesAdvance == \A i \in DOMAIN Page : Page[i] > cursor

=============================================================================
