------------------------------ MODULE FairClaim ------------------------------
(***************************************************************************)
(* Which project the claim loop serves next (buildFairnessPendingOrder in  *)
(* scripts/daemon/lib/worker-pool.js and rrCursor in setup-bossd.js).  The *)
(* oldest available job of each project is its candidate; the candidates,  *)
(* oldest first, are rotated by a cursor that moves by one at each claim,  *)
(* modulo the number of candidates there were at that claim.               *)
(*                                                                         *)
(* One daemon; a job is its project here, and the pending jobs are in the  *)
(* order of their creation. Delayed and retried jobs, which re-enter at    *)
(* the place of their creation, are left out. Module WorkerPool puts these *)
(* actions together with the slots; module Daemon lets any candidate be    *)
(* tried first.                                                            *)
(***************************************************************************)
EXTENDS Integers, FiniteSets, FiniteSetsExt, SequencesExt

CONSTANTS
  Projects,    \* project ids
  MaxWorkers,  \* slots of the pool
  MaxPending,  \* bound on the pending jobs
  MaxWait      \* the claims in a row that may pass a project over

ASSUME FairAssumption == MaxWorkers \in Nat \ {0} /\ {MaxPending, MaxWait} \subseteq Nat

VARIABLES
  pending,     \* Seq(Projects), the projects of the available pending jobs
  running,     \* SUBSET Projects, the projects whose lock is held
  rrCursor,    \* pool.rrCursor
  wait         \* [Projects -> Nat], the claims in a row that passed it over

fairVars == <<pending, running, rrCursor, wait>>

Init ==
  /\ pending = <<>>
  /\ running = {}
  /\ rrCursor = 0
  /\ wait = [p \in Projects |-> 0]

-----------------------------------------------------------------------------
(* The projects with a candidate, in the order of their oldest job.        *)
Heads ==
  LET IsHead(i) == \A k \in 1..(i - 1) : pending[k] # pending[i]
      heads == SelectSeq([i \in 1..Len(pending) |-> i], IsHead)
  IN  [i \in DOMAIN heads |-> pending[heads[i]]]

FairnessOrder ==
  LET heads == Heads
      n == Len(heads)
  IN  [i \in 1..n |-> heads[((rrCursor + i - 1) % n) + 1]]

\* Mutated form: the cursor is left to grow.
NextCursor_Growing(n) == rrCursor + 1

NextCursor(n) == (rrCursor + 1) % n

CanServe == ToSet(pending) \ running

(* The first candidate whose project is free gets the slot.                *)
Claim ==
  LET order == FairnessOrder
      free == {i \in DOMAIN order : order[i] \notin running}
  IN  /\ Cardinality(running) < MaxWorkers
      /\ free # {}
      /\ LET p == order[Min(free)]
         IN  /\ pending' = RemoveFirst(pending, p)
             /\ running' = running \cup {p}
             /\ rrCursor' = NextCursor(Len(order))
             /\ wait' = [q \in Projects |-> IF q \in CanServe \ {p} THEN wait[q] + 1 ELSE 0]

Finish(p) ==
  /\ p \in running
  /\ running' = running \ {p}
  /\ UNCHANGED <<pending, rrCursor, wait>>

Enqueue(p) ==
  /\ Len(pending) < MaxPending
  /\ pending' = Append(pending, p)
  /\ UNCHANGED <<running, rrCursor, wait>>

(* A pending job is cancelled.                                             *)
Cancel(i) ==
  /\ pending' = RemoveAt(pending, i)
  /\ wait' = [wait EXCEPT ![pending[i]] = 0]
  /\ UNCHANGED <<running, rrCursor>>

-----------------------------------------------------------------------------
(* A project with a pending job and no execution is passed over by at most *)
(* MaxWait claims in a row, however long the backlog of the others is.     *)
WaitIsBounded == \A p \in Projects : wait[p] <= MaxWait

=============================================================================
