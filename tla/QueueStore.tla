----------------------------- MODULE QueueStore -----------------------------
(***************************************************************************)
(* The persistent job queue (scripts/daemon/lib/queue-store.js), seen as   *)
(* the set of transactions that every process runs on queue.json under the *)
(* mutex queue.lock: withQueueExclusiveSync reloads the file, applies one  *)
(* mutator and renames the new file into place, so each operator below is  *)
(* one atomic change of the queue.  Module QueueMutex models the mutex     *)
(* itself and says when that atomicity is really there.                    *)
(*                                                                         *)
(* A job record keeps its status, its attempts, its cancel_requested flag, *)
(* whether its availableAt has passed, and the recurringDerivedFrom link.  *)
(* Timestamps, errors, events, runId and the child's pid only feed output  *)
(* and are left out.  A job identifier is never used twice: "absent" is a  *)
(* job not enqueued yet and "pruned" one removed from the file.            *)
(***************************************************************************)
EXTENDS Integers

CONSTANTS
  Jobs,         \* job identifiers; its size bounds the number of enqueued jobs
  None,         \* absence of a job, of a holder, of a pid
  MaxAttempts,  \* maxAttempts of every job
  Recurring     \* the jobs enqueued with a recurring specification

ASSUME QueueAssumption ==
  /\ MaxAttempts \in Nat \ {0}
  /\ None \notin Jobs
  /\ Recurring \subseteq Jobs

VARIABLES
  status,           \* [Jobs -> Status]
  attempts,         \* [Jobs -> Nat]
  cancelRequested,  \* [Jobs -> BOOLEAN]
  available,        \* [Jobs -> BOOLEAN], availableAt is not in the future
  derivedFrom       \* [Jobs -> Jobs \cup {None}], metadata.recurringDerivedFrom

queueVars == <<status, attempts, cancelRequested, available, derivedFrom>>

Active == {"running", "cancelling"}

(* The statuses pruning may remove and no worker is expected to change.    *)
Terminal == {"completed", "failed", "cancelled", "failed_cancel"}

Status == {"absent", "pending", "pruned"} \cup Active \cup Terminal

InFile(j) == status[j] \notin {"absent", "pruned"}

QueueInit ==
  /\ status = [j \in Jobs |-> "absent"]
  /\ attempts = [j \in Jobs |-> 0]
  /\ cancelRequested = [j \in Jobs |-> FALSE]
  /\ available = [j \in Jobs |-> FALSE]
  /\ derivedFrom = [j \in Jobs |-> None]

QueueTypeOK ==
  /\ status \in [Jobs -> Status]
  /\ attempts \in [Jobs -> Nat]
  /\ cancelRequested \in [Jobs -> BOOLEAN]
  /\ available \in [Jobs -> BOOLEAN]
  /\ derivedFrom \in [Jobs -> Jobs \cup {None}]

-----------------------------------------------------------------------------
\* Mutated forms of IsRetryable: the attempt limit off by one; any ended job.
IsRetryable_OffByOne(j) == status[j] \in {"failed", "cancelled"} /\ attempts[j] <= MaxAttempts
IsRetryable_AnyEnded(j) == status[j] \in Terminal /\ attempts[j] < MaxAttempts

(* A retry is granted to a failed or cancelled job with attempts left.     *)
IsRetryable(j) == status[j] \in {"failed", "cancelled"} /\ attempts[j] < MaxAttempts

(* A new job: pending, no attempt made, possibly delayed.                  *)
EnqueueJob(j, ready, from) ==
  /\ status[j] = "absent"
  /\ status' = [status EXCEPT ![j] = "pending"]
  /\ available' = [available EXCEPT ![j] = ready]
  /\ derivedFrom' = [derivedFrom EXCEPT ![j] = from]
  /\ UNCHANGED <<attempts, cancelRequested>>

\* Mutated form: a record that left the file is written back.
UpdateJob_Upsert(j, newStatus, cancel) ==
  /\ status' = [status EXCEPT ![j] = newStatus]
  /\ cancelRequested' = [cancelRequested EXCEPT ![j] = cancel]
  /\ UNCHANGED <<attempts, available, derivedFrom>>

(* updateJob with a mutator that sets the status and the cancel flag: it   *)
(* does not look at the previous status, and a job that is no longer in    *)
(* the file is left alone (updateJob returns null).                        *)
UpdateJob(j, newStatus, cancel) ==
  /\ status' = IF InFile(j) THEN [status EXCEPT ![j] = newStatus] ELSE status
  /\ cancelRequested' = IF InFile(j) THEN [cancelRequested EXCEPT ![j] = cancel]
                                     ELSE cancelRequested
  /\ UNCHANGED <<attempts, available, derivedFrom>>

(* The mutator of a claim: one more attempt, cancel_requested untouched.   *)
MarkRunning(j) ==
  /\ status' = [status EXCEPT ![j] = "running"]
  /\ attempts' = [attempts EXCEPT ![j] = @ + 1]
  /\ UNCHANGED <<cancelRequested, available, derivedFrom>>

\* Mutated forms of RequestJobRetry: a fresh set of attempts; one attempt given back.
RequestJobRetry_FreshAttempts(j, ready) ==
  /\ IsRetryable(j)
  /\ status' = [status EXCEPT ![j] = "pending"]
  /\ cancelRequested' = [cancelRequested EXCEPT ![j] = FALSE]
  /\ available' = [available EXCEPT ![j] = ready]
  /\ attempts' = [attempts EXCEPT ![j] = 0]
  /\ UNCHANGED derivedFrom

RequestJobRetry_Refund(j, ready) ==
  /\ IsRetryable(j)
  /\ status' = [status EXCEPT ![j] = "pending"]
  /\ cancelRequested' = [cancelRequested EXCEPT ![j] = FALSE]
  /\ available' = [available EXCEPT ![j] = ready]
  /\ attempts' = [attempts EXCEPT ![j] = @ - 1]
  /\ UNCHANGED derivedFrom

(* requestJobRetry: back to pending, now or after a delay, attempts kept.  *)
RequestJobRetry(j, ready) ==
  /\ IsRetryable(j)
  /\ status' = [status EXCEPT ![j] = "pending"]
  /\ cancelRequested' = [cancelRequested EXCEPT ![j] = FALSE]
  /\ available' = [available EXCEPT ![j] = ready]
  /\ UNCHANGED <<attempts, derivedFrom>>

(* A pruning run removes some of the terminal jobs.                        *)
Prunable(S) == \A j \in S : status[j] \in Terminal

PruneTerminal(S) ==
  /\ Prunable(S)
  /\ status' = [j \in Jobs |-> IF j \in S THEN "pruned" ELSE status[j]]
  /\ UNCHANGED <<attempts, cancelRequested, available, derivedFrom>>

\* Mutated form: a recovery that forgets the jobs whose cancellation was pending.
RecoverOrphans_RunningOnly ==
  /\ status' = [j \in Jobs |-> IF status[j] = "running" THEN "failed" ELSE status[j]]
  /\ cancelRequested' = [j \in Jobs |-> status[j] \notin {"running"} /\ cancelRequested[j]]
  /\ UNCHANGED <<attempts, available, derivedFrom>>

(* recoverOrphanRunningJobs: at start-up every running job is declared     *)
(* failed and every cancelling one cancelled, whether or not the recorded  *)
(* child still runs (that only selects the wording of the reason).         *)
RecoverOrphans ==
  /\ status' = [j \in Jobs |-> CASE status[j] = "running" -> "failed"
                                 [] status[j] = "cancelling" -> "cancelled"
                                 [] OTHER -> status[j]]
  /\ cancelRequested' = [j \in Jobs |-> status[j] \notin Active /\ cancelRequested[j]]
  /\ UNCHANGED <<attempts, available, derivedFrom>>

=============================================================================
