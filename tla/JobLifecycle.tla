---------------------------- MODULE JobLifecycle ----------------------------
(***************************************************************************)
(* What the queue promises the user about one job, whatever processes      *)
(* touch it: which status may follow which, and that an attempt is counted *)
(* exactly when an execution starts.  Jobs move independently and several  *)
(* may move in one step (a recovery or a pruning changes many records).    *)
(*                                                                         *)
(*   absent -> pending -> running -> completed                             *)
(*                |          |-----> failed ----+                          *)
(*                |          v                  |                          *)
(*                |      cancelling             |                          *)
(*                v          v                  v                          *)
(*            cancelled <----+   ---- retry: pending, attempts left        *)
(*                                                                         *)
(* failed_cancel is the outcome of a cancellation that could not be        *)
(* signalled; it becomes cancelled when the execution ends after all.      *)
(* Ended jobs may be pruned, and nothing brings a pruned job back.         *)
(***************************************************************************)
EXTENDS Integers

CONSTANTS Jobs, MaxAttempts

VARIABLES status, attempts

Init ==
  /\ status = [j \in Jobs |-> "absent"]
  /\ attempts = [j \in Jobs |-> 0]

To(j, from, to) == status[j] \in from /\ status'[j] \in to

Start(j) ==
  /\ To(j, {"pending"}, {"running"})
  /\ attempts[j] < MaxAttempts
  /\ attempts'[j] = attempts[j] + 1

Retry(j) ==
  /\ To(j, {"failed", "cancelled"}, {"pending"})
  /\ attempts[j] < MaxAttempts

Move(j) ==
  \/ To(j, {"absent"}, {"pending"})
  \/ To(j, {"pending"}, {"cancelled"})
  \/ To(j, {"running"}, {"completed", "failed", "cancelling", "failed_cancel"})
  \/ To(j, {"cancelling", "failed_cancel"}, {"cancelled"})
  \/ To(j, {"completed", "failed", "cancelled", "failed_cancel"}, {"pruned"})
  \/ Retry(j)

Stay(j) == status'[j] = status[j]

Next == \A j \in Jobs : Start(j) \/ ((Move(j) \/ Stay(j)) /\ attempts'[j] = attempts[j])

Spec == Init /\ [][Next]_<<status, attempts>>

=============================================================================
