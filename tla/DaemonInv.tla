------------------------------ MODULE DaemonInv ------------------------------
(***************************************************************************)
(* The inductive invariant of a daemon that runs alone ("overlap" is not   *)
(* among the Faults).  Its parts say what the code relies on without ever  *)
(* checking it; module DaemonProofs proves that every step keeps it.       *)
(***************************************************************************)
EXTENDS Daemon

(* A callback that has chosen a job works on a run.                        *)
FocusIsRun == \A d \in Daemons : step[d] \notin {"idle", "claiming"} => focus[d] \in Runs

(* Daemons follow one another.                                             *)
OneDaemonAtATime == \A d, e \in Daemons : Live(d) /\ Live(e) => d = e

(* A daemon that does not serve has no slot and no callback.               *)
OnlyServingDaemonsWork ==
  \A d \in Daemons : ~Serving(d) => step[d] = "idle" /\ pool[d] = {}

(* What the status of a job says about its other fields.                   *)
RecordsConsistent ==
  \A j \in Jobs :
    /\ status[j] \in {"absent", "pending", "running"} => ~cancelRequested[j]
    /\ status[j] = "failed_cancel" => cancelRequested[j]
    /\ status[j] = "pending" => attempts[j] < MaxAttempts
    /\ status[j] = "absent" => attempts[j] = 0

(* What a callback may assume about the run it works on.                   *)
CallbackConsistent ==
  \A d \in Daemons :
    /\ step[d] = "locked" =>
         lock[ProjectOf[focus[d].job]] = [pid |-> d, job |-> focus[d].job]
    /\ step[d] \in {"claimed", "requeue", "release"} => focus[d] \in pool[d]
    /\ step[d] = "claimed" => status[focus[d].job] = "running"
    /\ step[d] \in {"requeue", "release"} => status[focus[d].job] # "running"
    /\ step[d] = "exception" => \A run \in pool[d] : ~SameProject(run.job, focus[d].job)

(* A running job has its slot, or its failure is about to be recorded; a   *)
(* recovery leaves none behind.                                            *)
RunningJobTracked ==
  \A d \in Daemons, j \in Jobs :
    status[j] = "running" =>
      /\ mode[d] # "pid"
      /\ Serving(d) => \/ [job |-> j, att |-> attempts[j]] \in pool[d]
                       \/ step[d] = "exception" /\ focus[d].job = j

TypeInv == TypeOK /\ FocusIsRun

AloneInv == OneDaemonAtATime /\ OnlyServingDaemonsWork

SlotInv ==
  /\ RecordsConsistent
  /\ CallbackConsistent
  /\ CandidatesStayClaimable
  /\ SlotHoldsLock
  /\ OneSlotPerProject
  /\ SlotMatchesRecord
  /\ RunningJobTracked

(* The whole, checked by TLC on a small instance and proved for every one. *)
InductiveInvariant == TypeInv /\ AloneInv /\ SlotInv

(* What holds of several daemons at once too: an execution was counted     *)
(* before it got its slot, and its child is spawned once.                  *)
RunsAreCounted ==
  /\ \A run \in alive : run.att <= attempts[run.job]
  /\ \A d \in Daemons : \A run \in pool[d] : run.att <= attempts[run.job]

ClaimedHoldsSlot == \A d \in Daemons : step[d] = "claimed" => focus[d] \in pool[d]

RivalInvariant == TypeInv /\ RunsAreCounted /\ ClaimedHoldsSlot /\ AttemptsTellExecutionsApart

(* What makes children supervised: an execution is settled only after its  *)
(* child, and its slot is given back only once it is settled.              *)
SettledChildIsGone == \A d \in Daemons : Settling(d) => focus[d] \notin alive

Supervision == ChildrenSupervised /\ SettledChildIsGone

(* A cancellation that is pending keeps its slot; a recovery leaves none.  *)
CancellingJobTracked ==
  \A d \in Daemons, j \in Jobs :
    status[j] = "cancelling" =>
      /\ mode[d] # "pid"
      /\ Serving(d) => [job |-> j, att |-> attempts[j]] \in pool[d]
      /\ Settling(d) => focus[d].job # j

(* A successor is recorded by the job that takes a new identifier.         *)
AbsentHasNoOrigin == \A k \in Jobs : status[k] = "absent" => derivedFrom[k] = None

Recurrence == RecurrenceContinues /\ AbsentHasNoOrigin

=============================================================================
