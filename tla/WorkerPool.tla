------------------------------ MODULE WorkerPool ------------------------------
(***************************************************************************)
(* The worker pool of the daemon: worker-pool.js, and in setup-bossd.js    *)
(* the tick, runWorkerJob, executeJobLifecycle, runJobChild and the        *)
(* termination of a running job.  It has the slot records, the count of    *)
(* busy slots per project, the handle through which a child is signalled,  *)
(* and the order in which callbacks and promise continuations run.         *)
(*                                                                         *)
(* Module FairClaim picks the project of a claim.  A callback (the tick, a *)
(* close event, a request, a signal) starts only when the continuations    *)
(* queued by earlier ones have run; the tick claims until it has to stop,  *)
(* and continuations of its claims wait for its end.                       *)
(***************************************************************************)
EXTENDS FairClaim

CONSTANTS
  Children,  \* child processes that exist at a time
  None

ASSUME NoneAssumption == None \notin Projects \cup Children

VARIABLES
  slot,        \* [Slots -> Slot], pool.slots
  asked,       \* SUBSET Slots, those whose job was asked to end
  busy,        \* [Projects -> Nat], pool.projectBusyCounts
  child,       \* [Children -> Child], the processes and what Node knows of them
  micro,       \* Seq(Continuation), the promise continuations to run
  ticking,     \* the tick is in its claim loop
  stage        \* "up", "closing" (shutdownRequested) or "ended"

poolVars == <<slot, asked, busy, child, micro, ticking, stage>>
vars == <<fairVars, poolVars>>

Slots == 1..MaxWorkers
Slot == [status : {"idle", "busy", "stopping"}, project : Projects \cup {None},
         child : Children \cup {None}]
IdleSlot == [status |-> "idle", project |-> None, child |-> None]

(* of: the slot it was spawned for; awaited: its handlers are attached and *)
(* a lifecycle waits for it; killed: as in child.killed, a signal was      *)
(* delivered; timer: of killTimerAttach; sigkill: SIGKILL was sent.        *)
Child == [running : BOOLEAN, of : Slots \cup {0}, awaited : BOOLEAN, killed : BOOLEAN,
          timer : {"none", "set", "fired"}, sigkill : BOOLEAN]
Spawned(s, awaited) == [running |-> TRUE, of |-> s, awaited |-> awaited, killed |-> FALSE,
                        timer |-> "none", sigkill |-> FALSE]
NoChild == [Spawned(0, FALSE) EXCEPT !.running = FALSE]

Continuation == [task : {"settle", "throw", "catch"}, slot : Slots, project : Projects]

PoolInit ==
  /\ Init
  /\ slot = [s \in Slots |-> IdleSlot]
  /\ asked = {}
  /\ busy = [p \in Projects |-> 0]
  /\ child = [c \in Children |-> NoChild]
  /\ micro = <<>>
  /\ ticking = FALSE
  /\ stage = "up"

-----------------------------------------------------------------------------
(* Slots.                                                                  *)

Busy(s) == slot[s].status \in {"busy", "stopping"}
BusySlots == {s \in Slots : Busy(s)}

\* Mutated form: a callback may run between two continuations.
Quiet_Always == ~ticking

(* No callback is running, and no continuation has to run first.           *)
Quiet == micro = <<>> /\ ~ticking

MarkSlotBusy(s, p, c) ==
  /\ slot' = [slot EXCEPT ![s] = [status |-> "busy", project |-> p, child |-> c]]
  /\ busy' = [busy EXCEPT ![p] = @ + 1]
  /\ UNCHANGED asked

\* Mutated form: a slot that is stopping is not counted down.
MarkSlotIdle_BusyOnly(s) ==
  /\ slot' = [slot EXCEPT ![s] = IdleSlot]
  /\ asked' = asked \ {s}
  /\ busy' = IF slot[s].status = "busy" THEN [busy EXCEPT ![slot[s].project] = @ - 1] ELSE busy

(* markSlotIdle: of a slot that is idle already, nothing changes.          *)
MarkSlotIdle(s) ==
  /\ slot' = [slot EXCEPT ![s] = IdleSlot]
  /\ asked' = asked \ {s}
  /\ busy' = IF Busy(s) THEN [busy EXCEPT ![slot[s].project] = @ - 1] ELSE busy

-----------------------------------------------------------------------------
(* The tick: claims, and of each lifecycle what runs before it waits.      *)

(* Spawned and waited for; or spawned, but the record of its pid throws    *)
(* before the handlers are attached, and nobody waits for it.              *)
Spawn(s, p, recorded) ==
  \E c \in Children :
    /\ ~child[c].running
    /\ MarkSlotBusy(s, p, c)
    /\ child' = [child EXCEPT ![c] = Spawned(s, recorded)]
    /\ micro' = IF recorded THEN micro
                ELSE Append(micro, [task |-> "throw", slot |-> s, project |-> p])

(* A cancellation is on record: no child.                                  *)
SpawnAborted(s, p) ==
  /\ MarkSlotBusy(s, p, None)
  /\ micro' = Append(micro, [task |-> "settle", slot |-> s, project |-> p])
  /\ UNCHANGED child

ClaimSlot ==
  /\ stage = "up"
  /\ Quiet \/ ticking
  /\ ticking' = TRUE
  /\ Claim
  /\ \E p \in Projects \ running :
       LET s == Min(Slots \ BusySlots)
       IN  /\ running' = running \cup {p}
           /\ (\E recorded \in BOOLEAN : Spawn(s, p, recorded)) \/ SpawnAborted(s, p)
  /\ UNCHANGED stage

EndTick ==
  /\ ticking
  /\ ticking' = FALSE
  /\ UNCHANGED <<fairVars, slot, asked, busy, child, micro, stage>>

(* A tick of a daemon that closes ends it once no slot is busy.            *)
Exit ==
  /\ Quiet
  /\ stage = "closing"
  /\ BusySlots = {}
  /\ stage' = "ended"
  /\ UNCHANGED <<fairVars, slot, asked, busy, child, micro, ticking>>

-----------------------------------------------------------------------------
(* Continuations, in the order in which they were queued.                  *)

NextIs(task) == ~ticking /\ micro # <<>> /\ Head(micro).task = task

(* The end of the lifecycle: the record is updated, or that throws; its    *)
(* finally gives the lock and the slot back.                               *)
Settle(throws) ==
  LET s == Head(micro).slot
      p == Head(micro).project
  IN  /\ NextIs("settle") \/ (NextIs("throw") /\ throws)
      /\ micro' = IF throws
                  THEN Append(Tail(micro), [task |-> "catch", slot |-> s, project |-> p])
                  ELSE Tail(micro)
      /\ Finish(p)
      /\ MarkSlotIdle(s)
      /\ UNCHANGED <<child, ticking, stage>>

(* The catch of runWorkerJob: a job still running is declared failed, and  *)
(* its slot marked idle once more.                                         *)
Catch(stillRunning) ==
  /\ NextIs("catch")
  /\ micro' = Tail(micro)
  /\ IF stillRunning
     THEN MarkSlotIdle(Head(micro).slot)
     ELSE UNCHANGED <<slot, asked, busy>>
  /\ UNCHANGED <<fairVars, child, ticking, stage>>

(* An update that throws in the tick or in the catch ends the daemon.      *)
Die ==
  /\ ticking \/ NextIs("catch")
  /\ stage' = "ended"
  /\ micro' = <<>>
  /\ ticking' = FALSE
  /\ UNCHANGED <<fairVars, slot, asked, busy, child>>

-----------------------------------------------------------------------------
(* Children, requests and signals.                                         *)

Close(c) ==
  /\ Quiet
  /\ child[c].running
  /\ child' = [child EXCEPT ![c] = NoChild]
  /\ UNCHANGED <<fairVars, asked, busy, ticking, stage>>

\* Mutated form: the continuation is not queued.
ChildCloses_NoResolve(c) ==
  /\ Close(c)
  /\ slot' = IF child[c].awaited THEN [slot EXCEPT ![child[c].of].child = None] ELSE slot
  /\ UNCHANGED micro

\* Mutated form: the handlers are attached before the pid is recorded.
ChildCloses_Abandoned(c) ==
  LET s == child[c].of
  IN  /\ Close(c)
      /\ slot' = [slot EXCEPT ![s].child = None]
      /\ micro' = IF child[c].awaited
                  THEN Append(micro, [task |-> "settle", slot |-> s, project |-> slot[s].project])
                  ELSE micro

(* The child has ended, on its own or by a signal.  Its close event clears *)
(* the handle of the slot, and its lifecycle goes on; nobody hears of the  *)
(* end of a child without handlers.                                        *)
ChildCloses(c) ==
  LET s == child[c].of
  IN  /\ Close(c)
      /\ IF child[c].awaited
         THEN /\ slot' = [slot EXCEPT ![s].child = None]
              /\ micro' = Append(micro, [task |-> "settle", slot |-> s, project |-> slot[s].project])
         ELSE UNCHANGED <<slot, micro>>

(* requestRunningTerminateForJob: the child in the slot's handle gets a    *)
(* timer and SIGTERM; without a handle the request succeeds all the same.  *)
Terminate(s) ==
  /\ Quiet
  /\ Busy(s)
  /\ asked' = asked \cup {s}
  /\ child' = IF slot[s].child = None THEN child
              ELSE [child EXCEPT ![slot[s].child].timer = "set", ![slot[s].child].killed = TRUE]
  /\ UNCHANGED <<fairVars, slot, busy, micro, ticking, stage>>

(* The timer sends SIGKILL to a child that no signal has reached and that  *)
(* is still the slot's.                                                    *)
KillTimer(c) ==
  /\ Quiet
  /\ child[c].running
  /\ child[c].timer = "set"
  /\ child' = [child EXCEPT ![c].timer = "fired",
                            ![c].sigkill = @ \/ (~child[c].killed /\ slot[child[c].of].child = c)]
  /\ UNCHANGED <<fairVars, slot, asked, busy, micro, ticking, stage>>

(* The signal that asks the daemon to stop.                                *)
RequestShutdown ==
  /\ Quiet
  /\ stage = "up"
  /\ stage' = "closing"
  /\ slot' = [s \in Slots |->
                IF slot[s].status = "busy" THEN [slot[s] EXCEPT !.status = "stopping"] ELSE slot[s]]
  /\ UNCHANGED <<fairVars, asked, busy, child, micro, ticking>>

(* The queue, from outside.                                                *)
QueueChanges ==
  /\ \/ \E p \in Projects : Enqueue(p)
     \/ \E i \in DOMAIN pending : Cancel(i)
  /\ UNCHANGED poolVars

Running ==
  \/ ClaimSlot \/ EndTick \/ Exit
  \/ \E outcome \in BOOLEAN : Settle(outcome) \/ Catch(outcome)
  \/ Die
  \/ \E c \in Children : ChildCloses(c) \/ KillTimer(c)
  \/ \E s \in Slots : Terminate(s)
  \/ RequestShutdown
  \/ QueueChanges

PoolNext == stage # "ended" /\ Running

PoolSpec == PoolInit /\ [][PoolNext]_vars

-----------------------------------------------------------------------------
(* The second markSlotIdle of an execution that threw finds the slot idle: *)
(* no claim takes it in between.  And an execution that is about to end    *)
(* has its slot.                                                           *)
ReleaseHitsOwnSlot ==
  \A i \in DOMAIN micro :
    LET s == micro[i].slot
    IN  IF micro[i].task = "catch" THEN ~Busy(s)
        ELSE Busy(s) /\ slot[s].project = micro[i].project

(* The counters agree with the slots, and a project's lock with both: no   *)
(* slot leaks, and none is counted twice.                                  *)
CountsMatchSlots ==
  \A p \in Projects :
    /\ busy[p] = Cardinality({s \in BusySlots : slot[s].project = p})
    /\ busy[p] = IF p \in running THEN 1 ELSE 0

(* The children whose end the execution of a slot waits for.               *)
Own(s) == {c \in Children : child[c].of = s /\ child[c].awaited}

(* Every execution has its end before it: a busy slot has a child that is  *)
(* waited for, or a continuation to come, so that a shutdown never waits   *)
(* for a slot that nothing gives back.                                     *)
BusySlotEnds ==
  stage # "ended" =>
    \A s \in BusySlots :
      IF \E i \in DOMAIN micro : micro[i].slot = s
        THEN Own(s) = {}
        ELSE Cardinality(Own(s)) = 1

(* An execution that was asked to end has had its child signalled: the     *)
(* handle of a busy slot is never lost to the end of another child.        *)
TerminateSignals == \A s \in asked : \A c \in Own(s) : child[c].killed

(* What an execution was given stays its own to its end: no other ending   *)
(* frees its slot or clears the handle that a cancellation goes through.   *)
ExecutionsKeepTheirOwn == ReleaseHitsOwnSlot /\ TerminateSignals

(* A child that outlives the timer of its cancellation gets SIGKILL.       *)
EscalationKills ==
  \A c \in Children : child[c].running /\ child[c].timer = "fired" => child[c].sigkill

-----------------------------------------------------------------------------
(* Why slots, counters, children and continuations agree.  A continuation  *)
(* runs in a callback of its own, so between two callbacks each of them is *)
(* a step behind another.                                                  *)

PoolTypeOK ==
  /\ running \subseteq Projects
  /\ slot \in [Slots -> Slot]
  /\ busy \in [Projects -> Nat]
  /\ child \in [Children -> Child]
  /\ micro \in Seq(Continuation)
  /\ ticking \in BOOLEAN
  /\ stage \in {"up", "closing", "ended"}

(* A busy slot is the one slot of a project whose lock is held.            *)
SlotsHoldLocks ==
  /\ \A s \in BusySlots : slot[s].project \in running
  /\ \A s, t \in BusySlots : slot[s].project = slot[t].project => s = t
  /\ \A p \in running : \E s \in BusySlots : slot[s].project = p
  /\ \A p \in Projects : busy[p] = IF p \in running THEN 1 ELSE 0

(* No slot is settled twice; and a tick claims no slot that a catch is     *)
(* still going to mark idle.                                               *)
OneEndPerSlot ==
  /\ ReleaseHitsOwnSlot
  /\ \A i, j \in DOMAIN micro :
       micro[i].task # "catch" /\ micro[j].task # "catch" /\ micro[i].slot = micro[j].slot => i = j
  /\ ticking => \A i \in DOMAIN micro : micro[i].task # "catch"

(* The child that a slot waits for is the one in its handle, and its end   *)
(* is the end of the slot's execution.                                     *)
HandleIsOwn ==
  \A c \in Children :
    child[c].awaited =>
      LET s == child[c].of
      IN  /\ child[c].running
          /\ s \in BusySlots
          /\ slot[s].child = c
          /\ \A i \in DOMAIN micro : micro[i].slot # s

EndsToCome ==
  stage # "ended" =>
    \A s \in BusySlots :
      \/ \E i \in DOMAIN micro : micro[i].slot = s
      \/ \E c \in Children : child[c].awaited /\ child[c].of = s

PoolInvariant ==
  /\ PoolTypeOK
  /\ SlotsHoldLocks
  /\ OneEndPerSlot
  /\ HandleIsOwn
  /\ EndsToCome
  /\ asked \subseteq BusySlots
  /\ TerminateSignals

=============================================================================
