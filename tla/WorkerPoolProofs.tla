--------------------------- MODULE WorkerPoolProofs ---------------------------
(***************************************************************************)
(* The pool of slots with any number of projects, slots and children, in   *)
(* every order of its callbacks and continuations.                         *)
(***************************************************************************)
EXTENDS WorkerPool, FiniteSetTheorems, SequenceTheorems, WellFoundedInduction, TLAPS

USE FairAssumption, NoneAssumption

(* pickFreeSlot: a set of numbers has a least one.                         *)
LEMMA LeastElement ==
  ASSUME NEW S \in SUBSET Nat, S # {}
  PROVE  Min(S) \in S /\ \A x \in S : Min(S) <= x
<1> DEFINE Below == {pair \in Nat \X Nat : pair[1] < pair[2]}
<1>1. OpToRel(<, Nat) = Below
  BY Zenon DEF OpToRel
<1>2. IsWellFoundedOn(Below, Nat)
  BY <1>1, NatLessThanWellFounded, Zenon
<1>3. PICK x \in S : \A y \in S : ~(<<y, x>> \in Below)
  BY <1>2, WFMin, Zenon
<1>4. ASSUME NEW y \in S PROVE x <= y
  <2>1. <<y, x>> \in Nat \X Nat /\ <<y, x>>[1] = y /\ <<y, x>>[2] = x
    OBVIOUS
  <2>2. ~(y < x)
    BY <1>3, <2>1
  <2> QED
    BY <2>2
<1> QED
  BY <1>4 DEF Min

(* The queue of continuations: what is there when one comes or goes.       *)
LEMMA Appending ==
  ASSUME NEW T, NEW s \in Seq(T), NEW e \in T
  PROVE  /\ Append(s, e) \in Seq(T)
         /\ DOMAIN Append(s, e) = DOMAIN s \cup {Len(s) + 1}
         /\ \A i \in DOMAIN s : Append(s, e)[i] = s[i] /\ i # Len(s) + 1
         /\ Append(s, e)[Len(s) + 1] = e
  OBVIOUS

LEMMA Dropping ==
  ASSUME NEW T, NEW s \in Seq(T), s # <<>>
  PROVE  /\ Tail(s) \in Seq(T)
         /\ Head(s) = s[1] /\ 1 \in DOMAIN s /\ Head(s) \in T
         /\ \A i \in DOMAIN Tail(s) : i + 1 \in DOMAIN s /\ Tail(s)[i] = s[i + 1] /\ i + 1 # 1 /\ i \in Nat
         /\ \A i \in DOMAIN s : i # 1 => i - 1 \in DOMAIN Tail(s) /\ Tail(s)[i - 1] = s[i]
  OBVIOUS

LEMMA SlotTypes ==
  ASSUME PoolTypeOK
  PROVE  /\ BusySlots \subseteq Slots
         /\ Slots \subseteq Nat /\ 0 \notin Slots
         /\ \A s \in Slots : slot[s] \in Slot
         /\ \A i \in DOMAIN micro : micro[i] \in Continuation
         /\ \A s \in Slots : s \in BusySlots <=> Busy(s)
  BY DEF PoolTypeOK, BusySlots, Slots

(* A project less than the slots has its lock held: there is a slot free.  *)
LEMMA SomeSlotIsFree ==
  ASSUME PoolTypeOK, SlotsHoldLocks, Cardinality(running) < MaxWorkers
  PROVE  /\ Min(Slots \ BusySlots) \in Slots
         /\ ~Busy(Min(Slots \ BusySlots))
<1>1. IsFiniteSet(Slots) /\ Cardinality(Slots) = MaxWorkers
  BY FS_Interval DEF Slots
<1>2. IsFiniteSet(BusySlots)
  BY <1>1, FS_Subset DEF BusySlots
<1> DEFINE Held == [s \in BusySlots |-> slot[s].project]
<1>3. Held \in Surjection(BusySlots, running)
  BY DEF SlotsHoldLocks, Surjection
<1>4. IsFiniteSet(running)
  BY <1>2, <1>3, FS_Surjection
<1>5. Held \in Injection(BusySlots, running)
  BY DEF SlotsHoldLocks, Injection, IsInjective
<1>6. Cardinality(BusySlots) <= Cardinality(running)
  BY <1>4, <1>5, FS_Injection
<1>7. BusySlots # Slots
  BY <1>1, <1>4, <1>6, FS_CardinalityType
<1>8. Slots \ BusySlots # {} /\ Slots \ BusySlots \in SUBSET Nat
  BY <1>7 DEF BusySlots, Slots
<1>9. Min(Slots \ BusySlots) \in Slots \ BusySlots
  BY <1>8, LeastElement, Zenon
<1> QED
  BY <1>9 DEF BusySlots

-----------------------------------------------------------------------------
(* The steps.                                                              *)

LEMMA PoolStart ==
  ASSUME PoolInit PROVE PoolInvariant
<1> USE DEF PoolInit, Init
<1>1. BusySlots = {}
  BY DEF BusySlots, Busy, IdleSlot
<1>2. PoolTypeOK
  <2>1. NoChild \in Child
    BY DEF NoChild, Spawned, Child
  <2>2. IdleSlot \in Slot
    BY DEF IdleSlot, Slot
  <2>3. slot \in [Slots -> Slot] /\ child \in [Children -> Child]
    BY <2>1, <2>2
  <2>4. micro \in Seq(Continuation)
    OBVIOUS
  <2> QED
    BY <2>3, <2>4 DEF PoolTypeOK
<1>3. SlotsHoldLocks
  BY <1>1 DEF SlotsHoldLocks
<1>4. OneEndPerSlot
  BY DEF OneEndPerSlot, ReleaseHitsOwnSlot
<1>5. HandleIsOwn
  BY DEF HandleIsOwn, NoChild, Spawned
<1>6. EndsToCome /\ asked \subseteq BusySlots /\ TerminateSignals
  BY <1>1 DEF EndsToCome, TerminateSignals
<1> QED
  BY <1>2, <1>3, <1>4, <1>5, <1>6 DEF PoolInvariant

LEMMA QuietSteps ==
  ASSUME PoolInvariant, EndTick \/ Exit \/ Die \/ QueueChanges
  PROVE  PoolInvariant'
<1> USE DEF PoolInvariant
<1>1. UNCHANGED <<slot, asked, busy, child, running>> /\ BusySlots' = BusySlots
  BY DEF EndTick, Exit, Die, QueueChanges, Enqueue, Cancel, fairVars, poolVars, BusySlots, Busy
<1>2. /\ micro' = micro \/ (micro' = <<>> /\ stage' = "ended")
      /\ ticking' = FALSE \/ ticking' = ticking
      /\ stage' = stage \/ stage' = "ended"
  BY DEF EndTick, Exit, Die, QueueChanges, poolVars
<1>3. PoolTypeOK'
  <2>1. <<>> \in Seq(Continuation) /\ micro \in Seq(Continuation)
    BY DEF PoolTypeOK
  <2>2. micro' \in Seq(Continuation)
    BY <1>2, <2>1
  <2> QED
    BY <1>1, <1>2, <2>2 DEF PoolTypeOK
<1>4. SlotsHoldLocks'
  BY <1>1 DEF SlotsHoldLocks
<1>5. OneEndPerSlot'
  BY <1>1, <1>2 DEF OneEndPerSlot, ReleaseHitsOwnSlot, Busy
<1>6. HandleIsOwn'
  BY <1>1, <1>2 DEF HandleIsOwn
<1>7. EndsToCome'
  BY <1>1, <1>2 DEF EndsToCome
<1>8. asked' \subseteq BusySlots' /\ TerminateSignals'
  BY <1>1 DEF TerminateSignals, Own
<1> QED
  BY <1>3, <1>4, <1>5, <1>6, <1>7, <1>8

(* The slots change their status, or a child its signals.                  *)
LEMMA SignalSteps ==
  ASSUME PoolInvariant,
         RequestShutdown \/ (\E c \in Children : KillTimer(c)) \/ (\E s \in Slots : Terminate(s))
  PROVE  PoolInvariant'
<1> USE DEF PoolInvariant
<1>1. UNCHANGED <<busy, running, micro, ticking>> /\ (stage' = stage \/ stage # "ended")
  BY DEF RequestShutdown, KillTimer, Terminate, fairVars
<1>2. /\ slot' \in [Slots -> Slot]
      /\ \A s \in Slots : /\ Busy(s)' <=> Busy(s)
                          /\ slot'[s].project = slot[s].project
                          /\ slot'[s].child = slot[s].child
  <2>1. CASE RequestShutdown
    <3> USE <2>1 DEF RequestShutdown
    <3>1. ASSUME NEW s \in Slots, slot[s].status = "busy"
          PROVE  /\ slot'[s] = [slot[s] EXCEPT !.status = "stopping"]
                 /\ slot[s] \in Slot
      BY <3>1 DEF PoolTypeOK
    <3>2. ASSUME NEW s \in Slots, slot[s].status # "busy"
          PROVE  slot'[s] = slot[s] /\ slot[s] \in Slot
      BY <3>2 DEF PoolTypeOK
    <3>3. ASSUME NEW s \in Slots
          PROVE  /\ slot'[s] \in Slot
                 /\ Busy(s)' <=> Busy(s)
                 /\ slot'[s].project = slot[s].project
                 /\ slot'[s].child = slot[s].child
      <4>1. CASE slot[s].status = "busy"
        BY <3>1, <4>1 DEF Slot, Busy
      <4> QED
        BY <3>2, <4>1 DEF Busy
    <3> QED
      BY <3>3
  <2>2. CASE ~RequestShutdown
    BY <2>2 DEF KillTimer, Terminate, PoolTypeOK, Busy
  <2> QED
    BY <2>1, <2>2
<1>3. BusySlots' = BusySlots
  BY <1>2 DEF BusySlots
<1>4. /\ child' \in [Children -> Child]
      /\ \A c \in Children : /\ (child'[c].running <=> child[c].running)
                             /\ child'[c].of = child[c].of
                             /\ (child'[c].awaited <=> child[c].awaited)
                             /\ child[c].killed => child'[c].killed
  <2>1. CASE RequestShutdown
    BY <2>1 DEF RequestShutdown, PoolTypeOK
  <2>2. ASSUME NEW c \in Children, KillTimer(c)
        PROVE  /\ child'[c] \in Child
               /\ (child'[c].running <=> child[c].running)
               /\ child'[c].of = child[c].of
               /\ (child'[c].awaited <=> child[c].awaited)
               /\ (child'[c].killed <=> child[c].killed)
               /\ child' = [child EXCEPT ![c] = child'[c]]
    BY ZenonT(40), <2>2 DEF KillTimer, PoolTypeOK, Child
  <2>3. ASSUME NEW s \in Slots, Terminate(s), slot[s].child # None
        PROVE  \E c \in Children :
                 /\ child'[c] \in Child
                 /\ (child'[c].running <=> child[c].running)
                 /\ child'[c].of = child[c].of
                 /\ (child'[c].awaited <=> child[c].awaited)
                 /\ child'[c].killed
                 /\ child' = [child EXCEPT ![c] = child'[c]]
    <3>1. PICK c \in Children : c = slot[s].child
      BY <2>3 DEF PoolTypeOK, Slot
    <3>2. child' = [child EXCEPT ![c].timer = "set", ![c].killed = TRUE]
      BY <2>3, <3>1 DEF Terminate
    <3>3. child[c] \in Child
      BY DEF PoolTypeOK
    <3>4. child' = [child EXCEPT ![c] = [child[c] EXCEPT !.timer = "set", !.killed = TRUE]]
      BY <3>2 DEF PoolTypeOK
    <3>5. child'[c] = [child[c] EXCEPT !.timer = "set", !.killed = TRUE]
      BY <3>4 DEF PoolTypeOK
    <3> QED
      <4>1. /\ child'[c] \in Child
            /\ (child'[c].running <=> child[c].running)
            /\ child'[c].of = child[c].of
            /\ (child'[c].awaited <=> child[c].awaited)
            /\ child'[c].killed
        BY <3>3, <3>5 DEF Child
      <4> QED
        BY <3>4, <3>5, <4>1
  <2>4. ASSUME NEW s \in Slots, Terminate(s), slot[s].child = None
        PROVE  child' = child
    BY <2>4 DEF Terminate
  <2> QED
    BY <2>1, <2>2, <2>3, <2>4 DEF PoolTypeOK
<1>5. PoolTypeOK'
  BY <1>1, <1>2, <1>4 DEF PoolTypeOK, RequestShutdown, KillTimer, Terminate
<1>6. SlotsHoldLocks'
  BY <1>1, <1>2, <1>3, SlotTypes DEF SlotsHoldLocks
<1>7. OneEndPerSlot'
  <2>1. ReleaseHitsOwnSlot'
    BY <1>1, <1>2, SlotTypes DEF OneEndPerSlot, ReleaseHitsOwnSlot, Continuation
  <2> QED
    BY <1>1, <2>1 DEF OneEndPerSlot
<1>8. HandleIsOwn'
  <2> SUFFICES ASSUME NEW c \in Children, child'[c].awaited
               PROVE  /\ child'[c].running
                      /\ child'[c].of \in BusySlots'
                      /\ slot'[child'[c].of].child = c
                      /\ \A i \in DOMAIN micro' : micro'[i].slot # child'[c].of
    BY DEF HandleIsOwn
  <2>1. /\ child[c].running /\ child[c].of \in BusySlots /\ slot[child[c].of].child = c
        /\ \A i \in DOMAIN micro : micro[i].slot # child[c].of
    <3>1. child[c].awaited
      BY <1>4
    <3>2. HandleIsOwn
      OBVIOUS
    <3> HIDE DEF PoolInvariant
    <3> QED
      BY <3>1, <3>2, Zenon DEF HandleIsOwn
  <2> QED
    BY <1>1, <1>2, <1>3, <1>4, <2>1, SlotTypes
<1>9. EndsToCome'
  BY <1>1, <1>3, <1>4 DEF EndsToCome
<1>10. asked' \subseteq BusySlots' /\ TerminateSignals'
  <2>1. CASE UNCHANGED asked
    BY <1>3, <1>4, <2>1 DEF TerminateSignals, Own
  <2>2. ASSUME NEW s \in Slots, Terminate(s)
        PROVE  /\ asked' = asked \cup {s} /\ s \in BusySlots
               /\ \A c \in Own(s) : child'[c].killed
    <3>1. \A c \in Own(s) : slot[s].child = c
      BY DEF HandleIsOwn, Own
    <3>2. ASSUME NEW c \in Own(s) PROVE child'[c].killed
      <4>1. c \in Children /\ c = slot[s].child /\ c # None /\ child[c] \in Child
        BY <3>1 DEF Own, PoolTypeOK
      <4> QED
        BY <2>2, <4>1 DEF Terminate, PoolTypeOK, Child
    <3> QED
      BY <2>2, <3>2 DEF Terminate, BusySlots
  <2> QED
    BY <1>3, <1>4, <2>1, <2>2 DEF TerminateSignals, Own, RequestShutdown, KillTimer
<1> QED
  BY <1>5, <1>6, <1>7, <1>8, <1>9, <1>10

(* A slot of its own for an execution whose project's lock was free.       *)
LEMMA ClaimStep ==
  ASSUME PoolInvariant, ClaimSlot
  PROVE  PoolInvariant'
<1> USE DEF PoolInvariant
<1>1. PICK s \in Slots : ~Busy(s) /\ s = Min(Slots \ BusySlots)
  BY SomeSlotIsFree DEF ClaimSlot, Claim
<1>2. PICK p \in Projects \ running, c \in Children \cup {None} :
        /\ running' = running \cup {p}
        /\ MarkSlotBusy(s, p, c)
        /\ \/ /\ c \in Children /\ ~child[c].running
              /\ \E recorded \in BOOLEAN :
                   /\ child' = [child EXCEPT ![c] = Spawned(s, recorded)]
                   /\ micro' = IF recorded THEN micro
                               ELSE Append(micro, [task |-> "throw", slot |-> s, project |-> p])
           \/ /\ c = None
              /\ child' = child
              /\ micro' = Append(micro, [task |-> "settle", slot |-> s, project |-> p])
  BY <1>1 DEF ClaimSlot, Spawn, SpawnAborted
<1>3. stage' = stage /\ ticking' = TRUE /\ stage = "up" /\ asked' = asked
  BY <1>2 DEF ClaimSlot, MarkSlotBusy
<1>4. /\ slot' \in [Slots -> Slot]
      /\ slot'[s].project = p /\ slot'[s].child = c /\ Busy(s)'
      /\ \A t \in Slots : t # s => slot'[t] = slot[t] /\ (Busy(t)' <=> Busy(t))
  <2>1. slot' = [slot EXCEPT ![s] = [status |-> "busy", project |-> p, child |-> c]]
    BY <1>2 DEF MarkSlotBusy
  <2>2. [status |-> "busy", project |-> p, child |-> c] \in Slot
    BY DEF Slot
  <2>3. slot'[s] = [status |-> "busy", project |-> p, child |-> c]
        /\ \A t \in Slots : t # s => slot'[t] = slot[t]
    BY <1>1, <2>1 DEF PoolTypeOK
  <2> QED
    BY <2>1, <2>2, <2>3 DEF PoolTypeOK, Busy
<1>5. BusySlots' = BusySlots \cup {s} /\ s \notin BusySlots
  BY <1>1, <1>4 DEF BusySlots
<1>6. busy' \in [Projects -> Nat] /\ busy'[p] = 1 /\ \A q \in Projects : q # p => busy'[q] = busy[q]
  BY <1>2 DEF MarkSlotBusy, PoolTypeOK, SlotsHoldLocks
<1>7. \A i \in DOMAIN micro : micro[i] \in Continuation /\ micro[i].task # "catch" /\ micro[i].slot # s
  <2>1. \A i \in DOMAIN micro : micro[i].task # "catch"
    BY DEF ClaimSlot, Quiet, OneEndPerSlot
  <2> QED
    BY <1>1, <2>1, SlotTypes DEF OneEndPerSlot, ReleaseHitsOwnSlot
<1>8. \/ /\ micro' = micro
         /\ c \in Children /\ ~child[c].running
         /\ child' = [child EXCEPT ![c] = Spawned(s, TRUE)]
      \/ /\ \E e \in Continuation : /\ micro' = Append(micro, e)
                                    /\ e.slot = s /\ e.project = p /\ e.task # "catch"
         /\ \/ child' = child
            \/ /\ c \in Children /\ ~child[c].running
               /\ child' = [child EXCEPT ![c] = Spawned(s, FALSE)]
  <2>1. [task |-> "throw", slot |-> s, project |-> p] \in Continuation
    BY DEF Continuation
  <2>2. [task |-> "settle", slot |-> s, project |-> p] \in Continuation
    BY DEF Continuation
  <2> QED
    BY <1>2, <2>1, <2>2
<1>9. /\ child' \in [Children -> Child]
      /\ \A d \in Children : \/ child'[d] = child[d]
                             \/ /\ d = c /\ ~child[d].running
                                /\ \E b \in BOOLEAN : child'[d] = Spawned(s, b)
  <2>1. \A b \in BOOLEAN : Spawned(s, b) \in Child
    BY DEF Spawned, Child
  <2> QED
    BY <1>8, <2>1 DEF PoolTypeOK
<1>10. /\ micro' \in Seq(Continuation)
       /\ \A i \in DOMAIN micro' : \/ i \in DOMAIN micro /\ micro'[i] = micro[i]
                                   \/ /\ i = Len(micro) + 1 /\ micro'[i] \in Continuation
                                      /\ micro'[i].slot = s /\ micro'[i].project = p
                                      /\ micro'[i].task # "catch"
       /\ \A i \in DOMAIN micro : i \in DOMAIN micro' /\ micro'[i] = micro[i]
  <2>1. CASE micro' = micro
    BY <2>1 DEF PoolTypeOK
  <2>2. ASSUME NEW e \in Continuation, micro' = Append(micro, e),
               e.slot = s /\ e.project = p /\ e.task # "catch"
        PROVE  <1>10
    <3>1. micro \in Seq(Continuation)
      BY DEF PoolTypeOK
    <3> QED
      BY <2>2, <3>1, Appending
  <2> QED
    BY <1>8, <2>1, <2>2
<1>11. PoolTypeOK'
  BY <1>2, <1>3, <1>4, <1>6, <1>9, <1>10 DEF PoolTypeOK
<1>12. SlotsHoldLocks'
  <2>1. \A t \in BusySlots : t \in Slots /\ t # s /\ slot'[t] = slot[t] /\ slot[t].project \in running
    BY <1>4, <1>5, SlotTypes DEF SlotsHoldLocks
  <2>2. \A t \in BusySlots' : slot'[t].project \in running'
    BY <1>2, <1>4, <1>5, <2>1
  <2>3. ASSUME NEW t \in BusySlots', NEW u \in BusySlots', slot'[t].project = slot'[u].project
        PROVE  t = u
    BY <1>2, <1>4, <1>5, <2>1, <2>3 DEF SlotsHoldLocks
  <2>4. \A q \in running' : \E t \in BusySlots' : slot'[t].project = q
    BY <1>2, <1>4, <1>5, <2>1 DEF SlotsHoldLocks
  <2>5. \A q \in Projects : busy'[q] = IF q \in running' THEN 1 ELSE 0
    BY <1>2, <1>6 DEF SlotsHoldLocks
  <2> QED
    BY <2>2, <2>3, <2>4, <2>5 DEF SlotsHoldLocks
<1>13. OneEndPerSlot'
  <2>1. ReleaseHitsOwnSlot'
    <3>1. ASSUME NEW i \in DOMAIN micro
          PROVE  /\ micro[i].slot \in Slots /\ micro[i].slot # s
                 /\ Busy(micro[i].slot) /\ slot[micro[i].slot].project = micro[i].project
                 /\ micro[i].task # "catch"
      BY <1>7 DEF OneEndPerSlot, ReleaseHitsOwnSlot, Continuation
    <3>2. ASSUME NEW i \in DOMAIN micro'
          PROVE  /\ micro'[i].task # "catch"
                 /\ slot'[micro'[i].slot].status \in {"busy", "stopping"}
                 /\ slot'[micro'[i].slot].project = micro'[i].project
      BY <1>4, <1>10, <3>1 DEF Busy
    <3> QED
      BY <3>2 DEF ReleaseHitsOwnSlot, Busy
  <2>2. ASSUME NEW i \in DOMAIN micro', NEW j \in DOMAIN micro', micro'[i].slot = micro'[j].slot,
               micro'[i].task # "catch", micro'[j].task # "catch"
        PROVE  i = j
    BY <1>7, <1>10, <2>2 DEF OneEndPerSlot
  <2>3. \A i \in DOMAIN micro' : micro'[i].task # "catch"
    BY <1>7, <1>10
  <2> QED
    BY <2>1, <2>2, <2>3 DEF OneEndPerSlot
<1>14. HandleIsOwn'
  <2> SUFFICES ASSUME NEW d \in Children, child'[d].awaited
               PROVE  /\ child'[d].running
                      /\ child'[d].of \in BusySlots'
                      /\ slot'[child'[d].of].child = d
                      /\ \A i \in DOMAIN micro' : micro'[i].slot # child'[d].of
    BY DEF HandleIsOwn
  <2>1. CASE child'[d] = child[d]
    <3>1. /\ child[d].running /\ child[d].of \in BusySlots /\ slot[child[d].of].child = d
          /\ \A i \in DOMAIN micro : micro[i].slot # child[d].of
      BY <2>1 DEF HandleIsOwn
    <3>2. child[d].of # s /\ child[d].of \in Slots
      BY <1>5, <3>1, SlotTypes
    <3> QED
      BY <1>4, <1>5, <1>10, <2>1, <3>1, <3>2
  <2>2. CASE child'[d] # child[d]
    <3>1. d = c /\ child'[d] = Spawned(s, TRUE) /\ child'[d] # child[d] /\ child[d].running = FALSE
      BY <1>9, <2>2 DEF Spawned, PoolTypeOK, Child
    <3>2. micro' = micro
      BY <1>8, <3>1 DEF Spawned, PoolTypeOK
    <3> QED
      BY <1>4, <1>5, <1>7, <3>1, <3>2 DEF Spawned
  <2> QED
    BY <2>1, <2>2
<1>15. EndsToCome'
  <2>1. ASSUME NEW t \in BusySlots
        PROVE  \/ \E i \in DOMAIN micro' : micro'[i].slot = t
               \/ \E d \in Children : child'[d].awaited /\ child'[d].of = t
    <3>1. CASE \E i \in DOMAIN micro : micro[i].slot = t
      BY <1>10, <3>1
    <3>2. ASSUME NEW d \in Children, child[d].awaited, child[d].of = t
          PROVE  child'[d].awaited /\ child'[d].of = t
      BY <1>9, <3>2 DEF HandleIsOwn
    <3> QED
      BY <1>3, <3>1, <3>2 DEF EndsToCome
  <2>2. \/ \E i \in DOMAIN micro' : micro'[i].slot = s
        \/ \E d \in Children : child'[d].awaited /\ child'[d].of = s
    <3>1. ASSUME NEW e \in Continuation, micro' = Append(micro, e), e.slot = s
          PROVE  \E i \in DOMAIN micro' : micro'[i].slot = s
      <4>1. micro \in Seq(Continuation)
        BY DEF PoolTypeOK
      <4> QED
        BY <3>1, <4>1, Appending
    <3>2. ASSUME c \in Children, child' = [child EXCEPT ![c] = Spawned(s, TRUE)]
          PROVE  child'[c].awaited /\ child'[c].of = s
      BY <3>2 DEF Spawned, PoolTypeOK
    <3> QED
      BY <1>8, <3>1, <3>2
  <2> QED
    BY <1>5, <2>1, <2>2 DEF EndsToCome
<1>16. asked' \subseteq BusySlots' /\ TerminateSignals'
  <2>1. ASSUME NEW t \in asked, NEW d \in Children, child'[d].of = t, child'[d].awaited
        PROVE  child'[d].killed
    <3>1. t # s
      BY <1>5
    <3>2. child'[d] = child[d]
      BY <1>9, <2>1, <3>1 DEF Spawned
    <3> QED
      BY <2>1, <3>2 DEF TerminateSignals, Own
  <2> QED
    BY <1>3, <1>5, <2>1 DEF TerminateSignals, Own
<1> QED
  BY <1>11, <1>12, <1>13, <1>14, <1>15, <1>16

(* What comes of the continuations when the first of them runs and leaves  *)
(* at most a catch behind.                                                 *)
LEMMA FirstRuns ==
  ASSUME micro \in Seq(Continuation), micro # <<>>, NEW e \in Continuation,
         micro' = Tail(micro) \/ micro' = Append(Tail(micro), e)
  PROVE  /\ Head(micro) = micro[1] /\ 1 \in DOMAIN micro /\ micro[1] \in Continuation
         /\ micro' \in Seq(Continuation)
         /\ \A i \in DOMAIN micro' :
              \/ i + 1 \in DOMAIN micro /\ i + 1 # 1 /\ i \in Nat /\ micro'[i] = micro[i + 1]
              \/ micro' = Append(Tail(micro), e) /\ micro'[i] = e
         /\ \A i \in DOMAIN micro : i # 1 => i - 1 \in DOMAIN micro' /\ micro'[i - 1] = micro[i]
<1>1. /\ Tail(micro) \in Seq(Continuation)
      /\ Head(micro) = micro[1] /\ 1 \in DOMAIN micro /\ micro[1] \in Continuation
      /\ \A i \in DOMAIN Tail(micro) : /\ i + 1 \in DOMAIN micro /\ i + 1 # 1 /\ i \in Nat
                                       /\ Tail(micro)[i] = micro[i + 1]
      /\ \A i \in DOMAIN micro : i # 1 => /\ i - 1 \in DOMAIN Tail(micro)
                                          /\ Tail(micro)[i - 1] = micro[i]
  BY Dropping
<1> DEFINE rest == Tail(micro)
<1>2. /\ Append(rest, e) \in Seq(Continuation)
      /\ DOMAIN Append(rest, e) = DOMAIN rest \cup {Len(rest) + 1}
      /\ \A i \in DOMAIN rest : Append(rest, e)[i] = rest[i] /\ i # Len(rest) + 1
      /\ Append(rest, e)[Len(rest) + 1] = e
  BY <1>1, Appending
<1> HIDE DEF rest
<1>3. CASE micro' = Tail(micro)
  BY <1>1, <1>3
<1>4. CASE micro' = Append(Tail(micro), e)
  <2>1. micro' = Append(rest, e) /\ rest = Tail(micro)
    BY <1>4 DEF rest
  <2> QED
    BY <1>1, <1>2, <2>1
<1> QED
  BY <1>3, <1>4

LEMMA SettleStep ==
  ASSUME PoolInvariant, NEW throws \in BOOLEAN, Settle(throws)
  PROVE  PoolInvariant'
<1> USE DEF PoolInvariant
<1>1. PICK s \in Slots, p \in Projects :
        /\ s = micro[1].slot /\ p = micro[1].project /\ micro[1].task # "catch"
        /\ 1 \in DOMAIN micro /\ micro # <<>> /\ Head(micro) = micro[1]
  <2>1. micro # <<>> /\ micro \in Seq(Continuation) /\ Head(micro).task # "catch"
    BY DEF Settle, NextIs, PoolTypeOK
  <2>2. Head(micro) = micro[1] /\ 1 \in DOMAIN micro /\ micro[1] \in Continuation
    BY <2>1, Dropping
  <2> QED
    BY <2>1, <2>2 DEF Continuation
<1> DEFINE e == [task |-> "catch", slot |-> s, project |-> p]
<1>2. /\ ticking = FALSE /\ UNCHANGED <<child, ticking, stage>>
      /\ micro' = Tail(micro) \/ micro' = Append(Tail(micro), e)
      /\ p \in running /\ running' = running \ {p}
      /\ MarkSlotIdle(s)
  BY <1>1 DEF Settle, NextIs, Finish, PoolTypeOK
<1>3. e \in Continuation /\ e.task = "catch" /\ e.slot = s
  BY DEF Continuation
<1> HIDE DEF e
<1>4. /\ micro' \in Seq(Continuation)
      /\ \A i \in DOMAIN micro' :
           \/ i + 1 \in DOMAIN micro /\ i + 1 # 1 /\ i \in Nat /\ micro'[i] = micro[i + 1]
           \/ micro'[i] = e
      /\ \A i \in DOMAIN micro : i # 1 => i - 1 \in DOMAIN micro' /\ micro'[i - 1] = micro[i]
  BY <1>1, <1>2, <1>3, FirstRuns DEF PoolTypeOK
<1>5. Busy(s) /\ slot[s].project = p
  BY <1>1 DEF OneEndPerSlot, ReleaseHitsOwnSlot
<1>6. /\ slot' \in [Slots -> Slot] /\ slot'[s] = IdleSlot
      /\ \A t \in Slots : t # s => slot'[t] = slot[t]
  <2>1. IdleSlot \in Slot
    BY DEF IdleSlot, Slot
  <2> QED
    BY <1>2, <2>1 DEF MarkSlotIdle, PoolTypeOK
<1>7. BusySlots' = BusySlots \ {s} /\ s \in BusySlots
  BY <1>5, <1>6 DEF BusySlots, Busy, IdleSlot
<1>8. /\ busy' \in [Projects -> Nat] /\ busy'[p] = 0
      /\ \A q \in Projects : q # p => busy'[q] = busy[q]
  BY <1>2, <1>5 DEF MarkSlotIdle, SlotsHoldLocks, PoolTypeOK
<1>9. asked' = asked \ {s}
  BY <1>2 DEF MarkSlotIdle
<1>10. PoolTypeOK'
  BY <1>2, <1>4, <1>6, <1>8 DEF PoolTypeOK
<1>11. SlotsHoldLocks'
  <2>1. \A t \in BusySlots' : t \in BusySlots /\ t \in Slots /\ t # s /\ slot'[t] = slot[t]
    BY <1>6, <1>7, SlotTypes
  <2>2. \A t \in BusySlots' : slot'[t].project \in running'
    BY <1>2, <1>5, <1>7, <2>1 DEF SlotsHoldLocks
  <2>3. ASSUME NEW t \in BusySlots', NEW u \in BusySlots', slot'[t].project = slot'[u].project
        PROVE  t = u
    BY <2>1, <2>3 DEF SlotsHoldLocks
  <2>4. \A q \in running' : \E t \in BusySlots' : slot'[t].project = q
    <3> SUFFICES ASSUME NEW q \in running' PROVE \E t \in BusySlots' : slot'[t].project = q
      OBVIOUS
    <3>1. q \in running /\ q # p
      BY <1>2
    <3>2. PICK t \in BusySlots : slot[t].project = q
      BY <3>1 DEF SlotsHoldLocks
    <3> QED
      BY <1>5, <1>7, <2>1, <3>1, <3>2
  <2>5. \A q \in Projects : busy'[q] = IF q \in running' THEN 1 ELSE 0
    BY <1>2, <1>8 DEF SlotsHoldLocks
  <2> QED
    BY <2>2, <2>3, <2>4, <2>5 DEF SlotsHoldLocks
<1>12. ASSUME NEW i \in DOMAIN micro, i # 1, micro[i].task # "catch"
       PROVE  micro[i].slot # s
  BY <1>1, <1>12 DEF OneEndPerSlot
<1>13. OneEndPerSlot'
  <2>1. ASSUME NEW i \in DOMAIN micro'
        PROVE  IF micro'[i].task = "catch"
                 THEN slot'[micro'[i].slot].status \notin {"busy", "stopping"}
                 ELSE /\ slot'[micro'[i].slot].status \in {"busy", "stopping"}
                      /\ slot'[micro'[i].slot].project = micro'[i].project
    <3>1. CASE micro'[i] = e
      BY <1>3, <1>6, <3>1 DEF IdleSlot
    <3>2. ASSUME NEW j \in DOMAIN micro, j # 1, micro'[i] = micro[j] PROVE <2>1!2
      <4>1. /\ micro[j].slot \in Slots
            /\ IF micro[j].task = "catch" THEN ~Busy(micro[j].slot)
               ELSE Busy(micro[j].slot) /\ slot[micro[j].slot].project = micro[j].project
        BY SlotTypes DEF OneEndPerSlot, ReleaseHitsOwnSlot, Continuation
      <4>2. CASE micro[j].task = "catch"
        BY <1>5, <1>6, <3>2, <4>1, <4>2 DEF Busy
      <4>3. CASE micro[j].task # "catch"
        BY <1>6, <1>12, <3>2, <4>1, <4>3 DEF Busy
      <4> QED
        BY <4>2, <4>3
    <3> QED
      BY <1>4, <3>1, <3>2
  <2>2. ReleaseHitsOwnSlot'
    BY <2>1 DEF ReleaseHitsOwnSlot, Busy
  <2>3. ASSUME NEW i \in DOMAIN micro', NEW j \in DOMAIN micro', micro'[i].slot = micro'[j].slot,
               micro'[i].task # "catch", micro'[j].task # "catch"
        PROVE  i = j
    <3>1. /\ i + 1 \in DOMAIN micro /\ micro'[i] = micro[i + 1] /\ i \in Nat
          /\ j + 1 \in DOMAIN micro /\ micro'[j] = micro[j + 1] /\ j \in Nat
      BY <1>3, <1>4, <2>3
    <3>2. i + 1 = j + 1
      BY <2>3, <3>1 DEF OneEndPerSlot
    <3> QED
      BY <3>1, <3>2
  <2> QED
    BY <1>2, <2>2, <2>3 DEF OneEndPerSlot
<1>14. HandleIsOwn'
  <2> SUFFICES ASSUME NEW c \in Children, child'[c].awaited
               PROVE  /\ child'[c].running
                      /\ child'[c].of \in BusySlots'
                      /\ slot'[child'[c].of].child = c
                      /\ \A i \in DOMAIN micro' : micro'[i].slot # child'[c].of
    BY DEF HandleIsOwn
  <2>1. /\ child[c].running /\ child[c].of \in BusySlots /\ slot[child[c].of].child = c
        /\ \A i \in DOMAIN micro : micro[i].slot # child[c].of
    BY <1>2 DEF HandleIsOwn
  <2>2. child[c].of # s /\ child[c].of \in Slots
    BY <1>1, <2>1, SlotTypes
  <2> QED
    BY <1>2, <1>3, <1>4, <1>6, <1>7, <2>1, <2>2
<1>15. EndsToCome'
  <2> SUFFICES ASSUME stage' # "ended", NEW t \in BusySlots'
               PROVE  \/ \E i \in DOMAIN micro' : micro'[i].slot = t
                      \/ \E c \in Children : child'[c].awaited /\ child'[c].of = t
    BY DEF EndsToCome
  <2>1. t \in BusySlots /\ t # s /\ stage # "ended" /\ child' = child
    BY <1>2, <1>7
  <2>2. ASSUME NEW i \in DOMAIN micro, micro[i].slot = t
        PROVE  i - 1 \in DOMAIN micro' /\ micro'[i - 1].slot = t
    BY <1>1, <1>4, <2>1, <2>2
  <2> QED
    BY <2>1, <2>2 DEF EndsToCome
<1>16. asked' \subseteq BusySlots' /\ TerminateSignals'
  BY <1>2, <1>7, <1>9 DEF TerminateSignals, Own
<1> QED
  BY <1>10, <1>11, <1>13, <1>14, <1>15, <1>16

(* The slot that the catch marks idle is idle, and stays what it is.       *)
LEMMA CatchStep ==
  ASSUME PoolInvariant, NEW stillRunning \in BOOLEAN, Catch(stillRunning)
  PROVE  PoolInvariant'
<1> USE DEF PoolInvariant
<1>1. PICK s \in Slots :
        /\ s = micro[1].slot /\ ~Busy(s)
        /\ 1 \in DOMAIN micro /\ micro # <<>> /\ Head(micro) = micro[1] /\ micro[1] \in Continuation
  <2>1. micro # <<>> /\ micro \in Seq(Continuation) /\ Head(micro).task = "catch"
    BY DEF Catch, NextIs, PoolTypeOK
  <2>2. Head(micro) = micro[1] /\ 1 \in DOMAIN micro /\ micro[1] \in Continuation
    BY <2>1, Dropping
  <2> QED
    BY <2>1, <2>2 DEF Continuation, OneEndPerSlot, ReleaseHitsOwnSlot
<1>2. /\ ticking = FALSE /\ UNCHANGED <<running, child, ticking, stage>>
      /\ micro' = Tail(micro)
      /\ MarkSlotIdle(s) \/ UNCHANGED <<slot, asked, busy>>
  BY <1>1 DEF Catch, NextIs, PoolTypeOK, fairVars
<1>3. /\ micro' \in Seq(Continuation)
      /\ \A i \in DOMAIN micro' :
           i + 1 \in DOMAIN micro /\ i + 1 # 1 /\ i \in Nat /\ micro'[i] = micro[i + 1]
      /\ \A i \in DOMAIN micro : i # 1 => i - 1 \in DOMAIN micro' /\ micro'[i - 1] = micro[i]
  BY <1>1, <1>2, Dropping DEF PoolTypeOK
<1>4. /\ slot' \in [Slots -> Slot] /\ slot'[s].status \notin {"busy", "stopping"}
      /\ \A t \in Slots : t # s => slot'[t] = slot[t]
  <2>1. IdleSlot \in Slot
    BY DEF IdleSlot, Slot
  <2> QED
    BY <1>1, <1>2, <2>1 DEF MarkSlotIdle, PoolTypeOK, Busy, IdleSlot
<1>5. BusySlots' = BusySlots /\ s \notin BusySlots
  BY <1>1, <1>4 DEF BusySlots, Busy
<1>6. busy' = busy /\ asked' = asked
  BY <1>1, <1>2, <1>5 DEF MarkSlotIdle
<1>7. \A t \in BusySlots : t \in Slots /\ slot'[t] = slot[t]
  BY <1>4, <1>5, SlotTypes
<1>8. PoolTypeOK'
  BY <1>2, <1>3, <1>4, <1>6 DEF PoolTypeOK
<1>9. SlotsHoldLocks'
  BY <1>2, <1>5, <1>6, <1>7 DEF SlotsHoldLocks
<1>10. OneEndPerSlot'
  <2>1. ASSUME NEW i \in DOMAIN micro'
        PROVE  IF micro'[i].task = "catch"
                 THEN slot'[micro'[i].slot].status \notin {"busy", "stopping"}
                 ELSE /\ slot'[micro'[i].slot].status \in {"busy", "stopping"}
                      /\ slot'[micro'[i].slot].project = micro'[i].project
    <3>1. PICK j \in DOMAIN micro : micro'[i] = micro[j]
      BY <1>3
    <3>2. /\ micro[j].slot \in Slots
          /\ IF micro[j].task = "catch" THEN ~Busy(micro[j].slot)
             ELSE Busy(micro[j].slot) /\ slot[micro[j].slot].project = micro[j].project
      BY SlotTypes DEF OneEndPerSlot, ReleaseHitsOwnSlot, Continuation
    <3> QED
      BY <1>1, <1>4, <3>1, <3>2 DEF Busy
  <2>2. ReleaseHitsOwnSlot'
    BY <2>1 DEF ReleaseHitsOwnSlot, Busy
  <2>3. ASSUME NEW i \in DOMAIN micro', NEW j \in DOMAIN micro', micro'[i].slot = micro'[j].slot,
               micro'[i].task # "catch", micro'[j].task # "catch"
        PROVE  i = j
    <3>1. /\ i + 1 \in DOMAIN micro /\ micro'[i] = micro[i + 1] /\ i \in Nat
          /\ j + 1 \in DOMAIN micro /\ micro'[j] = micro[j + 1] /\ j \in Nat
      BY <1>3
    <3>2. i + 1 = j + 1
      BY <2>3, <3>1 DEF OneEndPerSlot
    <3> QED
      BY <3>1, <3>2
  <2> QED
    BY <1>2, <2>2, <2>3 DEF OneEndPerSlot
<1>11. HandleIsOwn'
  <2> SUFFICES ASSUME NEW c \in Children, child'[c].awaited
               PROVE  /\ child'[c].running
                      /\ child'[c].of \in BusySlots'
                      /\ slot'[child'[c].of].child = c
                      /\ \A i \in DOMAIN micro' : micro'[i].slot # child'[c].of
    BY DEF HandleIsOwn
  <2>1. /\ child[c].running /\ child[c].of \in BusySlots /\ slot[child[c].of].child = c
        /\ \A i \in DOMAIN micro : micro[i].slot # child[c].of
    BY <1>2 DEF HandleIsOwn
  <2> QED
    BY <1>2, <1>3, <1>5, <1>7, <2>1
<1>12. EndsToCome'
  <2> SUFFICES ASSUME stage' # "ended", NEW t \in BusySlots'
               PROVE  \/ \E i \in DOMAIN micro' : micro'[i].slot = t
                      \/ \E c \in Children : child'[c].awaited /\ child'[c].of = t
    BY DEF EndsToCome
  <2>1. t \in BusySlots /\ t # s /\ stage # "ended" /\ child' = child
    BY <1>2, <1>5
  <2>2. ASSUME NEW i \in DOMAIN micro, micro[i].slot = t
        PROVE  i - 1 \in DOMAIN micro' /\ micro'[i - 1].slot = t
    BY <1>1, <1>3, <2>1, <2>2
  <2> QED
    BY <2>1, <2>2 DEF EndsToCome
<1>13. asked' \subseteq BusySlots' /\ TerminateSignals'
  BY <1>2, <1>5, <1>6 DEF TerminateSignals, Own
<1> QED
  BY <1>8, <1>9, <1>10, <1>11, <1>12, <1>13

LEMMA CloseStep ==
  ASSUME PoolInvariant, NEW c \in Children, ChildCloses(c)
  PROVE  PoolInvariant'
<1> USE DEF PoolInvariant
<1>1. /\ micro = <<>> /\ ticking = FALSE
      /\ UNCHANGED <<running, asked, busy, ticking, stage>>
      /\ child' = [child EXCEPT ![c] = NoChild]
  BY DEF ChildCloses, Close, Quiet, fairVars, PoolTypeOK
<1>2. /\ child' \in [Children -> Child] /\ ~child'[c].awaited
      /\ \A d \in Children : d # c => child'[d] = child[d]
  <2>1. NoChild \in Child /\ ~NoChild.awaited
    BY DEF NoChild, Spawned, Child
  <2> QED
    BY <1>1, <2>1 DEF PoolTypeOK
<1>3. CASE ~child[c].awaited
  <2>1. UNCHANGED <<slot, micro>> /\ BusySlots' = BusySlots
    BY <1>3 DEF ChildCloses, BusySlots, Busy
  <2>2. PoolTypeOK' /\ SlotsHoldLocks' /\ OneEndPerSlot'
    BY <1>1, <1>2, <2>1 DEF PoolTypeOK, SlotsHoldLocks, OneEndPerSlot, ReleaseHitsOwnSlot, Busy
  <2>3. \A d \in Children : \/ d # c /\ child'[d] = child[d]
                            \/ d = c /\ ~child'[d].awaited /\ ~child[d].awaited
    BY <1>2, <1>3
  <2>4. HandleIsOwn'
    BY <1>1, <2>1, <2>3 DEF HandleIsOwn
  <2>5. EndsToCome'
    BY <1>1, <2>1, <2>3 DEF EndsToCome
  <2>6. asked' \subseteq BusySlots' /\ TerminateSignals'
    BY <1>1, <2>1, <2>3 DEF TerminateSignals, Own
  <2> QED
    BY <2>2, <2>4, <2>5, <2>6
<1>4. ASSUME child[c].awaited PROVE PoolInvariant'
  <2>1. PICK s \in Slots : /\ s = child[c].of /\ s \in BusySlots /\ slot[s].child = c
                           /\ slot[s] \in Slot /\ slot[s].project \in Projects
    <3>1. child[c].of \in BusySlots /\ slot[child[c].of].child = c
      BY <1>4 DEF HandleIsOwn
    <3> QED
      BY <3>1, SlotTypes DEF SlotsHoldLocks, PoolTypeOK
  <2> DEFINE e == [task |-> "settle", slot |-> s, project |-> slot[s].project]
  <2>2. e \in Continuation /\ e.task = "settle" /\ e.slot = s /\ e.project = slot[s].project
    BY <2>1 DEF Continuation
  <2>3. slot' = [slot EXCEPT ![s].child = None] /\ micro' = Append(<<>>, e)
    BY <1>1, <1>4, <2>1 DEF ChildCloses
  <2> HIDE DEF e
  <2>4. micro' \in Seq(Continuation) /\ DOMAIN micro' = {1} /\ micro'[1] = e
    BY <2>2, <2>3
  <2>5. /\ slot' \in [Slots -> Slot]
        /\ \A t \in Slots : /\ slot'[t].status = slot[t].status
                            /\ slot'[t].project = slot[t].project
                            /\ t # s => slot'[t].child = slot[t].child
    <3>1. /\ slot'[s] = [slot[s] EXCEPT !.child = None] /\ slot[s] \in Slot
          /\ \A t \in Slots : t # s => slot'[t] = slot[t]
      BY <2>1, <2>3 DEF PoolTypeOK
    <3>2. /\ slot'[s] \in Slot /\ slot'[s].status = slot[s].status
          /\ slot'[s].project = slot[s].project
      BY <3>1 DEF Slot
    <3> QED
      BY <2>3, <3>1, <3>2 DEF PoolTypeOK
  <2>6. BusySlots' = BusySlots
    BY <2>5 DEF BusySlots, Busy
  <2>7. PoolTypeOK'
    BY <1>1, <1>2, <2>4, <2>5 DEF PoolTypeOK
  <2>8. SlotsHoldLocks'
    BY <1>1, <2>5, <2>6, SlotTypes DEF SlotsHoldLocks
  <2>9. OneEndPerSlot'
    <3>1. slot'[s].status \in {"busy", "stopping"}
      BY <2>1, <2>5 DEF BusySlots, Busy
    <3>2. ReleaseHitsOwnSlot'
      BY <2>2, <2>4, <2>5, <3>1 DEF ReleaseHitsOwnSlot, Busy
    <3> QED
      BY <1>1, <2>4, <3>2 DEF OneEndPerSlot
  <2>10. HandleIsOwn'
    <3> SUFFICES ASSUME NEW d \in Children, child'[d].awaited
                 PROVE  /\ child'[d].running
                        /\ child'[d].of \in BusySlots'
                        /\ slot'[child'[d].of].child = d
                        /\ \A i \in DOMAIN micro' : micro'[i].slot # child'[d].of
      BY DEF HandleIsOwn
    <3>1. d # c /\ child'[d] = child[d]
      BY <1>2
    <3>2. child[d].running /\ child[d].of \in BusySlots /\ slot[child[d].of].child = d
      BY <3>1 DEF HandleIsOwn
    <3>3. child[d].of # s /\ child[d].of \in Slots
      BY <2>1, <3>1, <3>2, SlotTypes
    <3> QED
      BY <2>2, <2>4, <2>5, <2>6, <3>1, <3>2, <3>3
  <2>11. EndsToCome'
    <3> SUFFICES ASSUME stage' # "ended", NEW t \in BusySlots', t # s
                 PROVE  \E d \in Children : child'[d].awaited /\ child'[d].of = t
      BY <2>2, <2>4 DEF EndsToCome
    <3>1. PICK d \in Children : child[d].awaited /\ child[d].of = t
      BY <1>1, <2>6 DEF EndsToCome
    <3> QED
      BY <1>2, <2>1, <3>1
  <2>12. asked' \subseteq BusySlots' /\ TerminateSignals'
    BY <1>1, <1>2, <2>6 DEF TerminateSignals, Own
  <2> QED
    BY <2>7, <2>8, <2>9, <2>10, <2>11, <2>12
<1> QED
  BY <1>3, <1>4

LEMMA PoolStep ==
  ASSUME PoolInvariant, [PoolNext]_vars
  PROVE  PoolInvariant'
<1>1. CASE ClaimSlot
  BY <1>1, ClaimStep
<1>2. CASE EndTick \/ Exit \/ Die \/ QueueChanges
  BY <1>2, QuietSteps
<1>3. ASSUME NEW throws \in BOOLEAN, Settle(throws) PROVE PoolInvariant'
  BY <1>3, SettleStep
<1>4. ASSUME NEW stillRunning \in BOOLEAN, Catch(stillRunning) PROVE PoolInvariant'
  BY <1>4, CatchStep
<1>5. ASSUME NEW c \in Children, ChildCloses(c) PROVE PoolInvariant'
  BY <1>5, CloseStep
<1>6. CASE RequestShutdown \/ (\E c \in Children : KillTimer(c)) \/ (\E s \in Slots : Terminate(s))
  BY <1>6, SignalSteps
<1>7. CASE UNCHANGED vars
  <2> USE <1>7 DEF vars, fairVars, poolVars, PoolInvariant
  <2>1. PoolTypeOK' /\ SlotsHoldLocks' /\ OneEndPerSlot'
    BY DEF PoolTypeOK, SlotsHoldLocks, OneEndPerSlot, ReleaseHitsOwnSlot, BusySlots, Busy
  <2>2. HandleIsOwn' /\ EndsToCome' /\ asked' \subseteq BusySlots' /\ TerminateSignals'
    BY DEF HandleIsOwn, EndsToCome, TerminateSignals, Own, BusySlots, Busy
  <2> QED
    BY <2>1, <2>2
<1> QED
  BY <1>1, <1>2, <1>3, <1>4, <1>5, <1>6, <1>7 DEF PoolNext, Running

(* Slots, locks, counters, children and continuations agree between any    *)
(* two callbacks of worker-pool.js and setup-bossd.js, with any number of  *)
(* projects, slots and children.                                           *)
THEOREM PoolInvariantHolds == PoolSpec => []PoolInvariant
<1>1. PoolInit => PoolInvariant
  BY PoolStart
<1>2. PoolInvariant /\ [PoolNext]_vars => PoolInvariant'
  BY PoolStep
<1> QED
  BY <1>1, <1>2, PTL DEF PoolSpec

-----------------------------------------------------------------------------
(* What it is for.                                                         *)

(* The second markSlotIdle of runWorkerJob frees nobody's slot, and a      *)
(* cancellation reaches the child of the execution that it is for.         *)
THEOREM ExecutionsAreNotMixedUp == PoolSpec => []ExecutionsKeepTheirOwn
<1>1. PoolInvariant => ExecutionsKeepTheirOwn
  BY DEF PoolInvariant, OneEndPerSlot, ExecutionsKeepTheirOwn
<1> QED
  BY <1>1, PoolInvariantHolds, PTL

(* A shutdown waits for busy slots only, and each of them is going to be   *)
(* given back: by one child, or by a continuation that is queued.          *)
THEOREM EverySlotHasItsEnd == PoolSpec => []BusySlotEnds
<1>1. ASSUME PoolInvariant, stage # "ended", NEW s \in BusySlots
      PROVE  IF \E i \in DOMAIN micro : micro[i].slot = s
               THEN Own(s) = {} ELSE Cardinality(Own(s)) = 1
  <2>1. CASE \E i \in DOMAIN micro : micro[i].slot = s
    BY <1>1, <2>1 DEF PoolInvariant, HandleIsOwn, Own
  <2>2. ASSUME ~ \E i \in DOMAIN micro : micro[i].slot = s
        PROVE  Cardinality(Own(s)) = 1
    <3>1. PICK c \in Children : child[c].awaited /\ child[c].of = s
      BY <1>1, <2>2 DEF PoolInvariant, EndsToCome
    <3>2. \A d \in Own(s) : slot[s].child = d
      BY <1>1 DEF PoolInvariant, HandleIsOwn, Own
    <3>3. Own(s) = {c}
      BY <3>1, <3>2 DEF Own
    <3> QED
      BY <3>3, FS_Singleton
  <2> QED
    BY <2>1, <2>2
<1>2. PoolInvariant => BusySlotEnds
  BY <1>1 DEF BusySlotEnds
<1> QED
  BY <1>2, PoolInvariantHolds, PTL

(* projectBusyCounts is the number of busy slots of each project: it never *)
(* leaks a slot of MAX_WORKERS.                                            *)
THEOREM CountersAgree == PoolSpec => []CountsMatchSlots
<1>1. ASSUME PoolInvariant, NEW p \in Projects
      PROVE  /\ busy[p] = IF p \in running THEN 1 ELSE 0
             /\ busy[p] = Cardinality({s \in BusySlots : slot[s].project = p})
  <2> DEFINE Its == {s \in BusySlots : slot[s].project = p}
  <2>1. busy[p] = IF p \in running THEN 1 ELSE 0
    BY <1>1 DEF PoolInvariant, SlotsHoldLocks
  <2>2. CASE p \in running
    <3>1. PICK s \in BusySlots : slot[s].project = p
      BY <1>1, <2>2 DEF PoolInvariant, SlotsHoldLocks
    <3>2. Its = {s}
      BY <1>1, <3>1 DEF PoolInvariant, SlotsHoldLocks
    <3> QED
      BY <2>1, <2>2, <3>2, FS_Singleton
  <2>3. CASE p \notin running
    <3>1. Its = {}
      BY <1>1, <2>3 DEF PoolInvariant, SlotsHoldLocks
    <3> QED
      BY <2>1, <2>3, <3>1, FS_EmptySet
  <2> QED
    BY <2>2, <2>3
<1>2. PoolInvariant => CountsMatchSlots
  BY <1>1 DEF CountsMatchSlots
<1> QED
  BY <1>2, PoolInvariantHolds, PTL
=============================================================================
