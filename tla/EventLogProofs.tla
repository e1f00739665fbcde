---------------------------- MODULE EventLogProofs ----------------------------
(***************************************************************************)
(* The event log, with any number of processes, any limits and any kills.  *)
(***************************************************************************)
EXTENDS EventLog, SequenceTheorems, TLAPS

-----------------------------------------------------------------------------
(* Sequences of lines.                                                     *)

(* tail is what is left of lines without the first `drop' ones.            *)
Suffix(tail, lines, drop) ==
  /\ Len(lines) \in Nat /\ DOMAIN lines = 1..Len(lines)
  /\ drop \in 0..Len(lines)
  /\ tail \in Seq(Nat)
  /\ Len(tail) = Len(lines) - drop /\ DOMAIN tail = 1..(Len(lines) - drop)
  /\ \A i \in DOMAIN tail : tail[i] = lines[drop + i] /\ drop + i \in DOMAIN lines

LEMMA SubSeqIsSuffix ==
  ASSUME NEW lines \in Seq(Nat), NEW drop \in 0..Len(lines)
  PROVE  Suffix(SubSeq(lines, drop + 1, Len(lines)), lines, drop)
<1> DEFINE tail == SubSeq(lines, drop + 1, Len(lines))
           size == Len(lines)
           first == drop + 1
<1>1. size \in Nat /\ DOMAIN lines = 1..size /\ drop \in 0..size /\ first \in Nat /\ first - 1 = drop
  BY LenProperties
<1>2. \A i \in first..size : lines[i] \in Nat
  <2> SUFFICES ASSUME NEW i \in first..size PROVE lines[i] \in Nat
    OBVIOUS
  <2>1. i \in 1..size
    BY <1>1
  <2> QED
    BY <2>1, ElementOfSeq
<1>3. size \in Int /\ first \in Int
  BY <1>1
<1>4. /\ tail \in Seq(Nat)
      /\ Len(tail) = IF first <= size THEN size - first + 1 ELSE 0
      /\ \A i \in 1..(size - first + 1) : tail[i] = lines[first + i - 1]
  <2>1. tail = SubSeq(lines, first, size)
    OBVIOUS
  <2> HIDE DEF tail, first, size
  <2> QED
    BY <1>2, <1>3, <2>1, SubSeqProperties
<1>5. DOMAIN tail = 1..Len(tail)
  BY <1>4, LenProperties
<1> HIDE DEF tail, first
<1>6. Len(tail) = size - drop
  <2> HIDE DEF size
  <2>1. CASE drop = size
    BY <1>1, <1>4, <2>1
  <2>2. CASE drop < size
    BY <1>1, <1>4, <2>2
  <2> QED
    BY <1>1, <2>1, <2>2
<1>7. ASSUME NEW i \in 1..(size - drop) PROVE tail[i] = lines[drop + i] /\ drop + i \in 1..size
  <2> HIDE DEF size
  <2>1. i \in 1..(size - first + 1) /\ first + i - 1 = drop + i
    BY <1>1, <1>7
  <2> QED
    BY <1>1, <1>4, <2>1
<1> QED
  BY <1>1, <1>4, <1>5, <1>6, <1>7 DEF Suffix, tail

LEMMA LastLinesOf ==
  ASSUME NEW lines \in Seq(Nat), NEW n \in Nat
  PROVE  \E drop \in Nat : /\ Suffix(LastLines(lines, n), lines, drop)
                           /\ drop = 0 \/ Len(lines) - drop = n
<1>1. Len(lines) \in Nat
  BY LenProperties
<1>2. CASE Len(lines) > n
  <2>1. Len(lines) - n \in 0..Len(lines) /\ Len(lines) - (Len(lines) - n) = n
    BY <1>1, <1>2
  <2>2. Suffix(SubSeq(lines, (Len(lines) - n) + 1, Len(lines)), lines, Len(lines) - n)
    BY <2>1, SubSeqIsSuffix
  <2>3. LastLines(lines, n) = SubSeq(lines, (Len(lines) - n) + 1, Len(lines))
    BY <1>2 DEF LastLines
  <2> QED
    BY <2>1, <2>2, <2>3
<1>3. CASE ~(Len(lines) > n)
  <2>1. 0 \in 0..Len(lines) /\ 0 + 1 = 1
    BY <1>1
  <2> QED
    BY <1>1, <1>3, <2>1, SubSeqIsSuffix DEF LastLines
<1> QED
  BY <1>2, <1>3

(* The last lines are in order, and what they leave out is far behind.     *)
LEMMA TailKept ==
  ASSUME NEW lines \in Seq(Nat), NEW n \in {KeepLines, PruneLines},
         NEW last \in Nat, NEW lost, Accounts(lines, last, lost)
  PROVE  LastLines(lines, n) \in Seq(Nat) /\ Accounts(LastLines(lines, n), last, lost)
<1> DEFINE tail == LastLines(lines, n)
           size == Len(lines)
<1>0. n \in Nat \ {0}
  BY EventLogAssumption
<1>1. PICK drop \in Nat : Suffix(tail, lines, drop) /\ (drop = 0 \/ size - drop = n)
  BY <1>0, LastLinesOf
<1> HIDE DEF tail, size
<1>2. /\ size \in Nat /\ DOMAIN lines = 1..size /\ drop \in 0..size
      /\ tail \in Seq(Nat) /\ DOMAIN tail = 1..(size - drop)
      /\ \A i \in DOMAIN tail : tail[i] = lines[drop + i] /\ drop + i \in DOMAIN lines
  BY <1>1 DEF Suffix, size
<1>3. InOrder(tail, last)
  <2>1. \A i \in DOMAIN tail : tail[i] \in 1..last
    BY <1>2 DEF Accounts, InOrder
  <2>2. ASSUME NEW i \in 1..(size - drop), NEW j \in 1..(size - drop), i < j
        PROVE  j - i <= tail[j] - tail[i]
    <3>1. drop + i < drop + j /\ (drop + j) - (drop + i) = j - i
      BY <2>2
    <3>2. (drop + j) - (drop + i) <= lines[drop + j] - lines[drop + i]
      BY <1>2, <3>1 DEF Accounts, InOrder
    <3>3. tail[i] = lines[drop + i] /\ tail[j] = lines[drop + j]
      BY <1>2
    <3> QED
      BY <3>1, <3>2, <3>3
  <2> QED
    BY <1>2, <2>1, <2>2 DEF InOrder
<1>4. ASSUME NEW event \in 1..last, event \notin ToSet(tail), event \in ToSet(lines)
      PROVE  last - event >= n
  <2>1. PICK i \in 1..size : lines[i] = event
    BY <1>2, <1>4 DEF ToSet
  <2>2. i <= drop
    <3>1. CASE i > drop
      <4>1. i - drop \in DOMAIN tail /\ drop + (i - drop) = i
        BY <1>2, <2>1, <3>1
      <4>2. tail[i - drop] = event
        BY <1>2, <2>1, <4>1
      <4> QED
        BY <1>4, <4>1, <4>2 DEF ToSet
    <3> QED
      BY <1>2, <2>1, <3>1
  <2>3. i < size /\ size - i >= n /\ size \in DOMAIN lines /\ i \in DOMAIN lines
    BY <1>0, <1>1, <1>2, <2>1, <2>2
  <2>4. size - i <= lines[size] - lines[i] /\ lines[size] \in 1..last
    BY <2>3 DEF Accounts, InOrder
  <2> QED
    BY <1>0, <1>2, <2>1, <2>3, <2>4
<1>5. Explains(tail, last, lost)
  BY <1>0, <1>4 DEF Accounts, Explains
<1> QED
  BY <1>2, <1>3, <1>5 DEF tail, Accounts

-----------------------------------------------------------------------------
(* Pages.                                                                  *)

LEMMA AfterAhead ==
  ASSUME LogInvariant
  PROVE  /\ After(cursor) \in Seq(Nat)
         /\ \A i \in DOMAIN After(cursor) : After(cursor)[i] > cursor
<1> USE DEF LogInvariant, LogTypeOK
<1>0. Len(file) \in Nat /\ DOMAIN file = 1..Len(file)
  BY LenProperties
<1>1. CASE cursor = 0
  BY <1>0, <1>1 DEF After, Accounts, InOrder
<1>2. CASE cursor # 0 /\ cursor \in ToSet(file)
  <2> DEFINE here == CHOOSE i \in DOMAIN file : file[i] = cursor
             rest == SubSeq(file, here + 1, Len(file))
  <2>1. here \in 1..Len(file) /\ file[here] = cursor
    BY <1>0, <1>2 DEF ToSet
  <2>2. After(cursor) = rest
    BY <1>2 DEF After
  <2> HIDE DEF here
  <2>3. Suffix(rest, file, here)
    BY <1>0, <2>1, SubSeqIsSuffix
  <2> HIDE DEF rest
  <2>4. ASSUME NEW i \in DOMAIN rest PROVE rest[i] > cursor
    <3>1. /\ rest[i] = file[here + i] /\ here + i \in DOMAIN file
          /\ DOMAIN rest = 1..(Len(file) - here)
      BY <2>3, <2>4 DEF Suffix
    <3>2. i \in Nat /\ i > 0 /\ here \in DOMAIN file
      BY <1>0, <2>1, <3>1
    <3>4. here < here + i /\ (here + i) - here = i
      BY <2>1, <3>2
    <3>3. (here + i) - here <= file[here + i] - file[here] /\ file[here + i] \in Nat
      BY <1>0, <3>1, <3>2, <3>4, ElementOfSeq DEF Accounts, InOrder
    <3> QED
      BY <2>1, <3>1, <3>2, <3>3, <3>4
  <2> QED
    BY <2>2, <2>3, <2>4 DEF Suffix
<1>3. CASE cursor # 0 /\ cursor \notin ToSet(file)
  <2>1. After(cursor) = <<>>
    BY <1>3 DEF After
  <2> QED
    BY <2>1, EmptySeq
<1> QED
  BY <1>1, <1>2, <1>3

LEMMA PageAhead ==
  ASSUME LogInvariant
  PROVE  Page \in Seq(Nat) /\ \A i \in DOMAIN Page : Page[i] > cursor
<1>1. PICK drop \in Nat : Suffix(Page, After(cursor), drop)
  BY AfterAhead, LastLinesOf, EventLogAssumption DEF Page
<1> QED
  BY <1>1, AfterAhead DEF Suffix

-----------------------------------------------------------------------------
(* Every step keeps what the log and the copies say.                       *)

LEMMA LogInit == Init => LogInvariant
<1> SUFFICES ASSUME Init PROVE LogInvariant
  OBVIOUS
<1>1. LogTypeOK
  BY EmptySeq DEF Init, LogTypeOK, Points
<1>2. Accounts(file, written, raced)
  BY EmptySeq DEF Init, Accounts, InOrder, Explains
<1> QED
  BY <1>1, <1>2 DEF Init, LogInvariant, PuttingBack

(* One more event, which the lines need not have if it is lost.            *)
LEMMA OneMoreEvent ==
  ASSUME NEW lines, NEW last \in Nat, NEW lost, NEW raceLost,
         lost \subseteq raceLost, last + 1 \in raceLost, Accounts(lines, last, lost)
  PROVE  Accounts(lines, last + 1, raceLost)
<1>1. InOrder(lines, last + 1)
  BY DEF Accounts, InOrder
<1>2. ASSUME NEW event \in 1..(last + 1)
      PROVE  \/ event \in ToSet(lines) \/ event \in raceLost
             \/ last + 1 - event >= KeepLines \/ last + 1 - event >= PruneLines
  <2>1. CASE event = last + 1
    BY <2>1
  <2>2. CASE event # last + 1
    <3>1. event \in 1..last /\ \A k \in Nat : last - event >= k => last + 1 - event >= k
      BY <1>2, <2>2
    <3> QED
      BY <3>1, EventLogAssumption DEF Accounts, Explains
  <2> QED
    BY <2>1, <2>2
<1> QED
  BY <1>1, <1>2 DEF Accounts, Explains

LEMMA OneMoreLine ==
  ASSUME NEW lines \in Seq(Nat), NEW last \in Nat, NEW lost, NEW raceLost,
         lost \subseteq raceLost, Accounts(lines, last, lost)
  PROVE  Accounts(Append(lines, last + 1), last + 1, raceLost)
<1> DEFINE size == Len(lines)
           longer == Append(lines, last + 1)
<1>1. /\ size \in Nat /\ DOMAIN lines = 1..size
      /\ DOMAIN longer = 1..(size + 1)
      /\ \A i \in 1..size : longer[i] = lines[i]
      /\ longer[size + 1] = last + 1
  <2>1. last + 1 \in Nat
    OBVIOUS
  <2>2. /\ longer \in Seq(Nat) /\ Len(longer) = size + 1
        /\ \A i \in 1..size : longer[i] = lines[i]
        /\ longer[size + 1] = last + 1
    BY <2>1, AppendProperties
  <2>3. size \in Nat /\ DOMAIN lines = 1..size
    BY LenProperties, Zenon
  <2>4. DOMAIN longer = 1..(size + 1)
    BY <2>2, LenProperties, Zenon
  <2> QED
    BY <2>2, <2>3, <2>4
<1>2. /\ \A i \in 1..size : lines[i] \in 1..last
      /\ \A i, j \in 1..size : i < j => j - i <= lines[j] - lines[i]
  BY <1>1 DEF Accounts, InOrder
<1> HIDE DEF size, longer
<1>3. ASSUME NEW i \in 1..(size + 1) PROVE longer[i] \in 1..(last + 1)
  BY SMTT(40), <1>1, <1>2
<1>4. ASSUME NEW i \in 1..(size + 1), NEW j \in 1..(size + 1), i < j
      PROVE  j - i <= longer[j] - longer[i]
  <2>1. i \in 1..size /\ longer[i] = lines[i] /\ lines[i] \in 1..last
    BY <1>1, <1>2, <1>4
  <2>2. CASE j = size + 1 /\ i = size
    BY <1>1, <2>1, <2>2
  <2>3. CASE j = size + 1 /\ i # size
    <3>1. size \in 1..size /\ i < size
      BY <1>1, <2>1, <2>3
    <3>2. size - i <= lines[size] - lines[i] /\ lines[size] \in 1..last
      BY <1>2, <2>1, <3>1
    <3> QED
      BY <1>1, <2>1, <2>3, <3>2
  <2>4. CASE j # size + 1
    <3>1. j \in 1..size
      BY <1>1, <2>4
    <3> QED
      BY <1>1, <1>2, <1>4, <2>1, <3>1
  <2> QED
    BY <2>2, <2>3, <2>4
<1>5. ASSUME NEW event \in 1..(last + 1)
      PROVE  \/ event \in ToSet(longer) \/ event \in raceLost
             \/ last + 1 - event >= KeepLines \/ last + 1 - event >= PruneLines
  <2>1. CASE event = last + 1
    BY <1>1, <2>1 DEF ToSet
  <2>2. CASE event # last + 1
    <3>1. event \in 1..last /\ \A k \in Nat : last - event >= k => last + 1 - event >= k
      BY <1>5, <2>2
    <3>2. event \in ToSet(lines) => event \in ToSet(longer)
      BY <1>1 DEF ToSet
    <3> QED
      BY <3>1, <3>2, EventLogAssumption DEF Accounts, Explains
  <2> QED
    BY <2>1, <2>2
<1>6. InOrder(longer, last + 1)
  BY <1>1, <1>3, <1>4 DEF InOrder
<1>7. Explains(longer, last + 1, raceLost)
  BY <1>5 DEF Explains
<1> QED
  BY <1>6, <1>7 DEF Accounts, longer

(* A step that writes no event and starts no copy.                         *)
LEMMA NothingWritten ==
  ASSUME LogInvariant, LogTypeOK', UNCHANGED <<written, raced>>,
         \/ file' = file
         \/ \E p \in Processes : PuttingBack(p) /\ file' = copy[p],
         \A p \in Processes : PuttingBack(p)' => PuttingBack(p) /\ copy'[p] = copy[p]
  PROVE  LogInvariant'
BY DEF LogInvariant

LEMMA WriteStep ==
  ASSUME LogInvariant, NEW p \in Processes, Write(p)
  PROVE  LogInvariant'
<1> USE DEF LogInvariant
<1>1. written \in Nat /\ written' = written + 1
  BY DEF Write, LogTypeOK
<1>2. raced \subseteq raced'
  BY DEF Write
<1>3. LogTypeOK'
  BY <1>1 DEF Write, LogTypeOK, Points
<1>4. Accounts(file, written, raced)'
  <2>1. CASE at[p] = "open"
    BY <1>1, <1>2, <2>1, OneMoreLine DEF Write, LogTypeOK
  <2>2. CASE at[p] # "open"
    BY <1>1, <1>2, <2>2, OneMoreEvent DEF Write
  <2> QED
    BY <2>1, <2>2
<1>5. ASSUME NEW q \in Processes, PuttingBack(q)'
      PROVE  Accounts(copy[q], written, raced)'
  <2>1. q # p /\ PuttingBack(q) /\ copy' = copy
    BY <1>5 DEF Write, PuttingBack, LogTypeOK
  <2>2. written' \in raced'
    BY <1>1, <2>1 DEF Write
  <2> QED
    BY <1>1, <1>2, <2>1, <2>2, OneMoreEvent
<1> QED
  BY <1>3, <1>4, <1>5

LEMMA ReadTailStep ==
  ASSUME LogInvariant, NEW p \in Processes, ReadTail(p)
  PROVE  LogInvariant'
<1> USE DEF LogInvariant
<1>1. PICK n \in {KeepLines, PruneLines} : TailOf(p) = LastLines(file, n)
  BY DEF TailOf
<1>2. TailOf(p) \in Seq(Nat) /\ Accounts(TailOf(p), written, raced)
  BY <1>1, TailKept DEF LogTypeOK
<1>3. LogTypeOK'
  BY <1>2 DEF ReadTail, LogTypeOK, Points
<1>4. ASSUME NEW q \in Processes, PuttingBack(q)'
      PROVE  Accounts(copy'[q], written, raced)
  BY <1>2, <1>4 DEF ReadTail, PuttingBack, LogTypeOK
<1> QED
  BY <1>3, <1>4 DEF ReadTail

LEMMA LogStep ==
  ASSUME LogInvariant, [Next]_logVars
  PROVE  LogInvariant'
<1>1. ASSUME NEW p \in Processes,
             \/ Open(p) \/ WriteFails(p) \/ CheckSize(p) \/ \E force \in BOOLEAN : Prune(p, force)
             \/ SaveTail(p) \/ Crash(p)
      PROVE  LogInvariant'
  <2>1. LogTypeOK'
    BY <1>1, EmptySeq DEF LogInvariant, LogTypeOK, Points, Open, WriteFails, CheckSize, Prune,
                          SaveTail, Crash
  <2>2. UNCHANGED <<file, written, raced>>
    BY <1>1 DEF Open, WriteFails, CheckSize, Prune, SaveTail, Crash
  <2>3. \A q \in Processes : PuttingBack(q)' => PuttingBack(q) /\ copy'[q] = copy[q]
    BY <1>1 DEF LogInvariant, LogTypeOK, PuttingBack, Open, WriteFails, CheckSize, Prune,
                SaveTail, Crash
  <2> QED
    BY <2>1, <2>2, <2>3, NothingWritten
<1>2. ASSUME NEW p \in Processes, ReplaceLog(p)
      PROVE  LogInvariant'
  <2>1. LogTypeOK'
    BY <1>2, EmptySeq DEF LogInvariant, LogTypeOK, Points, ReplaceLog
  <2>2. PuttingBack(p) /\ file' = copy[p] /\ UNCHANGED <<written, raced>>
    BY <1>2 DEF ReplaceLog, PuttingBack
  <2>3. \A q \in Processes : PuttingBack(q)' => PuttingBack(q) /\ copy'[q] = copy[q]
    BY <1>2 DEF LogInvariant, LogTypeOK, PuttingBack, ReplaceLog
  <2> QED
    BY <2>1, <2>2, <2>3, NothingWritten
<1>3. CASE Follow
  <2>1. cursor' \in Nat
    <3>1. Page \in Seq(Nat)
      BY PageAhead
    <3>2. Len(Page) \in 1..Len(Page)
      BY <1>3, <3>1, EmptySeq DEF Follow
    <3>3. Last(Page) \in Nat
      BY <3>1, <3>2, ElementOfSeq DEF Last
    <3> QED
      BY <1>3, <3>3 DEF Follow
  <2>2. LogTypeOK'
    BY <1>3, <2>1 DEF LogInvariant, LogTypeOK, Follow
  <2> QED
    BY <1>3, <2>2, NothingWritten DEF Follow, PuttingBack
<1>4. CASE UNCHANGED logVars
  BY <1>4, NothingWritten DEF logVars, PuttingBack, LogInvariant, LogTypeOK
<1> QED
  BY <1>1, <1>2, <1>3, <1>4, WriteStep, ReadTailStep DEF Next

-----------------------------------------------------------------------------
(* Theorem.  What the log and the copies of those who rotate or prune it   *)
(* say, over any interleaving of them and any kills.                       *)
THEOREM LogInvariantHolds == Spec => []LogInvariant
  BY LogInit, LogStep, PTL DEF Spec

(* Theorem.  An event is only missing from the log because somebody put    *)
(* lines back while it was written, or because as many newer ones exist as *)
(* a rotation or a pruning keeps.                                          *)
THEOREM LossesAreExplained == Spec => []LossIsExplained
<1>1. LogInvariant => LossIsExplained
  BY DEF LogInvariant, Accounts, Explains, LossIsExplained
<1> QED
  BY <1>1, LogInvariantHolds, PTL

(* Theorem.  No page shows a follower an event it saw, or an older one.    *)
THEOREM FollowersAdvance == Spec => []PagesAdvance
<1>1. LogInvariant => PagesAdvance
  BY PageAhead DEF PagesAdvance
<1> QED
  BY <1>1, LogInvariantHolds, PTL

=============================================================================
