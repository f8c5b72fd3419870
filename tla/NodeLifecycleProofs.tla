-------------------------- MODULE NodeLifecycleProofs --------------------------
(***************************************************************************)
(* Proofs about NodeLifecycle for every number of rounds and signals and   *)
(* every flush threshold: the inductive invariant LifecycleInv, and from   *)
(* it what the lifecycle run checks of the metrics buffer and its file.    *)
(***************************************************************************)
EXTENDS NodeLifecycle, SequenceTheorems, TLAPS

Depths == 1 .. Len(handlers)

(* The pcs at which a frame is inside the lock of NodeMetrics.             *)
LoopInMetrics == {"append", "write", "clear", "unlock"}
StopInMetrics == {"write", "clear", "unlock"}

(* Whoever is inside the lock of the metrics holds it: no two frames of    *)
(* the main thread are, although a handler runs on top of the others.      *)
MetricsHeld ==
  /\ loop \in LoopInMetrics => lock["metrics"] = 1
  /\ \A i \in Depths : handlers[i] \in StopInMetrics => lock["metrics"] = i + 1

(* Some frame has written the buffer and not yet cleared it.               *)
Written == loop = "clear" \/ \E i \in Depths : handlers[i] = "clear"

(* The last round that may have been recorded.                             *)
BeforeRecord == {"work", "peers", "evaluate", "count", "record", "append"}
Recorded == IF loop \in BeforeRecord THEN round - 1 ELSE round

Increasing(s) == \A m, n \in 1 .. Len(s) : m < n => s[m] < s[n]
AtMost(s, b)  == \A n \in 1 .. Len(s) : s[n] <= b
Precedes(s, t) == \A m \in 1 .. Len(s), n \in 1 .. Len(t) : s[m] < t[n]

(* File and buffer are in order, also one after the other, except while a  *)
(* written buffer has not been cleared.                                    *)
RecordsInOrder ==
  /\ Increasing(file) /\ Increasing(buffer)
  /\ AtMost(file, Recorded) /\ AtMost(buffer, Recorded)
  /\ ~Written => Precedes(file, buffer)

(* A written buffer is in the file, up to what the write has lost.         *)
WrittenAccounted == Written => Elements(buffer) \subseteq Elements(file) \cup lost

(* The threshold is tested by each append, under the lock.                 *)
BufferShort == loop \notin {"write", "clear"} => Len(buffer) < FlushEvery

Counts ==
  /\ Len(handlers) <= signals
  /\ loop \in BeforeRecord => round > 0

LifecycleInv ==
  /\ TypeOK /\ Counts /\ BufferShort
  /\ MetricsHeld /\ RecordsInOrder /\ WrittenAccounted

(* A handler past its second step has set the event.                       *)
StopsFirst == \A i \in Depths : handlers[i] \notin {"event", "set"} => stopping

(* Once the handler that interrupted the loop has flushed, the loop adds   *)
(* the record of its current round and no other.                           *)
LateOnly ==
  stopping /\ (handlers = <<>> \/ handlers[1] = "unlock")
    => \A n \in 1 .. Len(buffer) : buffer[n] = round

LateInv == StopsFirst /\ LateOnly
-----------------------------------------------------------------------------
(* Frames of the main thread.                                              *)

LEMMA TopType ==
  ASSUME TypeOK
  PROVE  /\ Depth \in Nat /\ Depth <= MaxSignals
         /\ Top \in Frame /\ Top # Free
         /\ handlers # <<>> => Depth \in Depths
         /\ handlers = <<>> => Depth = 0
         /\ \A i \in Depths : i \in Nat \ {0} /\ i <= Depth /\ handlers[i] \in StopPc
<1>1. handlers \in Seq(StopPc) /\ Len(handlers) <= MaxSignals /\ MaxSignals \in Nat
  BY LifecycleAssumption DEF TypeOK
<1>2. Len(handlers) \in Nat /\ (handlers # <<>> => Len(handlers) # 0)
  BY <1>1, EmptySeq, LenProperties
<1>3. \A i \in 1 .. Len(handlers) : handlers[i] \in StopPc
  BY <1>1, ElementOfSeq
<1>4. handlers = <<>> => Len(handlers) = 0
  BY EmptySeq
<1> QED BY <1>1, <1>2, <1>3, <1>4 DEF Depth, Top, Frame, Free, Depths

(* What a step of the topmost handler does to the stack.                   *)
LEMMA StopStepStack ==
  ASSUME TypeOK, NEW p \in StopPc, NEW q \in StopPc, StopStep(p, q)
  PROVE  /\ handlers # <<>> /\ Depth \in Depths /\ handlers[Depth] = p
         /\ handlers' \in Seq(StopPc) /\ Len(handlers') = Len(handlers)
         /\ Depths' = Depths
         /\ \A i \in Depths : handlers'[i] = IF i = Depth THEN q ELSE handlers[i]
         /\ UNCHANGED <<loop, signals>>
<1>1. handlers # <<>> /\ handlers[Depth] = p /\ handlers' = [handlers EXCEPT ![Depth] = q]
      /\ UNCHANGED <<loop, signals>>
  BY DEF StopStep
<1>2. Depth \in Depths /\ handlers \in Seq(StopPc)
  BY <1>1, TopType DEF TypeOK
<1>3. /\ handlers' \in Seq(StopPc) /\ Len(handlers') = Len(handlers)
      /\ \A i \in 1 .. Len(handlers) : handlers'[i] = IF i = Depth THEN q ELSE handlers[i]
  BY <1>1, <1>2, ExceptSeq DEF Depths
<1> QED BY <1>1, <1>2, <1>3 DEF Depths

(* A signal pushes a frame, a return pops one.                             *)
LEMMA PushedStack ==
  ASSUME TypeOK, handlers' = Append(handlers, "event")
  PROVE  /\ handlers' \in Seq(StopPc) /\ Len(handlers') = Depth + 1
         /\ Depths' = Depths \cup {Depth + 1}
         /\ \A i \in Depths : handlers'[i] = handlers[i]
         /\ handlers'[Depth + 1] = "event"
<1>1. handlers \in Seq(StopPc) /\ "event" \in StopPc
  BY DEF TypeOK, StopPc
<1>2. /\ handlers' \in Seq(StopPc) /\ Len(handlers') = Len(handlers) + 1
      /\ \A i \in 1 .. Len(handlers) : handlers'[i] = handlers[i]
      /\ handlers'[Len(handlers) + 1] = "event"
  BY <1>1, AppendProperties
<1>3. 1 .. Len(handlers') = (1 .. Len(handlers)) \cup {Len(handlers) + 1}
  BY <1>1, <1>2, LenProperties
<1> QED BY <1>2, <1>3 DEF Depths, Depth

LEMMA PoppedStack ==
  ASSUME TypeOK, handlers # <<>>, handlers' = SubSeq(handlers, 1, Depth - 1)
  PROVE  /\ handlers' \in Seq(StopPc) /\ Len(handlers') = Depth - 1
         /\ Depths' = Depths \ {Depth}
         /\ \A i \in Depths' : handlers'[i] = handlers[i]
<1>1. Depth \in Nat \ {0} /\ Depth = Len(handlers)
  BY TopType DEF Depths, Depth
<1>2. \A i \in 1 .. Depth - 1 : handlers[i] \in StopPc
  BY <1>1, TopType DEF Depths
<1>3. /\ handlers' \in Seq(StopPc) /\ Len(handlers') = Depth - 1
      /\ \A i \in 1 .. Depth - 1 : handlers'[i] = handlers[i]
  <2>1. /\ SubSeq(handlers, 1, Depth - 1) \in Seq(StopPc)
        /\ Len(SubSeq(handlers, 1, Depth - 1)) = IF 1 <= Depth - 1 THEN Depth - 1 - 1 + 1 ELSE 0
        /\ \A i \in 1 .. Depth - 1 - 1 + 1 : SubSeq(handlers, 1, Depth - 1)[i] = handlers[1 + i - 1]
    BY <1>1, <1>2, SubSeqProperties
  <2> QED BY <1>1, <2>1
<1>4. 1 .. Depth - 1 = (1 .. Depth) \ {Depth}
  BY <1>1
<1> QED BY <1>1, <1>3, <1>4 DEF Depths

-----------------------------------------------------------------------------
(* The lock of the metrics.                                                *)

(* While the topmost handler is inside, no other frame is.                 *)
LEMMA OnlyTopInMetrics ==
  ASSUME TypeOK, MetricsHeld, handlers # <<>>, handlers[Depth] \in StopInMetrics
  PROVE  /\ loop \notin LoopInMetrics
         /\ \A i \in Depths \ {Depth} : handlers[i] \notin StopInMetrics
  BY TopType DEF MetricsHeld

(* While the loop is, no handler is.                                       *)
LEMMA OnlyLoopInMetrics ==
  ASSUME TypeOK, MetricsHeld, loop \in LoopInMetrics
  PROVE  \A i \in Depths : handlers[i] \notin StopInMetrics
  BY TopType DEF MetricsHeld

LEMMA NobodyInMetrics ==
  ASSUME TypeOK, MetricsHeld, lock["metrics"] = Free
  PROVE  /\ loop \notin LoopInMetrics
         /\ \A i \in Depths : handlers[i] \notin StopInMetrics
  BY TopType DEF MetricsHeld, Free

LEMMA AcquireType ==
  ASSUME TypeOK, NEW l \in Lock, Acquire(l)
  PROVE  /\ lock' \in [Lock -> {Free} \cup Frame]
         /\ lock[l] = Free /\ lock'[l] = Top
         /\ \A k \in Lock \ {l} : lock'[k] = lock[k]
  BY TopType DEF Acquire, TypeOK

LEMMA ReleaseType ==
  ASSUME TypeOK, NEW l \in Lock, Release(l)
  PROVE  /\ lock' \in [Lock -> {Free} \cup Frame]
         /\ lock'[l] = Free
         /\ \A k \in Lock \ {l} : lock'[k] = lock[k]
  BY DEF Release, TypeOK

-----------------------------------------------------------------------------
(* The records.                                                            *)

LEMMA RecordTypes ==
  ASSUME TypeOK
  PROVE  /\ round \in Nat /\ Recorded \in Int
         /\ Len(file) \in Nat /\ Len(buffer) \in Nat
         /\ \A n \in 1 .. Len(file) : file[n] \in Round /\ file[n] \in Nat
         /\ \A n \in 1 .. Len(buffer) : buffer[n] \in Round /\ buffer[n] \in Nat
<1>1. file \in Seq(Round) /\ buffer \in Seq(Round) /\ round \in 0 .. MaxRounds /\ MaxRounds \in Nat
  BY LifecycleAssumption DEF TypeOK
<1>2. Len(file) \in Nat /\ Len(buffer) \in Nat
  BY <1>1, LenProperties
<1>3. /\ \A n \in 1 .. Len(file) : file[n] \in Round
      /\ \A n \in 1 .. Len(buffer) : buffer[n] \in Round
  BY <1>1, ElementOfSeq
<1>4. \A r \in Round : r \in Nat
  BY <1>1 DEF Round
<1> QED BY <1>1, <1>2, <1>3, <1>4 DEF Recorded

(* A step that leaves the records alone keeps what is said of them, when   *)
(* the rounds recorded so far and the pending clear stay the same.         *)
LEMMA SameRecords ==
  ASSUME TypeOK, RecordsInOrder, WrittenAccounted, UNCHANGED <<buffer, file, lost>>,
         Recorded' \in Int, Recorded <= Recorded', Written' <=> Written
  PROVE  RecordsInOrder' /\ WrittenAccounted'
<1>1. RecordsInOrder'
  <2>1. Increasing(file)' /\ Increasing(buffer)'
    BY DEF RecordsInOrder, Increasing
  <2>2. AtMost(file, Recorded)' /\ AtMost(buffer, Recorded)'
    BY RecordTypes DEF RecordsInOrder, AtMost
  <2>3. (~Written => Precedes(file, buffer))'
    BY DEF RecordsInOrder, Precedes
  <2> QED BY <2>1, <2>2, <2>3 DEF RecordsInOrder
<1>2. WrittenAccounted'
  BY DEF WrittenAccounted, Elements
<1> QED BY <1>1, <1>2

(* The write appends a part of the buffer, in order, and drops the rest.   *)
LEMMA WriteBufferRecords ==
  ASSUME TypeOK, RecordsInOrder, ~Written, WriteBuffer
  PROVE  /\ file' \in Seq(Round) /\ lost' \subseteq Round /\ buffer' = buffer
         /\ Increasing(file') /\ AtMost(file', Recorded)
         /\ Elements(file) \subseteq Elements(file') /\ lost \subseteq lost'
         /\ Elements(buffer) \subseteq Elements(file') \cup lost'
<1>1. PICK n \in 0 .. Len(buffer) :
           /\ file' = file \o SubSeq(buffer, 1, n)
           /\ lost' = lost \cup Elements(SubSeq(buffer, n + 1, Len(buffer)))
  BY DEF WriteBuffer
<1> DEFINE head == SubSeq(buffer, 1, n)
           rest == SubSeq(buffer, n + 1, Len(buffer))
<1>2. file \in Seq(Round) /\ Len(file) \in Nat /\ Len(buffer) \in Nat /\ n \in Nat /\ n <= Len(buffer)
  BY RecordTypes DEF TypeOK
<1>3. head \in Seq(Round) /\ Len(head) = n /\ \A i \in 1 .. n : head[i] = buffer[i]
  <2>1. \A i \in 1 .. n : buffer[i] \in Round
    BY <1>2, RecordTypes
  <2>2. /\ head \in Seq(Round) /\ Len(head) = IF 1 <= n THEN n - 1 + 1 ELSE 0
        /\ \A i \in 1 .. n - 1 + 1 : head[i] = buffer[1 + i - 1]
    BY <1>2, <2>1, SubSeqProperties
  <2> QED BY <1>2, <2>2
<1>4. /\ rest \in Seq(Round) /\ Len(rest) = Len(buffer) - n
      /\ \A i \in 1 .. Len(buffer) - n : rest[i] = buffer[n + i]
  <2>1. \A i \in n + 1 .. Len(buffer) : buffer[i] \in Round
    BY <1>2, RecordTypes
  <2>2. /\ rest \in Seq(Round)
        /\ Len(rest) = IF n + 1 <= Len(buffer) THEN Len(buffer) - (n + 1) + 1 ELSE 0
        /\ \A i \in 1 .. Len(buffer) - (n + 1) + 1 : rest[i] = buffer[n + 1 + i - 1]
    BY <1>2, <2>1, SubSeqProperties
  <2> QED BY <1>2, <2>2
<1>5. /\ file' \in Seq(Round) /\ Len(file') = Len(file) + n
      /\ \A i \in 1 .. Len(file) : file'[i] = file[i]
      /\ \A i \in 1 .. n : file'[Len(file) + i] = buffer[i]
  <2>1. /\ file \o head \in Seq(Round) /\ Len(file \o head) = Len(file) + Len(head)
        /\ \A i \in 1 .. Len(file) + Len(head) :
             (file \o head)[i] = IF i <= Len(file) THEN file[i] ELSE head[i - Len(file)]
    BY <1>2, <1>3, ConcatProperties
  <2> QED BY <1>1, <1>2, <1>3, <2>1
<1>6. /\ \A i \in 1 .. Len(file) + n :
           \/ i \in 1 .. Len(file) /\ file'[i] = file[i]
           \/ i - Len(file) \in 1 .. n /\ file'[i] = buffer[i - Len(file)] /\ i > Len(file)
  BY <1>2, <1>5
<1>7. Increasing(file')
  <2> SUFFICES ASSUME NEW i \in 1 .. Len(file) + n, NEW k \in 1 .. Len(file) + n, i < k
               PROVE  file'[i] < file'[k]
    BY <1>5 DEF Increasing
  <2>1. CASE k \in 1 .. Len(file)
    BY <1>2, <1>5, <2>1 DEF RecordsInOrder, Increasing
  <2>2. CASE i \in 1 .. Len(file) /\ k - Len(file) \in 1 .. n /\ file'[k] = buffer[k - Len(file)]
    BY <1>2, <1>5, <2>2 DEF RecordsInOrder, Precedes
  <2>3. CASE /\ i > Len(file) /\ k > Len(file)
    <3>1. i - Len(file) \in 1 .. Len(buffer) /\ k - Len(file) \in 1 .. Len(buffer)
      BY <1>2, <2>3
    <3>2. file'[i] = buffer[i - Len(file)] /\ file'[k] = buffer[k - Len(file)]
      BY <1>2, <1>6, <2>3
    <3> QED BY <1>2, <3>1, <3>2 DEF RecordsInOrder, Increasing
  <2> QED BY <1>2, <1>6, <2>1, <2>2, <2>3
<1>8. AtMost(file', Recorded)
  <2> SUFFICES ASSUME NEW i \in 1 .. Len(file) + n PROVE file'[i] <= Recorded
    BY <1>5 DEF AtMost
  <2>1. CASE i \in 1 .. Len(file) /\ file'[i] = file[i]
    BY <2>1 DEF RecordsInOrder, AtMost
  <2>2. CASE i - Len(file) \in 1 .. n /\ file'[i] = buffer[i - Len(file)]
    BY <1>2, <2>2 DEF RecordsInOrder, AtMost
  <2> QED BY <1>6, <2>1, <2>2
<1>9. Elements(file) \subseteq Elements(file')
  BY <1>2, <1>5 DEF Elements
<1>10. Elements(buffer) \subseteq Elements(file') \cup lost'
  <2> SUFFICES ASSUME NEW i \in 1 .. Len(buffer) PROVE buffer[i] \in Elements(file') \cup lost'
    BY DEF Elements
  <2>1. CASE i <= n
    <3>1. Len(file) + i \in 1 .. Len(file') /\ file'[Len(file) + i] = buffer[i]
      BY <1>2, <1>5, <2>1
    <3> QED BY <3>1 DEF Elements
  <2>2. CASE i > n
    <3>1. i - n \in 1 .. Len(rest) /\ rest[i - n] = buffer[i]
      BY <1>2, <1>4, <2>2
    <3>2. buffer[i] \in Elements(rest)
      BY <3>1 DEF Elements
    <3> QED BY <1>1, <3>2
  <2> QED BY <1>2, <2>1, <2>2
<1>11. lost' \subseteq Round
  <2>1. Elements(rest) \subseteq Round
    BY <1>4, ElementOfSeq DEF Elements
  <2> QED BY <1>1, <2>1 DEF TypeOK
<1> QED BY <1>1, <1>5, <1>7, <1>8, <1>9, <1>10, <1>11 DEF WriteBuffer

-----------------------------------------------------------------------------
(* Initial states, and the steps one by one.                               *)

LEMMA LifecycleInitInv == Init => LifecycleInv
<1> SUFFICES ASSUME Init PROVE LifecycleInv
  OBVIOUS
<1>1. Len(<<>>) = 0 /\ <<>> \in Seq(StopPc) /\ <<>> \in Seq(Round)
  BY EmptySeq
<1>2. TypeOK
  <2>1. /\ loop \in LoopPc /\ server \in Server /\ browser \in Browser
        /\ lock \in [Lock -> {Free} \cup Frame]
    BY DEF Init, LoopPc, Server, Browser
  <2>2. round \in 0 .. MaxRounds /\ signals \in 0 .. MaxSignals /\ 0 <= MaxSignals /\ 0 <= FlushEvery
    BY LifecycleAssumption DEF Init
  <2> QED BY <1>1, <2>1, <2>2 DEF Init, TypeOK
<1>3. Depths = {}
  BY <1>1 DEF Init, Depths
<1>4. Counts /\ BufferShort /\ MetricsHeld
  BY <1>1, <1>3, LifecycleAssumption
     DEF Init, Counts, BufferShort, MetricsHeld, LoopInMetrics, BeforeRecord
<1>5. RecordsInOrder /\ WrittenAccounted
  BY <1>1, <1>3 DEF Init, RecordsInOrder, Increasing, AtMost, Precedes, Written, WrittenAccounted
<1> QED BY <1>2, <1>4, <1>5 DEF LifecycleInv

(* The loop moves outside the lock of the metrics.                         *)
LEMMA LoopOutside ==
  ASSUME LifecycleInv, TypeOK', Counts',
         UNCHANGED <<handlers, buffer, file, lost>>, lock'["metrics"] = lock["metrics"],
         loop \notin {"write", "clear"}, loop' \notin LoopInMetrics, Recorded <= Recorded'
  PROVE  LifecycleInv'
<1>1. BufferShort'
  BY DEF LifecycleInv, BufferShort, LoopInMetrics
<1>2. MetricsHeld'
  BY DEF LifecycleInv, MetricsHeld, Depths
<1>3. Written' <=> Written
  BY DEF Written, Depths, LoopInMetrics
<1>4. Recorded' \in Int
  BY LifecycleAssumption DEF TypeOK, Recorded
<1>5. RecordsInOrder' /\ WrittenAccounted'
  BY <1>3, <1>4, SameRecords DEF LifecycleInv
<1> QED BY <1>1, <1>2, <1>5 DEF LifecycleInv

LEMMA StartUpInv == ASSUME LifecycleInv, StartUp PROVE LifecycleInv'
<1> USE DEF LifecycleInv
<1>1. /\ loop \in {"new", "bound", "served"} /\ loop' \in {"bound", "served", "check", "killed"}
      /\ UNCHANGED <<handlers, signals, round, lock, stopping, buffer, file, lost>>
      /\ server' \in Server /\ browser' \in Browser
  BY DEF StartUp, Bind, BindFails, StartThread, InstallHandlers, LoopStep, TypeOK, Server, Browser
<1>2. TypeOK' /\ Counts'
  BY <1>1 DEF TypeOK, LoopPc, Counts, BeforeRecord
<1>3. Recorded' = Recorded /\ Recorded \in Int
  BY <1>1, RecordTypes DEF Recorded, BeforeRecord
<1> QED BY <1>1, <1>2, <1>3, LoopOutside DEF LoopInMetrics

LEMMA SignalKillsInv == ASSUME LifecycleInv, SignalKills PROVE LifecycleInv'
<1> USE DEF LifecycleInv
<1>1. /\ loop \in {"new", "bound", "served"} /\ loop' = "killed" /\ signals' = signals + 1
      /\ signals < MaxSignals
      /\ UNCHANGED <<handlers, round, lock, stopping, buffer, file, lost, browser>>
  BY DEF SignalKills
<1>2. server' \in Server
  BY DEF SignalKills, TypeOK, Server
<1>3. TypeOK' /\ Counts'
  <2>1. signals \in Nat /\ signals' \in 0 .. MaxSignals
    BY <1>1, LifecycleAssumption DEF TypeOK
  <2>2. TypeOK'
    BY <1>1, <1>2, <2>1 DEF TypeOK, LoopPc
  <2>3. Counts'
    BY <1>1, <2>1, TopType DEF Counts, Depth, BeforeRecord
  <2> QED BY <2>2, <2>3
<1>4. Recorded' = Recorded /\ Recorded \in Int
  BY <1>1, RecordTypes DEF Recorded, BeforeRecord
<1> QED BY <1>1, <1>3, <1>4, LoopOutside DEF LoopInMetrics

(* What a step that empties the buffer leaves.                             *)
LEMMA ClearedRecords ==
  ASSUME TypeOK, RecordsInOrder, buffer' = <<>>, file' = file, lost' = lost,
         Recorded' = Recorded
  PROVE  /\ RecordsInOrder' /\ WrittenAccounted'
         /\ buffer' \in Seq(Round) /\ Len(buffer') = 0
<1>1. Len(buffer') = 0 /\ buffer' \in Seq(Round) /\ 1 .. Len(buffer') = {}
  BY EmptySeq
<1>2. RecordsInOrder'
  BY <1>1 DEF RecordsInOrder, Increasing, AtMost, Precedes
<1>3. WrittenAccounted'
  BY <1>1 DEF WrittenAccounted, Elements
<1> QED BY <1>1, <1>2, <1>3

LEMMA CheckStopInv == ASSUME LifecycleInv, CheckStop PROVE LifecycleInv'
<1> USE DEF LifecycleInv
<1>1. /\ loop = "check"
      /\ \/ loop' = "work" /\ round' = round + 1 /\ round < MaxRounds
         \/ loop' = "exited" /\ round' = round
      /\ (loop' = "exited" /\ buffer' = <<>>) \/ UNCHANGED buffer
      /\ UNCHANGED <<handlers, signals, lock, stopping, file, lost, server, browser>>
  BY DEF CheckStop, LoopStep
<1>2. round \in 0 .. MaxRounds /\ round' \in 0 .. MaxRounds
  BY <1>1, LifecycleAssumption DEF TypeOK
<1>3. Counts'
  BY <1>1, <1>2 DEF TypeOK, Counts, BeforeRecord
<1>4. Recorded' = Recorded /\ Recorded \in Int
  <2>1. round \in Nat /\ round' \in Nat /\ Recorded = round
    BY <1>1, <1>2 DEF Recorded, BeforeRecord
  <2>2. CASE loop' = "work" /\ round' = round + 1
    BY <2>1, <2>2 DEF Recorded, BeforeRecord
  <2>3. CASE loop' = "exited" /\ round' = round
    BY <2>1, <2>3 DEF Recorded, BeforeRecord
  <2> QED BY <1>1, <2>1, <2>2, <2>3
<1>5. CASE UNCHANGED buffer
  <2>1. TypeOK'
    BY <1>1, <1>2, <1>5 DEF TypeOK, LoopPc
  <2> QED BY <1>1, <1>3, <1>4, <1>5, <2>1, LoopOutside DEF LoopInMetrics
<1>6. CASE loop' = "exited" /\ buffer' = <<>>
  <2>1. RecordsInOrder' /\ WrittenAccounted' /\ buffer' \in Seq(Round) /\ Len(buffer') = 0
    BY <1>1, <1>4, <1>6, ClearedRecords
  <2>2. TypeOK' /\ BufferShort'
    BY <1>1, <1>2, <1>6, <2>1, LifecycleAssumption DEF TypeOK, LoopPc, BufferShort
  <2>3. MetricsHeld'
    BY <1>1, <1>6 DEF MetricsHeld, LoopInMetrics, Depths
  <2> QED BY <1>3, <2>1, <2>2, <2>3
<1> QED BY <1>1, <1>5, <1>6

LEMMA WorkInv ==
  ASSUME LifecycleInv, Work \/ RegistryLocks \/ RegistryUnlocks
  PROVE  LifecycleInv'
<1> USE DEF LifecycleInv
<1>1. /\ loop \in {"work", "evaluate", "peers", "count"}
      /\ loop' \in {"evaluate", "peers", "count", "record", "check"}
      /\ UNCHANGED <<handlers, signals, round, stopping, buffer, file, lost, server, browser>>
  BY DEF Work, RegistryLocks, RegistryUnlocks, LoopStep
<1>2. lock' \in [Lock -> {Free} \cup Frame] /\ lock'["metrics"] = lock["metrics"]
  <2>1. CASE Work
    BY <2>1 DEF Work, TypeOK
  <2>2. CASE RegistryLocks
    BY <2>2, AcquireType DEF RegistryLocks, Lock
  <2>3. CASE RegistryUnlocks
    BY <2>3, ReleaseType DEF RegistryUnlocks, Lock
  <2> QED BY <2>1, <2>2, <2>3
<1>3. TypeOK' /\ Counts'
  BY <1>1, <1>2 DEF TypeOK, LoopPc, Counts, BeforeRecord
<1>4. Recorded <= Recorded'
  BY <1>1, RecordTypes DEF Recorded, BeforeRecord
<1> QED BY <1>1, <1>2, <1>3, <1>4, LoopOutside DEF LoopInMetrics

LEMMA WaitInv == ASSUME LifecycleInv, WaitLocks \/ WaitReleases PROVE LifecycleInv'
<1> USE DEF LifecycleInv
<1>1. /\ loop \in {"wait", "sleep", "armed", "woken"}
      /\ loop' \in {"armed", "woken", "check", "sleep"}
      /\ UNCHANGED <<handlers, signals, round, stopping, buffer, file, lost, server, browser>>
  BY DEF WaitLocks, WaitReleases, LoopStep
<1>2. lock' \in [Lock -> {Free} \cup Frame] /\ lock'["metrics"] = lock["metrics"]
  BY AcquireType, ReleaseType DEF WaitLocks, WaitReleases, Lock
<1>3. TypeOK' /\ Counts'
  BY <1>1, <1>2 DEF TypeOK, LoopPc, Counts, BeforeRecord
<1>4. Recorded' = Recorded /\ Recorded \in Int
  BY <1>1, RecordTypes DEF Recorded, BeforeRecord
<1> QED BY <1>1, <1>2, <1>3, <1>4, LoopOutside DEF LoopInMetrics

LEMMA RecordLocksInv == ASSUME LifecycleInv, RecordLocks PROVE LifecycleInv'
<1> USE DEF LifecycleInv
<1>1. /\ handlers = <<>> /\ loop = "record" /\ loop' = "append"
      /\ UNCHANGED <<handlers, signals, round, stopping, buffer, file, lost, server, browser>>
  BY DEF RecordLocks, LoopStep
<1>2. lock' \in [Lock -> {Free} \cup Frame] /\ lock["metrics"] = Free /\ lock'["metrics"] = Top
  BY AcquireType DEF RecordLocks, Lock
<1>3. Top = 1 /\ Depths = {} /\ Depths' = {}
  BY <1>1, TopType DEF Top, Depths, Depth
<1>4. TypeOK' /\ Counts'
  BY <1>1, <1>2 DEF TypeOK, LoopPc, Counts, BeforeRecord
<1>5. MetricsHeld' /\ BufferShort'
  BY <1>1, <1>2, <1>3 DEF MetricsHeld, BufferShort
<1>6. Recorded' = Recorded /\ Recorded \in Int /\ (Written' <=> Written)
  BY <1>1, <1>3, RecordTypes DEF Recorded, Written, BeforeRecord
<1> QED BY <1>1, <1>4, <1>5, <1>6, SameRecords

(* The round's record comes after all that was recorded before, also when  *)
(* a handler has flushed in between.                                       *)
LEMMA RecordAppendsInv == ASSUME LifecycleInv, RecordAppends PROVE LifecycleInv'
<1> USE DEF LifecycleInv
<1>1. /\ handlers = <<>> /\ loop = "append"
      /\ loop' = IF Len(buffer) + 1 >= FlushEvery THEN "write" ELSE "unlock"
      /\ buffer' = Append(buffer, round)
      /\ UNCHANGED <<handlers, signals, round, lock, stopping, file, lost, server, browser>>
  BY DEF RecordAppends, LoopStep
<1>2. round \in Round /\ round \in Nat /\ Recorded = round - 1 /\ Recorded' = round
  BY <1>1, LifecycleAssumption DEF Counts, TypeOK, Round, Recorded, BeforeRecord
<1>3. Len(buffer) \in Nat /\ Len(buffer) < FlushEvery /\ FlushEvery \in Nat
  BY <1>1, RecordTypes, LifecycleAssumption DEF BufferShort
<1>4. /\ buffer' \in Seq(Round) /\ Len(buffer') = Len(buffer) + 1
      /\ \A n \in 1 .. Len(buffer) : buffer'[n] = buffer[n]
      /\ buffer'[Len(buffer) + 1] = round
  BY <1>1, <1>2, AppendProperties DEF TypeOK
<1>5. Depths = {} /\ Depths' = {}
  BY <1>1, TopType DEF Depths, Depth
<1>6. TypeOK' /\ Counts'
  BY <1>1, <1>3, <1>4 DEF TypeOK, LoopPc, Counts, BeforeRecord
<1>7. BufferShort'
  BY <1>1, <1>3, <1>4 DEF BufferShort
<1>8. MetricsHeld'
  BY <1>1, <1>5 DEF MetricsHeld, LoopInMetrics
<1>9. ~Written /\ ~Written'
  BY <1>1, <1>5 DEF Written
<1>10. /\ \A n \in 1 .. Len(file) : file[n] \in Nat /\ file[n] < round
       /\ \A n \in 1 .. Len(buffer) : buffer[n] \in Nat /\ buffer[n] < round
  BY <1>2, RecordTypes DEF RecordsInOrder, AtMost
<1>11. Increasing(buffer')
  <2> SUFFICES ASSUME NEW m \in 1 .. Len(buffer) + 1, NEW n \in 1 .. Len(buffer) + 1, m < n
               PROVE  buffer'[m] < buffer'[n]
    BY <1>4 DEF Increasing
  <2>1. m \in 1 .. Len(buffer) /\ buffer'[m] = buffer[m]
    BY <1>3, <1>4
  <2>2. CASE n = Len(buffer) + 1
    BY <1>4, <1>10, <2>1, <2>2
  <2>3. CASE n \in 1 .. Len(buffer)
    BY <1>4, <2>1, <2>3 DEF RecordsInOrder, Increasing
  <2> QED BY <1>3, <2>2, <2>3
<1>12. AtMost(file', Recorded') /\ AtMost(buffer', Recorded')
  BY <1>1, <1>2, <1>3, <1>4, <1>10 DEF AtMost
<1>13. Precedes(file', buffer')
  BY <1>1, <1>3, <1>4, <1>9, <1>10 DEF RecordsInOrder, Precedes
<1>14. RecordsInOrder' /\ WrittenAccounted'
  BY <1>1, <1>9, <1>11, <1>12, <1>13 DEF RecordsInOrder, WrittenAccounted
<1> QED BY <1>6, <1>7, <1>8, <1>14

LEMMA RecordWritesInv == ASSUME LifecycleInv, RecordWrites PROVE LifecycleInv'
<1> USE DEF LifecycleInv
<1>1. /\ handlers = <<>> /\ loop = "write" /\ loop' = "clear" /\ WriteBuffer
      /\ UNCHANGED <<handlers, signals, round, lock, stopping, server, browser>>
  BY DEF RecordWrites, LoopStep
<1>2. Depths = {} /\ Depths' = {}
  BY <1>1, TopType DEF Depths, Depth
<1>3. ~Written /\ Written' /\ Recorded' = Recorded
  BY <1>1, <1>2 DEF Written, Recorded, BeforeRecord
<1>4. /\ file' \in Seq(Round) /\ lost' \subseteq Round /\ buffer' = buffer
      /\ Increasing(file') /\ AtMost(file', Recorded)
      /\ Elements(buffer) \subseteq Elements(file') \cup lost'
  BY <1>1, <1>3, WriteBufferRecords
<1>5. TypeOK' /\ Counts'
  BY <1>1, <1>4 DEF TypeOK, LoopPc, Counts, BeforeRecord
<1>6. BufferShort' /\ MetricsHeld'
  BY <1>1, <1>2 DEF BufferShort, MetricsHeld, LoopInMetrics
<1>7. RecordsInOrder' /\ WrittenAccounted'
  BY <1>3, <1>4 DEF RecordsInOrder, WrittenAccounted
<1> QED BY <1>5, <1>6, <1>7

LEMMA RecordClearsInv == ASSUME LifecycleInv, RecordClears PROVE LifecycleInv'
<1> USE DEF LifecycleInv
<1>1. /\ handlers = <<>> /\ loop = "clear" /\ loop' = "unlock" /\ buffer' = <<>>
      /\ UNCHANGED <<handlers, signals, round, lock, stopping, file, lost, server, browser>>
  BY DEF RecordClears, LoopStep, ClearBuffer
<1>2. Recorded' = Recorded
  BY <1>1 DEF Recorded, BeforeRecord
<1>3. RecordsInOrder' /\ WrittenAccounted' /\ buffer' \in Seq(Round) /\ Len(buffer') = 0
  BY <1>1, <1>2, ClearedRecords
<1>4. TypeOK' /\ Counts' /\ BufferShort'
  BY <1>1, <1>3, LifecycleAssumption DEF TypeOK, LoopPc, Counts, BufferShort,
     BeforeRecord
<1>5. MetricsHeld'
  BY <1>1 DEF MetricsHeld, LoopInMetrics, Depths
<1> QED BY <1>3, <1>4, <1>5

LEMMA RecordUnlocksInv == ASSUME LifecycleInv, RecordUnlocks PROVE LifecycleInv'
<1> USE DEF LifecycleInv
<1>1. /\ handlers = <<>> /\ loop = "unlock" /\ loop' = "wait"
      /\ UNCHANGED <<handlers, signals, round, stopping, buffer, file, lost, server, browser>>
  BY DEF RecordUnlocks, LoopStep
<1>2. lock' \in [Lock -> {Free} \cup Frame]
  BY ReleaseType DEF RecordUnlocks, Lock
<1>3. Depths = {} /\ Depths' = {}
  BY <1>1, TopType DEF Depths, Depth
<1>4. TypeOK' /\ Counts'
  BY <1>1, <1>2 DEF TypeOK, LoopPc, Counts, BeforeRecord
<1>5. MetricsHeld' /\ BufferShort'
  BY <1>1, <1>3 DEF MetricsHeld, LoopInMetrics, BufferShort
<1>6. Recorded' = Recorded /\ Recorded \in Int /\ (Written' <=> Written)
  BY <1>1, <1>3, RecordTypes DEF Recorded, Written, BeforeRecord
<1> QED BY <1>1, <1>4, <1>5, <1>6, SameRecords

(* A signal interrupts the loop or a handler anywhere.                     *)
LEMMA SignalInv == ASSUME LifecycleInv, Signal PROVE LifecycleInv'
<1> USE DEF LifecycleInv
<1>1. /\ signals < MaxSignals /\ signals' = signals + 1
      /\ handlers' = Append(handlers, "event")
      /\ UNCHANGED <<loop, round, lock, stopping, buffer, file, lost, server, browser>>
  BY DEF Signal
<1>2. /\ handlers' \in Seq(StopPc) /\ Len(handlers') = Depth + 1
      /\ Depths' = Depths \cup {Depth + 1}
      /\ \A i \in Depths : handlers'[i] = handlers[i]
      /\ handlers'[Depth + 1] = "event"
  BY <1>1, PushedStack
<1>3. /\ signals \in Nat /\ Depth \in Nat /\ Depth <= signals
      /\ signals' \in 0 .. MaxSignals /\ Len(handlers') <= MaxSignals
  BY <1>1, <1>2, TopType, LifecycleAssumption DEF TypeOK, Counts, Depth
<1>4. TypeOK'
  BY <1>1, <1>2, <1>3 DEF TypeOK
<1>5. Counts'
  BY <1>1, <1>2, <1>3 DEF Counts
<1>6. BufferShort' /\ MetricsHeld'
  BY <1>1, <1>2 DEF BufferShort, MetricsHeld, StopInMetrics
<1>7. Recorded' = Recorded /\ Recorded \in Int /\ (Written' <=> Written)
  BY <1>1, <1>2, RecordTypes DEF Recorded, Written, BeforeRecord
<1> QED BY <1>1, <1>4, <1>5, <1>6, <1>7, SameRecords

(* A handler moves outside the lock of the metrics.                        *)
LEMMA StopOutside ==
  ASSUME LifecycleInv, NEW p \in StopPc \ StopInMetrics, NEW q \in StopPc \ StopInMetrics,
         StopStep(p, q), UNCHANGED <<round, buffer, file, lost>>,
         lock' \in [Lock -> {Free} \cup Frame], lock'["metrics"] = lock["metrics"],
         stopping' \in BOOLEAN, server' \in Server, browser' \in Browser
  PROVE  LifecycleInv'
<1> USE DEF LifecycleInv
<1>1. /\ handlers[Depth] = p /\ handlers' \in Seq(StopPc) /\ Len(handlers') = Len(handlers)
      /\ Depths' = Depths
      /\ \A i \in Depths : handlers'[i] = IF i = Depth THEN q ELSE handlers[i]
      /\ UNCHANGED <<loop, signals>>
  BY StopStepStack
<1>2. TypeOK' /\ Counts'
  BY <1>1 DEF TypeOK, Counts
<1>3. BufferShort' /\ MetricsHeld'
  BY <1>1 DEF BufferShort, MetricsHeld
<1>4. Recorded' = Recorded /\ Recorded \in Int
  BY <1>1, RecordTypes DEF Recorded, BeforeRecord
<1>5. Written' <=> Written
  BY <1>1 DEF Written, StopInMetrics
<1> QED BY <1>2, <1>3, <1>4, <1>5, SameRecords

LEMMA StopOutsideInv ==
  ASSUME LifecycleInv,
         \/ StopLocksEvent \/ StopSetsEvent \/ StopLocksServer \/ StopCloses
         \/ StopJoins \/ StopCancels
  PROVE  LifecycleInv'
<1> USE DEF LifecycleInv
<1>1. \A p \in {"event", "set", "server", "close", "join", "browser", "flush"} :
        p \in StopPc \ StopInMetrics
  BY DEF StopPc, StopInMetrics
<1>2. "event" \in Lock /\ "server" \in Lock /\ "metrics" \in Lock
  BY DEF Lock
<1>3. /\ stopping \in BOOLEAN /\ server \in Server /\ browser \in Browser
      /\ lock \in [Lock -> {Free} \cup Frame]
  BY DEF TypeOK
<1>4. CASE StopLocksEvent
  BY <1>1, <1>2, <1>3, <1>4, AcquireType, StopOutside DEF StopLocksEvent
<1>5. CASE StopSetsEvent
  BY <1>1, <1>2, <1>3, <1>5, ReleaseType, StopOutside DEF StopSetsEvent
<1>6. CASE StopLocksServer
  BY <1>1, <1>2, <1>3, <1>6, AcquireType, StopOutside DEF StopLocksServer
<1>7. CASE StopCloses
  <2>1. server' \in Server
    BY <1>3, <1>7 DEF StopCloses, Server
  <2> QED BY <1>1, <1>2, <1>3, <1>7, <2>1, ReleaseType, StopOutside DEF StopCloses
<1>8. CASE StopJoins
  <2>1. browser' \in Browser
    BY <1>3, <1>8 DEF StopJoins, Browser
  <2> QED BY <1>1, <1>2, <1>3, <1>8, <2>1, StopOutside DEF StopJoins
<1>9. CASE StopCancels
  BY <1>1, <1>2, <1>3, <1>9, StopOutside DEF StopCancels
<1> QED BY <1>4, <1>5, <1>6, <1>7, <1>8, <1>9

(* The flush enters the lock only when no frame below is inside.           *)
LEMMA StopLocksMetricsInv == ASSUME LifecycleInv, StopLocksMetrics PROVE LifecycleInv'
<1> USE DEF LifecycleInv
<1> DEFINE q == IF buffer = <<>> THEN "unlock" ELSE "write"
<1>1. /\ StopStep("flush", q) /\ Acquire("metrics")
      /\ UNCHANGED <<round, stopping, buffer, file, lost, server, browser>>
  BY DEF StopLocksMetrics
<1>2. "flush" \in StopPc /\ q \in {"write", "unlock"} /\ q \in StopPc
  BY DEF StopPc
<1> HIDE DEF q
<1>3. /\ Depth \in Depths /\ handlers[Depth] = "flush"
      /\ handlers' \in Seq(StopPc) /\ Len(handlers') = Len(handlers)
      /\ Depths' = Depths
      /\ \A i \in Depths : handlers'[i] = IF i = Depth THEN q ELSE handlers[i]
      /\ UNCHANGED <<loop, signals>>
  BY <1>1, <1>2, StopStepStack
<1>4. lock' \in [Lock -> {Free} \cup Frame] /\ lock["metrics"] = Free /\ lock'["metrics"] = Depth + 1
  BY <1>1, AcquireType DEF Lock, Top
<1>5. loop \notin LoopInMetrics /\ \A i \in Depths : handlers[i] \notin StopInMetrics
  BY <1>4, NobodyInMetrics
<1>6. TypeOK' /\ Counts'
  BY <1>1, <1>3, <1>4 DEF TypeOK, Counts
<1>7. BufferShort' /\ MetricsHeld'
  BY <1>1, <1>3, <1>4, <1>5 DEF BufferShort, MetricsHeld
<1>8. Recorded' = Recorded /\ Recorded \in Int
  BY <1>1, <1>3, RecordTypes DEF Recorded, BeforeRecord
<1>9. ~Written /\ ~Written'
  BY <1>2, <1>3, <1>5 DEF Written, LoopInMetrics, StopInMetrics
<1> QED BY <1>1, <1>6, <1>7, <1>8, <1>9, SameRecords

LEMMA StopWritesInv == ASSUME LifecycleInv, StopWrites PROVE LifecycleInv'
<1> USE DEF LifecycleInv
<1>1. /\ StopStep("write", "clear") /\ WriteBuffer
      /\ UNCHANGED <<round, lock, stopping, server, browser>>
  BY DEF StopWrites
<1>2. "write" \in StopPc /\ "clear" \in StopPc
  BY DEF StopPc
<1>3. /\ handlers # <<>> /\ Depth \in Depths /\ handlers[Depth] = "write"
      /\ handlers' \in Seq(StopPc) /\ Len(handlers') = Len(handlers)
      /\ Depths' = Depths
      /\ \A i \in Depths : handlers'[i] = IF i = Depth THEN "clear" ELSE handlers[i]
      /\ UNCHANGED <<loop, signals>>
  BY <1>1, <1>2, StopStepStack
<1>4. loop \notin LoopInMetrics /\ \A i \in Depths \ {Depth} : handlers[i] \notin StopInMetrics
  BY <1>3, OnlyTopInMetrics DEF StopInMetrics
<1>5. ~Written /\ Written' /\ Recorded' = Recorded
  BY <1>1, <1>3, <1>4 DEF Written, Recorded, LoopInMetrics, StopInMetrics, BeforeRecord
<1>6. /\ file' \in Seq(Round) /\ lost' \subseteq Round /\ buffer' = buffer
      /\ Increasing(file') /\ AtMost(file', Recorded)
      /\ Elements(buffer) \subseteq Elements(file') \cup lost'
  BY <1>1, <1>5, WriteBufferRecords
<1>7. TypeOK' /\ Counts'
  BY <1>1, <1>3, <1>6 DEF TypeOK, Counts
<1>8. BufferShort' /\ MetricsHeld'
  BY <1>1, <1>3, <1>6 DEF BufferShort, MetricsHeld, StopInMetrics
<1>9. RecordsInOrder' /\ WrittenAccounted'
  BY <1>5, <1>6 DEF RecordsInOrder, WrittenAccounted
<1> QED BY <1>7, <1>8, <1>9

LEMMA StopClearsInv == ASSUME LifecycleInv, StopClears PROVE LifecycleInv'
<1> USE DEF LifecycleInv
<1>1. /\ StopStep("clear", "unlock") /\ buffer' = <<>>
      /\ UNCHANGED <<round, lock, stopping, file, lost, server, browser>>
  BY DEF StopClears, ClearBuffer
<1>2. "unlock" \in StopPc /\ "clear" \in StopPc
  BY DEF StopPc
<1>3. /\ Depth \in Depths /\ handlers[Depth] = "clear"
      /\ handlers' \in Seq(StopPc) /\ Len(handlers') = Len(handlers)
      /\ Depths' = Depths
      /\ \A i \in Depths : handlers'[i] = IF i = Depth THEN "unlock" ELSE handlers[i]
      /\ UNCHANGED <<loop, signals>>
  BY <1>1, <1>2, StopStepStack
<1>4. RecordsInOrder' /\ WrittenAccounted' /\ buffer' \in Seq(Round) /\ Len(buffer') = 0
  BY <1>1, <1>3, ClearedRecords DEF Recorded
<1>5. TypeOK' /\ Counts' /\ BufferShort'
  BY <1>1, <1>3, <1>4, LifecycleAssumption DEF TypeOK, Counts, BufferShort
<1>6. MetricsHeld'
  BY <1>1, <1>3 DEF MetricsHeld, StopInMetrics
<1> QED BY <1>4, <1>5, <1>6

LEMMA StopReturnsInv == ASSUME LifecycleInv, StopReturns PROVE LifecycleInv'
<1> USE DEF LifecycleInv
<1>1. /\ handlers # <<>> /\ handlers[Depth] = "unlock"
      /\ handlers' = SubSeq(handlers, 1, Depth - 1) /\ Release("metrics")
      /\ UNCHANGED <<loop, round, signals, stopping, buffer, file, lost, server, browser>>
  BY DEF StopReturns
<1>2. /\ handlers' \in Seq(StopPc) /\ Len(handlers') = Depth - 1
      /\ Depths' = Depths \ {Depth}
      /\ \A i \in Depths' : handlers'[i] = handlers[i]
  BY <1>1, PoppedStack
<1>3. lock' \in [Lock -> {Free} \cup Frame]
  BY <1>1, ReleaseType DEF Lock
<1>4. loop \notin LoopInMetrics /\ \A i \in Depths \ {Depth} : handlers[i] \notin StopInMetrics
  BY <1>1, OnlyTopInMetrics DEF StopInMetrics
<1>5. Depth \in Nat /\ Len(handlers') <= MaxSignals /\ Len(handlers') <= signals
  BY <1>2, TopType, LifecycleAssumption DEF TypeOK, Counts, Depth
<1>6. TypeOK' /\ Counts'
  BY <1>1, <1>2, <1>3, <1>5 DEF TypeOK, Counts
<1>7. BufferShort' /\ MetricsHeld'
  BY <1>1, <1>2, <1>4 DEF BufferShort, MetricsHeld
<1>8. Recorded' = Recorded /\ Recorded \in Int
  BY <1>1, RecordTypes DEF Recorded, BeforeRecord
<1>9. Written' <=> Written
  BY <1>1, <1>2 DEF Written
<1> QED BY <1>1, <1>6, <1>7, <1>8, <1>9, SameRecords

LEMMA OtherThreadInv ==
  ASSUME LifecycleInv, AcceptThread \/ BrowserCalls \/ BrowserUpdates
  PROVE  LifecycleInv'
<1> USE DEF LifecycleInv
<1>1. /\ UNCHANGED <<loop, round, handlers, signals, lock, stopping, buffer, file, lost>>
      /\ server' \in Server /\ browser' \in Browser
  BY DEF AcceptThread, AcceptChecks, AcceptSelects, Accepts, BrowserCalls, BrowserUpdates,
     TypeOK, Server, Browser
<1>2. TypeOK' /\ Counts'
  BY <1>1 DEF TypeOK, Counts
<1>3. BufferShort' /\ MetricsHeld'
  BY <1>1 DEF BufferShort, MetricsHeld, Depths
<1>4. Recorded' = Recorded /\ Recorded \in Int /\ (Written' <=> Written)
  BY <1>1, RecordTypes DEF Recorded, Written, Depths, BeforeRecord
<1> QED BY <1>1, <1>2, <1>3, <1>4, SameRecords

LEMMA LifecycleUnchanged == ASSUME LifecycleInv, UNCHANGED vars PROVE LifecycleInv'
<1> USE DEF LifecycleInv, vars
<1>1. TypeOK' /\ Counts'
  BY DEF TypeOK, Counts
<1>2. BufferShort' /\ MetricsHeld'
  BY DEF BufferShort, MetricsHeld, Depths
<1>3. Recorded' = Recorded /\ Recorded \in Int /\ (Written' <=> Written)
  BY RecordTypes DEF Recorded, Written, Depths, BeforeRecord
<1>4. UNCHANGED <<buffer, file, lost>>
  OBVIOUS
<1> QED BY <1>1, <1>2, <1>3, <1>4, SameRecords

LEMMA LifecycleStep == LifecycleInv /\ [Next]_vars => LifecycleInv'
<1> SUFFICES ASSUME LifecycleInv, [Next]_vars PROVE LifecycleInv'
  OBVIOUS
<1>1. CASE StartUp
  BY <1>1, StartUpInv
<1>2. CASE SignalKills
  BY <1>2, SignalKillsInv
<1>3. CASE LearningLoop
  BY <1>3, CheckStopInv, WorkInv, RecordLocksInv, RecordAppendsInv, RecordWritesInv,
     RecordClearsInv, RecordUnlocksInv, WaitInv DEF LearningLoop
<1>4. CASE Signal
  BY <1>4, SignalInv
<1>5. CASE StopCall
  BY <1>5, StopOutsideInv, StopLocksMetricsInv, StopWritesInv, StopClearsInv, StopReturnsInv
     DEF StopCall
<1>6. CASE AcceptThread \/ BrowserCalls \/ BrowserUpdates
  BY <1>6, OtherThreadInv
<1>7. CASE Ended \/ UNCHANGED vars
  BY <1>7, LifecycleUnchanged DEF Ended
<1> QED BY <1>1, <1>2, <1>3, <1>4, <1>5, <1>6, <1>7 DEF Next

-----------------------------------------------------------------------------
(* What is recorded after the handler's flush.                             *)

LEMMA LateInit == Init => LateInv
<1> SUFFICES ASSUME Init PROVE LateInv
  OBVIOUS
<1>1. Len(<<>>) = 0
  BY EmptySeq
<1> QED BY <1>1 DEF Init, LateInv, StopsFirst, LateOnly, Depths

(* A step of the loop or of another thread leaves the handlers alone.      *)
LEMMA LateLoop ==
  ASSUME LifecycleInv, LateInv, UNCHANGED <<handlers, stopping>>,
         \/ UNCHANGED <<round, buffer>>
         \/ buffer' = <<>>
         \/ ~stopping
         \/ RecordAppends
  PROVE  LateInv'
<1>1. StopsFirst'
  BY DEF LateInv, StopsFirst, Depths
<1>2. CASE UNCHANGED <<round, buffer>>
  BY <1>1, <1>2 DEF LateInv, LateOnly
<1>3. CASE buffer' = <<>>
  <2>1. Len(buffer') = 0
    BY <1>3, EmptySeq
  <2> QED BY <1>1, <2>1 DEF LateInv, LateOnly
<1>4. CASE ~stopping
  BY <1>1, <1>4 DEF LateInv, LateOnly
<1>5. CASE RecordAppends
  <2>1. handlers = <<>> /\ buffer' = Append(buffer, round) /\ round' = round
    BY <1>5 DEF RecordAppends, LoopStep
  <2>2. buffer \in Seq(Round) /\ round \in Round
    BY <1>5, LifecycleAssumption
    DEF RecordAppends, LoopStep, LifecycleInv, TypeOK, Counts, Round, BeforeRecord
  <2>3. /\ Len(buffer') = Len(buffer) + 1 /\ Len(buffer) \in Nat
        /\ \A n \in 1 .. Len(buffer) : buffer'[n] = buffer[n]
        /\ buffer'[Len(buffer) + 1] = round
    BY <2>1, <2>2, AppendProperties, LenProperties
  <2>4. stopping => \A n \in 1 .. Len(buffer') : buffer'[n] = round
    BY <2>1, <2>3 DEF LateInv, LateOnly
  <2> QED BY <1>1, <2>1, <2>4 DEF LateInv, LateOnly
<1> QED BY <1>2, <1>3, <1>4, <1>5

(* A step of the topmost handler: the flush leaves an empty buffer.        *)
LEMMA LateStop ==
  ASSUME LifecycleInv, LateInv, NEW p \in StopPc, NEW q \in StopPc, StopStep(p, q),
         UNCHANGED round, UNCHANGED buffer \/ buffer' = <<>>,
         q = "unlock" => buffer' = <<>>,
         stopping' = (stopping \/ p = "set"),
         p \in {"event", "set"} => q = "set" \/ stopping'
  PROVE  LateInv'
<1>1. /\ Depth \in Depths /\ handlers[Depth] = p /\ Len(handlers') = Len(handlers)
      /\ Depths' = Depths /\ handlers' \in Seq(StopPc)
      /\ \A i \in Depths : handlers'[i] = IF i = Depth THEN q ELSE handlers[i]
  BY StopStepStack DEF LifecycleInv
<1>2. 1 \in Depths /\ handlers' # <<>>
  BY <1>1, EmptySeq, LenProperties, TopType DEF Depths, LifecycleInv
<1>3. StopsFirst'
  BY <1>1 DEF LateInv, StopsFirst
<1>4. LateOnly'
  <2>1. CASE buffer' = <<>>
    <3>1. Len(buffer') = 0
      BY <2>1, EmptySeq
    <3> QED BY <3>1 DEF LateOnly
  <2>2. CASE UNCHANGED buffer /\ q # "unlock"
    <3> SUFFICES ASSUME handlers'[1] = "unlock"
                 PROVE  \A n \in 1 .. Len(buffer) : buffer[n] = round
      BY <1>2, <2>2 DEF LateOnly
    <3>1. handlers[1] = "unlock"
      BY <1>1, <1>2, <2>2
    <3>2. stopping
      BY <1>2, <3>1 DEF LateInv, StopsFirst
    <3> QED BY <3>1, <3>2 DEF LateInv, LateOnly
  <2> QED BY <2>1, <2>2
<1> QED BY <1>3, <1>4 DEF LateInv

LEMMA LateStopCall == ASSUME LifecycleInv, LateInv, StopCall PROVE LateInv'
<1>0. /\ \A p \in {"event", "set", "server", "close", "join", "browser", "flush", "write",
                   "clear", "unlock"} : p \in StopPc
      /\ stopping \in BOOLEAN
  BY DEF StopPc, LifecycleInv, TypeOK
<1>1. CASE StopLocksEvent
  BY <1>0, <1>1, LateStop DEF StopLocksEvent
<1>2. CASE StopSetsEvent
  BY <1>0, <1>2, LateStop DEF StopSetsEvent
<1>3. CASE StopLocksServer
  BY <1>0, <1>3, LateStop DEF StopLocksServer
<1>4. CASE StopCloses
  BY <1>0, <1>4, LateStop DEF StopCloses
<1>5. CASE StopJoins
  BY <1>0, <1>5, LateStop DEF StopJoins
<1>6. CASE StopCancels
  BY <1>0, <1>6, LateStop DEF StopCancels
<1>7. CASE StopLocksMetrics
  <2>1. CASE buffer = <<>>
    BY <1>0, <1>7, <2>1, LateStop DEF StopLocksMetrics
  <2>2. CASE buffer # <<>>
    BY <1>0, <1>7, <2>2, LateStop DEF StopLocksMetrics
  <2> QED BY <2>1, <2>2
<1>8. CASE StopWrites
  BY <1>0, <1>8, LateStop DEF StopWrites, WriteBuffer
<1>9. CASE StopClears
  BY <1>0, <1>9, LateStop DEF StopClears, ClearBuffer
<1>10. CASE StopReturns
  <2>1. /\ handlers # <<>> /\ handlers[Depth] = "unlock"
        /\ handlers' = SubSeq(handlers, 1, Depth - 1)
        /\ UNCHANGED <<round, stopping, buffer>>
    BY <1>10 DEF StopReturns
  <2>2. /\ handlers' \in Seq(StopPc) /\ Len(handlers') = Depth - 1
        /\ Depths' = Depths \ {Depth}
        /\ \A i \in Depths' : handlers'[i] = handlers[i]
    BY <2>1, PoppedStack DEF LifecycleInv
  <2>3. StopsFirst'
    BY <2>1, <2>2 DEF LateInv, StopsFirst
  <2>4. Depth \in Depths /\ Depth \in Nat \ {0} /\ Depths = 1 .. Depth
    BY <2>1, TopType DEF Depths, Depth, LifecycleInv
  <2>5. stopping
    BY <2>1, <2>4 DEF LateInv, StopsFirst
  <2>6. CASE Depth = 1
    BY <2>1, <2>3, <2>5, <2>6 DEF LateInv, LateOnly
  <2>7. CASE Depth # 1
    <3>1. 1 \in Depths' /\ handlers' # <<>>
      BY <2>2, <2>4, <2>7, EmptySeq
    <3> QED BY <2>1, <2>2, <2>3, <3>1 DEF LateInv, LateOnly
  <2> QED BY <2>6, <2>7
<1> QED BY <1>1, <1>2, <1>3, <1>4, <1>5, <1>6, <1>7, <1>8, <1>9, <1>10 DEF StopCall

LEMMA LateStep == LifecycleInv /\ LateInv /\ [Next]_vars => LateInv'
<1> SUFFICES ASSUME LifecycleInv, LateInv, [Next]_vars PROVE LateInv'
  OBVIOUS
<1>1. CASE \/ StartUp \/ SignalKills \/ Work \/ RegistryLocks \/ RegistryUnlocks
           \/ RecordLocks \/ RecordWrites \/ RecordUnlocks \/ WaitLocks \/ WaitReleases
           \/ AcceptThread \/ BrowserCalls \/ BrowserUpdates \/ Ended \/ UNCHANGED vars
  <2>1. UNCHANGED <<handlers, stopping, round, buffer>>
    BY <1>1 DEF StartUp, Bind, BindFails, StartThread, InstallHandlers, SignalKills, Work,
       RegistryLocks, RegistryUnlocks, RecordLocks, RecordWrites, WriteBuffer, RecordUnlocks,
       WaitLocks, WaitReleases, AcceptThread, AcceptChecks, AcceptSelects, Accepts,
       BrowserCalls, BrowserUpdates, Ended, vars, LoopStep
  <2> QED BY <2>1, LateLoop
<1>2. CASE CheckStop
  <2>1. UNCHANGED <<handlers, stopping>> /\ (~stopping \/ buffer' = <<>>)
    BY <1>2 DEF CheckStop, LoopStep
  <2> QED BY <2>1, LateLoop
<1>3. CASE RecordAppends
  BY <1>3, LateLoop DEF RecordAppends, LoopStep
<1>4. CASE RecordClears
  BY <1>4, LateLoop DEF RecordClears, ClearBuffer, LoopStep
<1>5. CASE Signal
  <2>1. handlers' = Append(handlers, "event") /\ UNCHANGED <<round, stopping, buffer>>
    BY <1>5 DEF Signal
  <2>2. /\ handlers' \in Seq(StopPc) /\ Len(handlers') = Depth + 1
        /\ Depths' = Depths \cup {Depth + 1}
        /\ \A i \in Depths : handlers'[i] = handlers[i]
        /\ handlers'[Depth + 1] = "event"
    BY <2>1, PushedStack DEF LifecycleInv
  <2>3. StopsFirst'
    BY <2>1, <2>2 DEF LateInv, StopsFirst
  <2>4. handlers' # <<>> /\ Depth \in Nat
    BY <2>2, EmptySeq, TopType DEF LifecycleInv
  <2>5. handlers'[1] = "unlock" => handlers[1] = "unlock"
    <3>1. CASE Depth = 0
      BY <2>2, <3>1
    <3>2. CASE Depth # 0
      BY <2>2, <2>4, <3>2 DEF Depths, Depth
    <3> QED BY <3>1, <3>2
  <2> QED BY <2>1, <2>3, <2>4, <2>5 DEF LateInv, LateOnly
<1>6. CASE StopCall
  BY <1>6, LateStopCall
<1> QED BY <1>1, <1>2, <1>3, <1>4, <1>5, <1>6 DEF Next, LearningLoop

-----------------------------------------------------------------------------
(* Theorems.                                                               *)

(* The inductive invariant holds in every state of a node's life.          *)
THEOREM LifecycleInvariant == Spec => [](LifecycleInv /\ LateInv)
<1>1. Init => LifecycleInv /\ LateInv
  BY LifecycleInitInv, LateInit
<1>2. (LifecycleInv /\ LateInv) /\ [Next]_vars => (LifecycleInv /\ LateInv)'
  BY LifecycleStep, LateStep
<1> QED BY <1>1, <1>2, PTL DEF Spec

(* The variables of a node keep their types; the buffer never holds more   *)
(* than the records that trigger a flush, however often stop() flushes it. *)
THEOREM LifecycleTypeCorrect == Spec => []TypeOK
<1>1. LifecycleInv => TypeOK
  BY DEF LifecycleInv
<1> QED BY <1>1, LifecycleInvariant, PTL

(* The metrics file has each round at most once and in order, for every    *)
(* number of nested handlers and whatever part of each write fails.        *)
THEOREM MetricsFileInOrder == Spec => []FileInOrder
<1>1. LifecycleInv => FileInOrder
  BY DEF LifecycleInv, RecordsInOrder, Increasing, FileInOrder
<1> QED BY <1>1, LifecycleInvariant, PTL

(* At most one frame of the main thread is inside the lock of the metrics, *)
(* the loop or one of its handlers.                                        *)
OneFrameInMetrics ==
  /\ loop \in LoopInMetrics => \A i \in Depths : handlers[i] \notin StopInMetrics
  /\ \A i, j \in Depths :
       handlers[i] \in StopInMetrics /\ handlers[j] \in StopInMetrics => i = j

(* The lock of NodeMetrics does exclude, although one thread takes it.     *)
THEOREM MetricsLockExcludes == Spec => []OneFrameInMetrics
<1>1. LifecycleInv => OneFrameInMetrics
  BY TopType DEF LifecycleInv, MetricsHeld, OneFrameInMetrics
<1> QED BY <1>1, LifecycleInvariant, PTL

(* No step of the loop or of a handler drops a record it was handed, and   *)
(* the end of the process takes no other than that of the last round.      *)
THEOREM NothingRecordedVanishes == Spec => NothingVanishes
<1>1. LifecycleInv /\ LateInv /\ [Next]_vars =>
        [\A r \in Accounted : r \in Accounted' \/ (loop' = "exited" /\ r = round)]_vars
  <2> SUFFICES ASSUME LifecycleInv, LateInv, [Next]_vars
               PROVE  \A r \in Accounted : r \in Accounted' \/ (loop' = "exited" /\ r = round)
    OBVIOUS
  <2> USE DEF LifecycleInv
  <2>1. ASSUME UNCHANGED <<buffer, file, lost>> PROVE Accounted \subseteq Accounted'
    BY <2>1 DEF Accounted, Elements
  <2>2. CASE RecordAppends
    <3>1. Elements(buffer) \subseteq Elements(buffer')
      <4>1. buffer' = Append(buffer, round) /\ buffer \in Seq(Round) /\ round \in Round
        BY <2>2, LifecycleAssumption
        DEF RecordAppends, LoopStep, TypeOK, Counts, Round, BeforeRecord
      <4>2. /\ Len(buffer') = Len(buffer) + 1 /\ Len(buffer) \in Nat
            /\ \A n \in 1 .. Len(buffer) : buffer'[n] = buffer[n]
        BY <4>1, AppendProperties, LenProperties
      <4> QED BY <4>2 DEF Elements
    <3> QED BY <2>2, <3>1 DEF RecordAppends, Accounted, Elements
  <2>3. CASE RecordWrites \/ StopWrites
    <3>1. WriteBuffer /\ ~Written
      <4>1. CASE RecordWrites
        <5>1. handlers = <<>> /\ loop = "write" /\ WriteBuffer
          BY <4>1 DEF RecordWrites, LoopStep
        <5> QED BY <5>1, TopType DEF Written, Depths, Depth
      <4>2. CASE StopWrites
        <5>1. handlers # <<>> /\ handlers[Depth] = "write" /\ WriteBuffer
          BY <4>2 DEF StopWrites, StopStep
        <5> QED BY <5>1, OnlyTopInMetrics DEF Written, LoopInMetrics, StopInMetrics
      <4> QED BY <2>3, <4>1, <4>2
    <3>2. /\ Elements(file) \subseteq Elements(file') /\ lost \subseteq lost' /\ buffer' = buffer
      BY <3>1, WriteBufferRecords
    <3> QED BY <3>2 DEF Accounted
  <2>4. CASE RecordClears \/ StopClears
    <3>1. Written /\ UNCHANGED <<file, lost>>
      BY <2>4, TopType DEF RecordClears, StopClears, LoopStep, StopStep, Written
    <3>2. Elements(file') = Elements(file)
      BY <3>1
    <3> QED BY <3>1, <3>2 DEF WrittenAccounted, Accounted
  <2>5. CASE UNCHANGED vars
    BY <2>1, <2>5 DEF vars
  <2>6. CASE CheckStop
    <3>1. CASE UNCHANGED buffer
      BY <2>1, <2>6, <3>1 DEF CheckStop
    <3>2. CASE ~UNCHANGED buffer
      <4>1. /\ handlers = <<>> /\ stopping /\ loop' = "exited" /\ UNCHANGED <<file, lost>>
        BY <2>6, <3>2 DEF CheckStop, LoopStep
      <4>2. \A r \in Elements(buffer) : r = round
        BY <4>1 DEF LateInv, LateOnly, Elements
      <4>3. Elements(file') = Elements(file)
        BY <4>1
      <4> QED BY <4>1, <4>2, <4>3 DEF Accounted
    <3> QED BY <3>1, <3>2
  <2>7. CASE \/ StartUp \/ SignalKills \/ Signal \/ AcceptThread \/ BrowserCalls
             \/ BrowserUpdates \/ Ended \/ Work \/ RegistryLocks \/ RegistryUnlocks
             \/ RecordLocks \/ RecordUnlocks \/ WaitLocks \/ WaitReleases
             \/ StopLocksEvent \/ StopSetsEvent \/ StopLocksServer \/ StopCloses \/ StopJoins
             \/ StopCancels \/ StopLocksMetrics \/ StopReturns
    <3>1. UNCHANGED <<buffer, file, lost>>
      BY <2>7 DEF StartUp, Bind, BindFails, StartThread, InstallHandlers, SignalKills, Signal,
         AcceptThread, AcceptChecks, AcceptSelects, Accepts, BrowserCalls, BrowserUpdates, Ended,
         vars, Work, RegistryLocks, RegistryUnlocks, RecordLocks, RecordUnlocks, WaitLocks,
         WaitReleases, StopLocksEvent, StopSetsEvent, StopLocksServer, StopCloses, StopJoins,
         StopCancels, StopLocksMetrics, StopReturns
    <3> QED BY <3>1, <2>1
  <2> QED BY <2>2, <2>3, <2>4, <2>5, <2>6, <2>7 DEF Next, LearningLoop, StopCall
<1> QED BY <1>1, LifecycleInvariant, PTL DEF Spec, NothingVanishes
=============================================================================
