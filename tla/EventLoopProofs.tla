--------------------------- MODULE EventLoopProofs ---------------------------
(***************************************************************************)
(* Proofs about the parts of an event loop: SPSCQueue for queues and       *)
(* batches of every size, FlowControl for any sources and sinks, and       *)
(* EventTriggers for any callbacks, triggers and number of attempts.       *)
(***************************************************************************)
EXTENDS SPSCQueue, FlowControl, EventTriggers, TLAPS

\* The two halves of TypeInv: Boolean flags, and everything else.
Flags ==
  /\ readEnabled \in BOOLEAN /\ flushing \in BOOLEAN
  /\ writeEvent \in BOOLEAN /\ blocked \in BOOLEAN
Data ==
  /\ queue \in Seq(Nat) /\ Len(queue) <= Size
  /\ overflow \in Seq(Nat) /\ synced \in Nat /\ written \in Nat /\ drained \in Nat /\ item \in Nat
  /\ readReady \in {0, 1} /\ writeReady \in {0, 1}
  /\ wpc \in WriterPoints /\ rpc \in ReaderPoints
  /\ pending \in Nat /\ delayed \in {0, 1} /\ batch \in 0 .. MaxBatch

\* The two halves make up the type invariant.
LEMMA TypeParts == Flags /\ Data => QueueTypeInv
  BY DEF Flags, Data, QueueTypeInv

\* The flags of a new queue are Boolean.
LEMMA InitFlags == QueueInit => Flags
  BY DEF QueueInit, Flags

\* Every step keeps the flags Boolean.
LEMMA StepFlags == Flags /\ [QueueNext]_queueVars => Flags'
<1> SUFFICES ASSUME Flags, [QueueNext]_queueVars PROVE Flags'
  OBVIOUS
<1> USE FlagAssumption DEF Flags
<1>1. CASE UNCHANGED queueVars
  BY <1>1, Zenon DEF queueVars, writerVars, readerVars
<1>2. CASE Write \/ SinkWritable
  BY <1>2, Zenon DEF Write, SinkWritable, readerVars
<1>3. CASE WriterStep
  BY <1>3, Zenon DEF WriterStep, TryWrite, ClearWritable, RetryWrite, RestoreWritable, SyncSize,
                     NotifyReader, Push, GiveUp, WriteDone, readerVars
<1>4. CASE ReaderStep
  BY <1>4, Zenon DEF ReaderStep, StartBatch, Read, TakeAll, TakeButOne, Pop, SignalWriter, DrainOne,
                     CloseBatch, NotifySelf, writerVars
<1>5. CASE Unblock
  BY <1>5, Zenon DEF Unblock, writerVars
<1> QED
  BY <1>1, <1>2, <1>3, <1>4, <1>5 DEF QueueNext

\* An item is in the queue but not yet counted in synced_size_.
Uncounted == IF wpc \in {"restore", "sync"} THEN 1 ELSE 0

\* Tokens and items agree: the items are those the batch has claimed, those
\* the writer has published and the one it is about to publish.
Tokens == Len(queue) = pending + synced + Uncounted

\* What each thread knows at each point of its code.
Positions ==
  /\ rpc = "pop" => pending > 0
  /\ rpc = "take0" => synced > 0 /\ pending = 0
  /\ rpc = "take1" => synced > 1 /\ pending = 0
  /\ rpc \in {"wait", "renotify"} => pending = 0 /\ delayed = 0
  /\ rpc = "read" /\ batch = 0 => pending = 0
  /\ rpc \in {"take0", "take1", "pop"} => batch < MaxBatch
  /\ rpc \in {"signal", "drain"} => batch > 0
  /\ wpc \in {"write", "clear", "retry"} => overflow # <<>>

\* Published items are announced: the read event is pending, about to be
\* raised, or the batch in progress will look at synced_size_ again.
Announced ==
  synced > 0 /\ readReady = 0 /\ wpc # "notify" =>
    rpc \in {"take0", "take1", "renotify"} \/ (rpc = "read" /\ batch = 0) \/ delayed = 1

QueueIInv == Data /\ Tokens /\ Positions /\ Announced

\* A new queue has no items, no tokens and nobody under way.
LEMMA QueueInitIInv == QueueInit => QueueIInv
  BY SizeAssumption, BatchAssumption
     DEF QueueInit, QueueIInv, Data, Tokens, Uncounted, Positions, Announced, WriterPoints, ReaderPoints

\* What moving the front of the overflow into the queue does to both.
LEMMA PushFacts ==
  ASSUME Data, overflow # <<>>, NEW next, Push(next)
  PROVE  /\ queue' \in Seq(Nat) /\ Len(queue') = Len(queue) + 1 /\ Len(queue') <= Size
         /\ overflow' \in Seq(Nat) /\ wpc' = next
<1>1. Head(overflow) \in Nat /\ Tail(overflow) \in Seq(Nat)
  BY DEF Data
<1> QED
  BY <1>1, SizeAssumption DEF Data, Push

\* The steps of the writing thread keep items, tokens and announcements in agreement.
LEMMA WriterIInv == QueueIInv /\ (Write \/ SinkWritable \/ WriterStep) => QueueIInv'
<1> SUFFICES ASSUME QueueIInv, Write \/ SinkWritable \/ WriterStep PROVE QueueIInv'
  OBVIOUS
<1> DEFINE Pushed(next) ==
      /\ queue' \in Seq(Nat) /\ Len(queue') = Len(queue) + 1 /\ Len(queue') <= Size
      /\ overflow' \in Seq(Nat) /\ wpc' = next
<1>a. TryWrite /\ Push("sync") => Pushed("sync")
  BY PushFacts DEF TryWrite, QueueIInv, Positions
<1>b. RetryWrite /\ Push("restore") => Pushed("restore")
  BY PushFacts DEF RetryWrite, QueueIInv, Positions
<1> USE SizeAssumption, BatchAssumption, FlagAssumption
        DEF QueueIInv, Data, Tokens, Uncounted, Positions, Announced, WriterPoints, ReaderPoints, readerVars
<1>1. CASE Write
  BY <1>1 DEF Write
<1>2. CASE SinkWritable
  BY <1>2 DEF SinkWritable
<1>3. CASE TryWrite
  <2>1. CASE Push("sync")
    BY <1>3, <2>1, <1>a DEF TryWrite
  <2>2. CASE UNCHANGED <<queue, overflow>> /\ wpc' = "clear"
    BY <1>3, <2>2 DEF TryWrite
  <2> QED
    BY <1>3, <2>1, <2>2 DEF TryWrite
<1>4. CASE ClearWritable
  BY <1>4 DEF ClearWritable
<1>5. CASE RetryWrite
  <2>1. CASE Push("restore")
    BY <1>5, <2>1, <1>b DEF RetryWrite
  <2>2. CASE GiveUp
    BY <1>5, <2>2 DEF RetryWrite, GiveUp
  <2> QED
    BY <1>5, <2>1, <2>2 DEF RetryWrite
<1>6. CASE RestoreWritable
  BY <1>6 DEF RestoreWritable
<1>7. CASE SyncSize
  BY <1>7 DEF SyncSize, WriteDone
<1>8. CASE NotifyReader
  BY <1>8 DEF NotifyReader, WriteDone
<1> QED
  BY <1>1, <1>2, <1>3, <1>4, <1>5, <1>6, <1>7, <1>8 DEF WriterStep

\* The steps of the reading thread keep items, tokens and announcements in agreement.
LEMMA ReaderIInv == QueueIInv /\ (ReaderStep \/ Unblock) => QueueIInv'
<1> SUFFICES ASSUME QueueIInv, ReaderStep \/ Unblock PROVE QueueIInv'
  OBVIOUS
<1> USE SizeAssumption, BatchAssumption, FlagAssumption
        DEF QueueIInv, Data, Tokens, Uncounted, Positions, Announced, WriterPoints, ReaderPoints, writerVars
<1>1. CASE StartBatch
  BY <1>1 DEF StartBatch
<1>2. CASE Read
  BY <1>2 DEF Read
<1>3. CASE TakeAll
  BY <1>3 DEF TakeAll
<1>4. CASE TakeButOne
  BY <1>4 DEF TakeButOne
<1>5. CASE Pop
  BY <1>5 DEF Pop
<1>6. CASE SignalWriter
  BY <1>6 DEF SignalWriter
<1>7. CASE DrainOne
  BY <1>7 DEF DrainOne
<1>8. CASE CloseBatch
  <2>1. CASE batch >= MaxBatch \/ pending > 0 \/ delayed > 0
    BY <1>8, <2>1 DEF CloseBatch
  <2>2. CASE ~(batch >= MaxBatch \/ pending > 0 \/ delayed > 0)
    BY <1>8, <2>2 DEF CloseBatch
  <2> QED
    BY <2>1, <2>2
<1>9. CASE NotifySelf
  BY <1>9 DEF NotifySelf
<1>10. CASE Unblock
  BY <1>10 DEF Unblock
<1> QED
  BY <1>1, <1>2, <1>3, <1>4, <1>5, <1>6, <1>7, <1>8, <1>9, <1>10 DEF ReaderStep

\* Every step of either thread keeps the inductive invariant.
LEMMA QueueStepIInv == QueueIInv /\ [QueueNext]_queueVars => QueueIInv'
<1> SUFFICES ASSUME QueueIInv, [QueueNext]_queueVars PROVE QueueIInv'
  OBVIOUS
<1>1. CASE UNCHANGED queueVars
  BY <1>1 DEF QueueIInv, Data, Tokens, Uncounted, Positions, Announced, queueVars, writerVars, readerVars
<1> QED
  BY <1>1, WriterIInv, ReaderIInv DEF QueueNext

\* The inductive invariant of the queue always holds.
LEMMA QueueInvariantIInv == QueueSpec => [](Flags /\ QueueIInv)
  BY InitFlags, StepFlags, QueueInitIInv, QueueStepIInv, PTL DEF QueueSpec

\* The queue, its threads and its batches keep their types.
THEOREM QueueTypeCorrect == QueueSpec => []QueueTypeInv
<1>1. Flags /\ QueueIInv => QueueTypeInv
  BY TypeParts DEF QueueIInv
<1> QED
  BY <1>1, QueueInvariantIInv, PTL

\* A reader with tokens finds an item: the assertion in BatchedRead::Read.
THEOREM ReadSucceeds == QueueSpec => []ReadNeverFails
<1>1. QueueIInv => ReadNeverFails
  BY DEF QueueIInv, Data, Tokens, Uncounted, Positions, ReadNeverFails
<1> QED
  BY <1>1, QueueInvariantIInv, PTL

\* The reader never sleeps on a queue with items, whatever the batches.
THEOREM ReaderWoken == QueueSpec => []ReaderNotForgotten
<1>1. QueueIInv => ReaderNotForgotten
  BY DEF QueueIInv, Data, Tokens, Uncounted, Positions, Announced, ReaderNotForgotten, WriterPoints
<1> QED
  BY <1>1, QueueInvariantIInv, PTL

-----------------------------------------------------------------------------
(* Order.                                                                  *)

\* InOrder is inductive once the reader's hands are tied to its position.
QueueOInv == InOrder /\ (item = 0 <=> rpc \notin {"signal", "drain"})

\* Moving the first item of the overflow into the queue keeps the order of the items.
LEMMA PushInOrder ==
  ASSUME Data, InOrder, overflow # <<>>, NEW next, Push(next), UNCHANGED <<written, item, drained>>
  PROVE  InOrder'
<1> USE DEF Data, Push
<1>1. Len(queue') = Len(queue) + 1 /\ Len(overflow') = Len(overflow) - 1
  OBVIOUS
<1>2. Held' = Held /\ Held \in {0, 1}
  BY DEF Held
<1>3. ASSUME NEW i \in 1 .. Len(queue') PROVE queue'[i] = drained' + Held' + i
  <2>1. CASE i = Len(queue) + 1
    BY <1>1, <1>2, <2>1 DEF InOrder
  <2>2. CASE i \in 1 .. Len(queue)
    BY <1>1, <1>2, <2>2 DEF InOrder
  <2> QED
    BY <1>1, <2>1, <2>2
<1>4. ASSUME NEW i \in 1 .. Len(overflow')
      PROVE overflow'[i] = drained' + Held' + Len(queue') + i
  <2>1. i + 1 \in 1 .. Len(overflow) /\ overflow'[i] = overflow[i + 1]
    BY <1>1
  <2> QED
    BY <2>1, <1>1, <1>2 DEF InOrder
<1>5. written' = drained' + Held' + Len(queue') + Len(overflow')
  BY <1>1, <1>2 DEF InOrder
<1>6. item' # 0 => item' = drained' + 1
  BY DEF InOrder
<1> QED
  BY <1>3, <1>4, <1>5, <1>6 DEF InOrder

\* Every step keeps the items in the order of the writes.
LEMMA StepOInv == QueueIInv /\ QueueOInv /\ [QueueNext]_queueVars => QueueOInv'
<1> SUFFICES ASSUME QueueIInv, QueueOInv, [QueueNext]_queueVars PROVE QueueOInv'
  OBVIOUS
<1>d. Data /\ Positions
  BY DEF QueueIInv
<1> USE DEF QueueOInv
<1>1. CASE UNCHANGED <<queue, overflow, written, item, drained, rpc>>
  BY <1>1 DEF InOrder, Held
<1>2. CASE Write
  <2>1. /\ Len(overflow') = Len(overflow) + 1 /\ written' = written + 1
        /\ overflow'[Len(overflow) + 1] = written + 1
        /\ \A i \in 1 .. Len(overflow) : overflow'[i] = overflow[i]
        /\ UNCHANGED <<queue, item, drained, rpc>>
    BY <1>2, <1>d DEF Write, Data, readerVars
  <2>2. Held' = Held /\ Held \in {0, 1}
    BY <2>1 DEF Held
  <2>3. \A i \in 1 .. Len(overflow') : overflow'[i] = drained + Held + Len(queue) + i
    <3>1. written + 1 = drained + Held + Len(queue) + (Len(overflow) + 1)
      BY <1>d, <2>2 DEF InOrder, Data
    <3>2. ASSUME NEW i \in 1 .. Len(overflow')
          PROVE overflow'[i] = drained + Held + Len(queue) + i
      <4>1. CASE i = Len(overflow) + 1
        BY <4>1, <3>1, <2>1
      <4>2. CASE i \in 1 .. Len(overflow)
        BY <4>2, <2>1 DEF InOrder
      <4> QED
        BY <4>1, <4>2, <2>1, <1>d DEF Data
    <3> QED
      BY <3>2
  <2>4. written' = drained + Held + Len(queue) + Len(overflow')
    BY <2>1, <2>2, <1>d DEF InOrder, Data
  <2> QED
    BY <2>1, <2>2, <2>3, <2>4 DEF InOrder
<1>3. CASE TryWrite \/ RetryWrite
  <2>1. UNCHANGED <<written, item, drained, rpc>> /\ overflow # <<>>
    BY <1>3, <1>d DEF TryWrite, RetryWrite, readerVars, Positions
  <2>2. CASE UNCHANGED <<queue, overflow>>
    BY <2>1, <2>2, <1>1
  <2>3. ASSUME NEW next, Push(next) PROVE QueueOInv'
    BY <2>1, <2>3, <1>d, PushInOrder
  <2> QED
    BY <1>3, <2>2, <2>3 DEF TryWrite, RetryWrite, GiveUp
<1>4. CASE Pop
  <2>1. /\ queue # <<>> /\ item' = queue[1] /\ Len(queue') = Len(queue) - 1
        /\ \A i \in 1 .. Len(queue') : queue'[i] = queue[i + 1]
    BY <1>4, <1>d DEF Pop, Data
  <2>2. item = 0 /\ rpc' \in {"signal", "drain"} /\ UNCHANGED <<overflow, written, drained>>
    BY <1>4 DEF Pop, writerVars
  <2>3. item' = drained + 1 /\ item' # 0
    BY <2>1, <2>2, <1>d DEF InOrder, Held, Data
  <2>4. \A i \in 1 .. Len(queue') : queue'[i] = drained + 1 + i
    BY <2>1, <2>2, <1>d DEF InOrder, Held, Data
  <2> QED
    BY <2>1, <2>2, <2>3, <2>4, <1>d DEF InOrder, Held, Data
<1>5. CASE DrainOne
  <2>1. item # 0 /\ item' = 0 /\ drained' = drained + 1 /\ rpc' \in {"read", "close"}
        /\ UNCHANGED <<queue, overflow, written>>
    BY <1>5 DEF DrainOne, writerVars
  <2> QED
    BY <2>1, <1>d DEF InOrder, Held, Data
<1>6. CASE StartBatch \/ Read \/ TakeAll \/ TakeButOne
  BY <1>6, <1>d DEF StartBatch, Read, TakeAll, TakeButOne, InOrder, Held, writerVars
<1>7. CASE SignalWriter \/ CloseBatch \/ NotifySelf \/ Unblock
  BY <1>7, <1>d DEF SignalWriter, CloseBatch, NotifySelf, Unblock, InOrder, Held, writerVars
<1>8. CASE SinkWritable \/ ClearWritable \/ RestoreWritable \/ SyncSize \/ NotifyReader
  BY <1>1, <1>8 DEF SinkWritable, ClearWritable, RestoreWritable, SyncSize, NotifyReader, WriteDone, readerVars
<1>9. CASE UNCHANGED queueVars
  BY <1>1, <1>9 DEF queueVars, writerVars, readerVars
<1> QED
  BY <1>2, <1>3, <1>4, <1>5, <1>6, <1>7, <1>8, <1>9 DEF QueueNext, WriterStep, ReaderStep

\* Items are delivered in the order they were written, none lost or repeated.
THEOREM FirstInFirstOut == QueueSpec => []InOrder
<1>1. QueueInit => QueueOInv
  BY DEF QueueInit, QueueOInv, InOrder, Held
<1>2. QueueOInv => InOrder
  BY DEF QueueOInv
<1> QED
  BY <1>1, <1>2, QueueInvariantIInv, StepOInv, PTL DEF QueueSpec

-----------------------------------------------------------------------------
(* The writer's wake-up, for queues of at most three items.                *)

\* The write notification is not lost while the writer is in TryWrite either.
QueueWInv ==
  writeEvent /\ writeReady = 0 =>
    queue # <<>> \/ rpc = "signal" \/ wpc \in {"retry", "restore"}

\* In a queue of at most three items every step keeps a writer that gave up on the way to its notification.
LEMMA StepWInv == Size <= 3 /\ QueueIInv /\ QueueWInv /\ [QueueNext]_queueVars => QueueWInv'
<1> SUFFICES ASSUME Size <= 3, QueueIInv, QueueWInv, [QueueNext]_queueVars PROVE QueueWInv'
  OBVIOUS
<1>d. Data /\ Positions /\ Tokens
  BY DEF QueueIInv
<1> USE SizeAssumption DEF QueueWInv
<1>1. CASE TryWrite \/ RetryWrite
  <2>1. ASSUME NEW next, Push(next) PROVE queue' # <<>>
    <3>1. overflow # <<>>
      BY <1>1, <1>d DEF TryWrite, RetryWrite, Positions
    <3>2. Len(queue') = Len(queue) + 1
      BY <2>1, <3>1, <1>d, PushFacts
    <3> QED
      BY <3>2, <1>d DEF Data
  <2>2. CASE GiveUp /\ Len(queue) = Size
    BY <2>2, <1>d DEF GiveUp, Data
  <2>3. CASE TryWrite /\ UNCHANGED <<queue, writeEvent>>
    BY <2>3 DEF TryWrite, readerVars
  <2> QED
    BY <1>1, <2>1, <2>2, <2>3 DEF TryWrite, RetryWrite
<1>2. CASE Pop
  <2>1. Len(queue') = Len(queue) - 1 /\ queue' \in Seq(Nat) /\ UNCHANGED <<writeEvent, writeReady, wpc>>
    BY <1>2, <1>d DEF Pop, Data, writerVars
  <2>2. CASE Len(queue) > 1
    BY <2>1, <2>2, <1>d DEF Data
  <2>3. CASE Len(queue) <= 1
    <3>1. pending = 1
      BY <1>2, <1>d, <2>3 DEF Pop, Data, Positions, Tokens, Uncounted
    <3>2. Size = 1 \/ Size \div 2 = 1
      <4>1. Size = 1 \/ Size = 2 \/ Size = 3
        OBVIOUS
      <4>2. 2 \div 2 = 1 /\ 3 \div 2 = 1
        OBVIOUS
      <4> QED
        BY <4>1, <4>2
    <3> QED
      BY <1>2, <3>1, <3>2 DEF Pop, SignalsWriter
  <2> QED
    BY <2>2, <2>3, <1>d DEF Data
<1>3. ASSUME UNCHANGED <<queue, writeEvent, writeReady>>, wpc \notin {"retry", "restore"},
             rpc' = rpc \/ rpc # "signal"
      PROVE  QueueWInv'
  BY <1>3, Zenon
<1>4. CASE Write \/ SyncSize \/ NotifyReader
  BY <1>3, <1>4 DEF Write, SyncSize, NotifyReader, readerVars
<1>5. CASE SinkWritable \/ ClearWritable \/ RestoreWritable \/ SignalWriter
  BY <1>5 DEF SinkWritable, ClearWritable, RestoreWritable, SignalWriter
<1>6. ASSUME UNCHANGED <<queue, writeEvent, writeReady, wpc>>, rpc' = rpc \/ rpc # "signal"
      PROVE  QueueWInv'
  BY <1>6, Zenon
<1>7. CASE StartBatch \/ Read \/ TakeAll \/ TakeButOne \/ DrainOne \/ CloseBatch \/ NotifySelf \/ Unblock
  BY <1>6, <1>7 DEF StartBatch, Read, TakeAll, TakeButOne, DrainOne, CloseBatch, NotifySelf, Unblock, writerVars
<1>8. CASE UNCHANGED queueVars
  BY <1>6, <1>8 DEF queueVars, writerVars, readerVars
<1> QED
  BY <1>1, <1>2, <1>4, <1>5, <1>7, <1>8 DEF QueueNext, WriterStep, ReaderStep

\* Up to three items the writer is never forgotten; from four on it can be.
THEOREM SmallQueueWriterWoken == ASSUME Size <= 3 PROVE QueueSpec => []WriterNotForgotten
<1>1. QueueInit => QueueWInv
  BY DEF QueueInit, QueueWInv
<1>2. QueueIInv /\ QueueWInv /\ [QueueNext]_queueVars => QueueWInv'
  BY StepWInv
<1>3. QueueWInv => WriterNotForgotten
  BY DEF QueueWInv, WriterNotForgotten
<1> QED
  BY <1>1, <1>2, <1>3, QueueInvariantIInv, PTL DEF QueueSpec
\* What queues.h promises its two threads, of every size and batch: the four
\* theorems above.
THEOREM QueueAlwaysSafe == QueueSpec => []QueueSafe
  BY QueueTypeCorrect, ReadSucceeds, ReaderWoken, FirstInFirstOut, PTL DEF QueueSafe

------------------------------------------------------------------------------
(* FlowControl.                                                              *)

\* Reads happen for registered sources only, and so does blocking.
Registered ==
  /\ enabled \subseteq registered
  /\ \A s \in Sources : blockers[s] # {} => s \in registered
  /\ running \in registered \cup {None, NoSource}

FlowInv == /\ FlowTypeInv /\ TablesMatch /\ ReadUnlessBlocked /\ BlockingSinkWaits
        /\ Registered /\ blockedList = {s \in Sources : blockers[s] # {}}

\* Flow control starts without sources, blockers and backpressure.
LEMMA FlowInitIInv == FlowInit => FlowInv
  BY WritesAssumption DEF FlowInit, FlowInv, FlowTypeInv, TablesMatch, ReadUnlessBlocked, BlockingSinkWaits, Registered

\* Lifting the backpressure of k keeps everything but the claim on k's event.
LEMMA RemoveKeeps ==
  ASSUME FlowInv, NEW k \in Sinks, RemoveBackpressure(k),
         sinkEvent' = sinkEvent \ {k}, UNCHANGED <<registered, flow>>
  PROVE  FlowInv'
<1> USE DEF FlowInv, FlowTypeInv
<1>1. /\ blockers' \in [Sources -> SUBSET Sinks] /\ backpressure' \in [Sinks -> SUBSET Sources]
      /\ \A s \in Sources : blockers'[s] = blockers[s] \ {k}
      /\ \A j \in Sinks : backpressure'[j] = IF j = k THEN {} ELSE backpressure[j]
  BY DEF RemoveBackpressure, TablesMatch
<1>2. FlowTypeInv'
  BY <1>1 DEF RemoveBackpressure, flow
<1>3. TablesMatch'
  BY <1>1 DEF TablesMatch
<1>4. ReadUnlessBlocked' /\ Registered' /\ blockedList' = {s \in Sources : blockers'[s] # {}}
  <2>1. \A s \in Sources : s \in enabled' <=> s \in enabled \/ (blockers[s] # {} /\ blockers'[s] = {})
    BY <1>1 DEF RemoveBackpressure, TablesMatch
  <2>2. \A s \in Sources : s \in blockedList' <=> s \in blockedList /\ ~(blockers[s] # {} /\ blockers'[s] = {})
    BY <1>1 DEF RemoveBackpressure, TablesMatch
  <2>3. ReadUnlessBlocked'
    BY <1>1, <2>1 DEF ReadUnlessBlocked, Registered
  <2>4. Registered'
    BY <1>1, <1>2, <2>1 DEF Registered, flow
  <2>5. blockedList' = {s \in Sources : blockers'[s] # {}}
    BY <1>1, <1>2, <2>2
  <2> QED
    BY <2>3, <2>4, <2>5
<1>5. BlockingSinkWaits'
  BY <1>1 DEF BlockingSinkWaits
<1> QED
  BY <1>2, <1>3, <1>4, <1>5

\* A write of a flow blocks its source together with the sink that was full, or changes nothing.
LEMMA WriteKeeps == ASSUME FlowInv, NEW k \in Sinks, FlowWrite(k) PROVE FlowInv'
<1> USE WritesAssumption, RunningAssumption DEF FlowInv, FlowTypeInv
<1>1. running' = running /\ registered' = registered /\ writes' \in 0 .. MaxWrites
  BY DEF FlowWrite
<1>2. CASE UNCHANGED <<enabled, blockers, backpressure, sinkEvent, blockedList>>
  BY <1>1, <1>2 DEF TablesMatch, ReadUnlessBlocked, BlockingSinkWaits, Registered
<1>3. CASE UNCHANGED <<enabled, blockers, backpressure, blockedList>> /\ sinkEvent' = sinkEvent \cup {k}
  BY <1>1, <1>3 DEF TablesMatch, ReadUnlessBlocked, BlockingSinkWaits, Registered
<1>4. CASE running \in Sources /\ ApplyBackpressure(k, running) /\ sinkEvent' = sinkEvent \cup {k}
  <2> DEFINE s0 == running
  <2>1. /\ blockers' \in [Sources -> SUBSET Sinks] /\ backpressure' \in [Sinks -> SUBSET Sources]
        /\ \A s \in Sources : blockers'[s] = IF s = s0 THEN blockers[s] \cup {k} ELSE blockers[s]
        /\ \A j \in Sinks : backpressure'[j] = IF j = k THEN backpressure[j] \cup {s0} ELSE backpressure[j]
        /\ enabled' = enabled \ {s0} /\ blockedList' = blockedList \cup {s0}
    BY <1>4 DEF ApplyBackpressure
  <2>2. FlowTypeInv'
    BY <1>1, <1>4, <2>1
  <2>3. TablesMatch' /\ ReadUnlessBlocked' /\ BlockingSinkWaits' /\ Registered'
    BY <1>1, <1>4, <2>1 DEF TablesMatch, ReadUnlessBlocked, BlockingSinkWaits, Registered
  <2>4. blockedList' = {s \in Sources : blockers'[s] # {}}
    BY <1>4, <2>1
  <2> QED
    BY <2>2, <2>3, <2>4
<1> QED
  BY <1>2, <1>3, <1>4 DEF FlowWrite

\* A source that goes away is taken out of the tables of all the sinks that block it.
LEMMA UnregisterKeeps == ASSUME FlowInv, NEW s \in Sources, UnregisterSource(s) PROVE FlowInv'
<1> USE DEF FlowInv, FlowTypeInv
<1>1. /\ blockers' \in [Sources -> SUBSET Sinks] /\ backpressure' \in [Sinks -> SUBSET Sources]
      /\ \A r \in Sources : blockers'[r] = IF r = s THEN {} ELSE blockers[r]
      /\ \A k \in Sinks : backpressure'[k] = backpressure[k] \ {s}
      /\ registered' = registered \ {s} /\ enabled' = enabled \ {s} /\ blockedList' = blockedList \ {s}
      /\ sinkEvent' = sinkEvent /\ running' = running /\ writes' = writes /\ s # running
  BY DEF UnregisterSource, Forget, TablesMatch, flow
<1>2. FlowTypeInv'
  BY <1>1
<1>3. TablesMatch' /\ ReadUnlessBlocked' /\ BlockingSinkWaits' /\ Registered'
  BY <1>1 DEF TablesMatch, ReadUnlessBlocked, BlockingSinkWaits, Registered
<1>4. blockedList' = {r \in Sources : blockers'[r] # {}}
  BY <1>1
<1> QED
  BY <1>2, <1>3, <1>4

\* Every step of flow control keeps its tables in agreement.
LEMMA FlowStepIInv == FlowInv /\ [FlowNext]_flowVars => FlowInv'
<1> SUFFICES ASSUME FlowInv, [FlowNext]_flowVars PROVE FlowInv'
  OBVIOUS
<1> USE WritesAssumption, RunningAssumption
<1>1. ASSUME NEW s \in Sources, Register(s) PROVE FlowInv'
  BY <1>1 DEF Register, FlowInv, FlowTypeInv, TablesMatch, ReadUnlessBlocked, BlockingSinkWaits, Registered, flow
<1>2. ASSUME NEW s \in Sources \cup {NoSource}, StartHandler(s) PROVE FlowInv'
  BY <1>2 DEF StartHandler, FlowInv, FlowTypeInv, TablesMatch, ReadUnlessBlocked, BlockingSinkWaits, Registered
<1>3. CASE EndHandler
  BY <1>3 DEF EndHandler, FlowInv, FlowTypeInv, TablesMatch, ReadUnlessBlocked, BlockingSinkWaits, Registered
<1>4. ASSUME NEW k \in Sinks, SinkFlushed(k) \/ UnregisterSink(k) PROVE FlowInv'
  BY <1>4, RemoveKeeps DEF SinkFlushed, UnregisterSink
<1>5. CASE UNCHANGED flowVars
  BY <1>5 DEF flowVars, flow, FlowInv, FlowTypeInv, TablesMatch, ReadUnlessBlocked, BlockingSinkWaits, Registered
<1>6. ASSUME NEW k \in Sinks, SinkStillFull(k) PROVE FlowInv'
  BY <1>5, <1>6 DEF SinkStillFull
<1> QED
  BY <1>1, <1>2, <1>3, <1>4, <1>5, <1>6, WriteKeeps, UnregisterKeeps DEF FlowNext

\* The tables of flow control always agree.
LEMMA FlowInvariantIInv == FlowSpec => []FlowInv
  BY FlowInitIInv, FlowStepIInv, PTL DEF FlowSpec

\* The tables of flow control keep their types.
THEOREM FlowTypeCorrect == FlowSpec => []FlowTypeInv
<1>1. FlowInv => FlowTypeInv
  BY DEF FlowInv
<1> QED
  BY <1>1, FlowInvariantIInv, PTL

\* The assertions of RemoveBackpressure and UnregisterSource cannot fail.
THEOREM TablesAlwaysMatch == FlowSpec => []TablesMatch
<1>1. FlowInv => TablesMatch
  BY DEF FlowInv
<1> QED
  BY <1>1, FlowInvariantIInv, PTL

\* A source is read exactly when nothing blocks it, and what blocks it waits
\* for its write event: backpressure neither leaks nor gets stuck.
THEOREM BackpressureExact == FlowSpec => [](ReadUnlessBlocked /\ BlockingSinkWaits /\ NoDanglingSource)
<1>1. FlowInv => ReadUnlessBlocked /\ BlockingSinkWaits /\ NoDanglingSource
  BY DEF FlowInv, NoDanglingSource, Registered, TablesMatch, FlowTypeInv
<1> QED
  BY <1>1, FlowInvariantIInv, PTL
\* What flow_control.h promises of any number of sources and sinks.
THEOREM FlowAlwaysSafe == FlowSpec => []FlowSafe
  BY FlowTypeCorrect, TablesAlwaysMatch, BackpressureExact, PTL DEF FlowSafe

------------------------------------------------------------------------------
(* EventTriggers.                                                            *)

\* The invariants hold together: the ready set is kept by way of the filing.
TriggersInv == TriggersTypeInv /\ FiledUnderTrigger /\ ReadyExact /\ NoLostWakeup

\* An event loop starts with no callback, nothing filed and nothing notified.
LEMMA TriggersInitIInv == TriggersInit => TriggersInv
<1> SUFFICES ASSUME TriggersInit PROVE TriggersInv
  OBVIOUS
<1>1. attempts \in 0 .. Attempts
  BY AttemptsAssumption DEF TriggersInit
<1>2. TriggersTypeInv
  BY <1>1 DEF TriggersInit, TriggersTypeInv, Exists
<1>3. FiledUnderTrigger /\ ReadyExact /\ NoLostWakeup
  BY DEF TriggersInit, FiledUnderTrigger, ReadyExact, NoLostWakeup
<1> QED
  BY <1>2, <1>3 DEF TriggersInv

\* What changing one callback's entry in the filing does.
LEMMA Refiled ==
  ASSUME TriggersTypeInv, NEW cb \in Exists, NEW S \in SUBSET Callbacks,
         filed' = [filed EXCEPT ![bound[cb]] = S]
  PROVE  /\ filed' \in [Triggers -> SUBSET Callbacks]
         /\ \A t \in Triggers : filed'[t] = IF t = bound[cb] THEN S ELSE filed[t]
  BY DEF TriggersTypeInv, Exists

\* Enabling a callback files it under its trigger and makes it ready if that is notified.
LEMMA EnableKeeps == ASSUME TriggersInv, NEW cb \in Callbacks, Enable(cb) PROVE TriggersInv'
<1> USE DEF TriggersInv
<1>1. cb \in Exists /\ bound' = bound /\ notified' = notified /\ enabledCallbacks' = enabledCallbacks \cup {cb}
  BY DEF Enable
<1>2. TriggersTypeInv'
  BY <1>1, Refiled, filed[bound[cb]] \cup {cb} \in SUBSET Callbacks DEF Enable, TriggersTypeInv, Exists, loop
<1>3. FiledUnderTrigger'
  BY <1>1, Refiled, filed[bound[cb]] \cup {cb} \in SUBSET Callbacks
     DEF Enable, TriggersTypeInv, Exists, FiledUnderTrigger
<1>4. ReadyExact' /\ NoLostWakeup'
  BY <1>1 DEF Enable, ReadyExact, NoLostWakeup
<1> QED
  BY <1>2, <1>3, <1>4

\* Disabling a callback takes it out of the filing and of the ready set.
LEMMA DisableKeeps == ASSUME TriggersInv, NEW cb \in Callbacks, Disable(cb) PROVE TriggersInv'
<1> USE DEF TriggersInv
<1>1. cb \in Exists /\ bound' = bound /\ notified' = notified /\ enabledCallbacks' = enabledCallbacks \ {cb} /\ fd' = fd
  BY DEF Disable
<1>2. TriggersTypeInv'
  BY <1>1, Refiled, filed[bound[cb]] \ {cb} \in SUBSET Callbacks DEF Disable, TriggersTypeInv, Exists, loop
<1>3. FiledUnderTrigger'
  BY <1>1, Refiled, filed[bound[cb]] \ {cb} \in SUBSET Callbacks
     DEF Disable, TriggersTypeInv, Exists, FiledUnderTrigger
<1>4. ReadyExact' /\ NoLostWakeup'
  BY <1>1 DEF Disable, ReadyExact, NoLostWakeup, loop
<1> QED
  BY <1>2, <1>3, <1>4

\* Destroying a callback leaves no trace of it under its trigger.
LEMMA CloseKeeps == ASSUME TriggersInv, NEW cb \in Callbacks, Close(cb) PROVE TriggersInv'
<1> USE DEF TriggersInv
<1>1. /\ cb \in Exists /\ notified' = notified /\ enabledCallbacks' = enabledCallbacks \ {cb} /\ fd' = fd
      /\ bound' \in [Callbacks -> Triggers \cup {NoTrigger}]
      /\ \A d \in Callbacks : bound'[d] = IF d = cb THEN NoTrigger ELSE bound[d]
  BY DEF Close, TriggersTypeInv
<1>2. TriggersTypeInv'
  BY <1>1, Refiled, filed[bound[cb]] \ {cb} \in SUBSET Callbacks DEF Close, TriggersTypeInv, Exists, loop
<1>3. FiledUnderTrigger'
  BY <1>1, <1>2, Refiled, filed[bound[cb]] \ {cb} \in SUBSET Callbacks
     DEF Close, TriggersTypeInv, Exists, FiledUnderTrigger
<1>4. ReadyExact' /\ NoLostWakeup'
  BY <1>1 DEF Close, ReadyExact, NoLostWakeup, loop, TriggersTypeInv, Exists
<1> QED
  BY <1>2, <1>3, <1>4

\* Notifying and unnotifying a trigger moves exactly its enabled callbacks.
LEMMA NotifyKeeps == ASSUME TriggersInv, NEW t \in Triggers, Notify(t) \/ Unnotify(t) PROVE TriggersInv'
<1> USE DEF TriggersInv
<1>1. TriggersTypeInv'
  BY DEF Notify, Unnotify, TriggersTypeInv, Exists, loop
<1>2. FiledUnderTrigger'
  BY DEF Notify, Unnotify, FiledUnderTrigger
<1>3. ReadyExact'
  BY DEF Notify, Unnotify, ReadyExact, FiledUnderTrigger, TriggersTypeInv
<1>4. NoLostWakeup'
  BY DEF Notify, Unnotify, NoLostWakeup, loop
<1> QED
  BY <1>1, <1>2, <1>3, <1>4

\* A new callback is bound to its trigger before it can be notified.
LEMMA CreateKeeps ==
  ASSUME TriggersInv, NEW cb \in Callbacks, NEW t \in Triggers, CreateEventCallback(cb, t) PROVE TriggersInv'
<1> USE DEF TriggersInv
<1>1. /\ bound' \in [Callbacks -> Triggers \cup {NoTrigger}] /\ cb \notin enabledCallbacks
      /\ \A d \in Callbacks : bound'[d] = IF d = cb THEN t ELSE bound[d]
  BY DEF CreateEventCallback, TriggersTypeInv, Exists
<1> QED
  BY <1>1, TriggerAssumption
     DEF CreateEventCallback, TriggersTypeInv, Exists, FiledUnderTrigger, ReadyExact, NoLostWakeup, loop

\* Waking, invoking, returning and sleeping keep the tables (HandlePendingTriggers).
LEMMA HandleKeeps ==
  ASSUME TriggersInv, Wake \/ Return \/ Sleep \/ \E cb \in Callbacks : Invoke(cb) PROVE TriggersInv'
<1> USE DEF TriggersInv
<1>1. UNCHANGED tables
  BY DEF Wake, Return, Sleep, Invoke
<1>2. TriggersTypeInv'
  <2>1. attempts' \in 0 .. Attempts
    BY AttemptsAssumption DEF Wake, Return, Sleep, Invoke, TriggersTypeInv
  <2>2. /\ fd' \in BOOLEAN /\ pc' \in {"poll", "handle"} /\ invoked' \in Callbacks \cup {NoCallback}
        /\ invoked' # NoCallback => pc' = "handle"
    BY CallbackAssumption DEF Wake, Return, Sleep, Invoke, TriggersTypeInv
  <2> QED
    BY <1>1, <2>1, <2>2 DEF TriggersTypeInv, Exists, tables
<1>3. FiledUnderTrigger' /\ ReadyExact'
  BY <1>1 DEF FiledUnderTrigger, ReadyExact, tables
<1>4. NoLostWakeup'
  BY <1>1, CallbackAssumption DEF Wake, Return, Sleep, Invoke, NoLostWakeup, TriggersTypeInv, tables
<1> QED
  BY <1>2, <1>3, <1>4

\* Every step of the event loop keeps the tables of the triggers.
LEMMA TriggersInductive == TriggersInv /\ [TriggersNext]_triggersVars => TriggersInv'
<1> SUFFICES ASSUME TriggersInv, [TriggersNext]_triggersVars PROVE TriggersInv'
  OBVIOUS
<1>1. CASE UNCHANGED triggersVars
  BY <1>1 DEF triggersVars, tables, loop, TriggersInv, TriggersTypeInv, Exists, FiledUnderTrigger, ReadyExact, NoLostWakeup
<1>2. CASE TriggersNext
  BY <1>2, EnableKeeps, DisableKeeps, CloseKeeps, NotifyKeeps, CreateKeeps, HandleKeeps DEF TriggersNext
<1> QED
  BY <1>1, <1>2

\* The tables of the triggers keep their types under every use of them.
THEOREM TriggersTypeCorrect == TriggersSpec => []TriggersTypeInv
  BY TriggersInitIInv, TriggersInductive, PTL DEF TriggersSpec, TriggersInv

\* HandlePendingTriggers only ever picks enabled callbacks of notified
\* triggers, and Notify and Unnotify find exactly the enabled ones.
THEOREM ReadyAlwaysExact == TriggersSpec => [](ReadyExact /\ FiledUnderTrigger)
  BY TriggersInitIInv, TriggersInductive, PTL DEF TriggersSpec, TriggersInv

\* The event loop never sleeps on a clear eventfd with a callback ready.
THEOREM WakeupNeverLost == TriggersSpec => []NoLostWakeup
  BY TriggersInitIInv, TriggersInductive, PTL DEF TriggersSpec, TriggersInv
\* What the event loop promises of any number of triggers and callbacks.
THEOREM TriggersAlwaysSafe == TriggersSpec => []TriggersSafe
  BY TriggersTypeCorrect, ReadyAlwaysExact, WakeupNeverLost, PTL DEF TriggersSafe
==============================================================================
