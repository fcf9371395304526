----------------------------- MODULE SPSCQueue -----------------------------
(***************************************************************************)
(* messages/queues.h: the bounded single-producer single-consumer queue    *)
(* between two event loop threads, at the granularity of its atomic steps. *)
(* The writer is a Sink with overflow under the flow control of its event  *)
(* loop (util/common/flow.h, messages/flow_control.h) or, with UsesFlow =  *)
(* FALSE, a thread that calls Sink::Write by itself, as the copilot does.  *)
(* The reader is a Source: its flow control stops a batch when the sinks   *)
(* it feeds are full and disables the read event until they drain.         *)
(* The counter of an eventfd is cut off at one: only zero or not matters.  *)
(***************************************************************************)
EXTENDS Integers, Sequences

CONSTANTS Size,      \* capacity of the queue
          MaxBatch,  \* kMaxQueueBatchReadSize
          MaxItems,  \* bound on the number of items ever written
          UsesFlow,  \* the writer writes through Flow::Write
          ReaderMayBlock  \* the reader's own sinks may overflow

ASSUME SizeAssumption == Size \in Nat \ {0}
ASSUME BatchAssumption == MaxBatch \in Nat \ {0}
ASSUME ItemsAssumption == MaxItems \in Nat
ASSUME FlagAssumption == UsesFlow \in BOOLEAN /\ ReaderMayBlock \in BOOLEAN

VARIABLES queue,       \* folly::ProducerConsumerQueue: items in the queue
          synced,      \* synced_size_
          readReady,   \* read_ready_fd_
          writeReady,  \* write_ready_fd_
          overflow,    \* SinkWithOverflow::overflow_
          written,     \* number of items given to Sink::Write, items are 1, 2, ...
          wpc,         \* writer thread: where it is in TryWrite
          flushing,    \* writer thread: in the write event callback, not in Write
          writeEvent,  \* the write event of the sink is enabled
          blocked,     \* the writer's source is under backpressure of this sink
          pending,     \* BatchedRead::pending_reads_
          delayed,     \* BatchedRead::delayed_reads_
          batch,       \* BatchedRead::commands_read_
          rpc,         \* reader thread: where it is in Drain
          item,        \* item read and not yet given to the callback, 0 = none
          readEnabled, \* the read event of the source is enabled
          drained      \* number of items given to the reader's callback

writerVars == <<overflow, written, wpc, flushing, writeEvent, blocked>>
readerVars == <<pending, delayed, batch, rpc, item, readEnabled, drained>>
queueVars == <<queue, synced, readReady, writeReady, writerVars, readerVars>>

WriterPoints == {"idle", "write", "clear", "retry", "restore", "sync", "notify"}
ReaderPoints == {"wait", "read", "take0", "take1", "pop", "signal", "drain", "close", "renotify"}

QueueInit ==
  /\ queue = <<>> /\ synced = 0 /\ readReady = 0 /\ writeReady = 0
  /\ overflow = <<>> /\ written = 0 /\ wpc = "idle" /\ flushing = FALSE
  /\ writeEvent = FALSE /\ blocked = FALSE
  /\ pending = 0 /\ delayed = 0 /\ batch = 0 /\ rpc = "wait" /\ item = 0
  /\ readEnabled = TRUE /\ drained = 0

-----------------------------------------------------------------------------
(* The writer thread.                                                      *)

\* SinkWithOverflow::Write flushes the overflow and then tries the new item,
\* which joins the overflow if either fails: the same as to join it first.
Write ==
  /\ wpc = "idle" /\ written < MaxItems
  /\ written' = written + 1
  /\ overflow' = Append(overflow, written + 1)
  /\ wpc' = "write" /\ flushing' = FALSE
  /\ UNCHANGED <<queue, synced, readReady, writeReady, writeEvent, blocked, readerVars>>

\* The callback of GetSinkWriteEvent: disables its event and flushes.
SinkWritable ==
  /\ wpc = "idle" /\ writeEvent /\ writeReady = 1
  /\ writeEvent' = FALSE
  /\ IF overflow = <<>>
       THEN blocked' = FALSE /\ UNCHANGED <<wpc, flushing>>
       ELSE wpc' = "write" /\ flushing' = TRUE /\ UNCHANGED blocked
  /\ UNCHANGED <<queue, synced, readReady, writeReady, overflow, written, readerVars>>

\* Mutant: the callback of the write event forgets to enable it again.
GiveUpForGood ==
  /\ wpc' = "idle" /\ flushing' = FALSE
  /\ writeEvent' = (UsesFlow /\ ~flushing)
  /\ blocked' = UsesFlow
  /\ UNCHANGED <<queue, overflow>>

\* TryWrite gives up: FlowControl applies backpressure and enables the event.
GiveUp ==
  /\ wpc' = "idle" /\ flushing' = FALSE
  /\ writeEvent' = UsesFlow
  /\ blocked' = UsesFlow
  /\ UNCHANGED <<queue, overflow>>

\* folly::ProducerConsumerQueue::write of the item at the front of the overflow.
Push(next) ==
  /\ Len(queue) < Size
  /\ queue' = Append(queue, Head(overflow))
  /\ overflow' = Tail(overflow)
  /\ wpc' = next
  /\ UNCHANGED <<flushing, writeEvent, blocked>>

TryWrite ==
  /\ wpc = "write"
  /\ \/ Push("sync")
     \/ /\ Len(queue) = Size
        /\ wpc' = "clear"
        /\ UNCHANGED <<queue, overflow, flushing, writeEvent, blocked>>
  /\ UNCHANGED <<synced, readReady, writeReady, written, readerVars>>

ClearWritable ==
  /\ wpc = "clear"
  /\ writeReady' = 0
  /\ wpc' = "retry"
  /\ UNCHANGED <<queue, synced, readReady, overflow, written, flushing, writeEvent, blocked,
                 readerVars>>

RetryWrite ==
  /\ wpc = "retry"
  /\ \/ Push("restore")
     \/ Len(queue) = Size /\ GiveUp
  /\ UNCHANGED <<synced, readReady, writeReady, written, readerVars>>

RestoreWritable ==
  /\ wpc = "restore"
  /\ writeReady' = 1
  /\ wpc' = "sync"
  /\ UNCHANGED <<queue, synced, readReady, overflow, written, flushing, writeEvent, blocked,
                 readerVars>>

\* TryWrite has succeeded: FlushPending goes on, or the call returns true.
WriteDone ==
  IF overflow # <<>>
    THEN wpc' = "write" /\ UNCHANGED <<flushing, blocked>>
    ELSE /\ wpc' = "idle" /\ flushing' = FALSE
         /\ blocked' = (blocked /\ ~flushing)

SyncSize ==
  /\ wpc = "sync"
  /\ synced' = synced + 1
  /\ IF synced = 0 THEN wpc' = "notify" /\ UNCHANGED <<flushing, blocked>> ELSE WriteDone
  /\ UNCHANGED <<queue, readReady, writeReady, overflow, written, writeEvent, readerVars>>

NotifyReader ==
  /\ wpc = "notify"
  /\ readReady' = 1
  /\ WriteDone
  /\ UNCHANGED <<queue, synced, writeReady, overflow, written, writeEvent, readerVars>>

WriterStep == TryWrite \/ ClearWritable \/ RetryWrite \/ RestoreWritable \/ SyncSize \/ NotifyReader

-----------------------------------------------------------------------------
(* The reader thread.                                                      *)

\* The read event fires: Drain constructs the BatchedRead.
StartBatch ==
  /\ rpc = "wait" /\ readEnabled /\ readReady = 1
  /\ readReady' = 0
  /\ pending' = 0 /\ delayed' = 0 /\ batch' = 0
  /\ rpc' = "read"
  /\ UNCHANGED <<queue, synced, writeReady, writerVars, item, readEnabled, drained>>

\* BatchedRead::Read up to the load of synced_size_.
Read ==
  /\ rpc = "read"
  /\ rpc' = IF batch >= MaxBatch THEN "close"
            ELSE IF pending > 0 THEN "pop"
            ELSE IF synced = 0 THEN "close"
            ELSE IF synced = 1 THEN "take0" ELSE "take1"
  /\ delayed' = IF rpc' = "take0" \/ (rpc' = "close" /\ batch < MaxBatch) THEN 0 ELSE delayed
  /\ UNCHANGED <<queue, synced, readReady, writeReady, writerVars, pending, batch, item,
                 readEnabled, drained>>

\* synced_size_.exchange(0): takes what the writer added since the load too.
TakeAll ==
  /\ rpc = "take0"
  /\ pending' = synced /\ synced' = 0
  /\ rpc' = "pop"
  /\ UNCHANGED <<queue, readReady, writeReady, writerVars, delayed, batch, item, readEnabled,
                 drained>>

\* Mutant: the token left in synced_size_ is also counted as pending.
TakeButOneTwice ==
  /\ rpc = "take1"
  /\ pending' = synced /\ synced' = 1 /\ delayed' = 1
  /\ rpc' = "pop"
  /\ UNCHANGED <<queue, readReady, writeReady, writerVars, batch, item, readEnabled, drained>>

\* synced_size_.exchange(1): leaves one, so that the writer does not notify.
TakeButOne ==
  /\ rpc = "take1"
  /\ pending' = synced - 1 /\ synced' = 1 /\ delayed' = 1
  /\ rpc' = "pop"
  /\ UNCHANGED <<queue, readReady, writeReady, writerVars, batch, item, readEnabled, drained>>

\* Mutant: the comparison without the adjustment by one.
SignalsWriterUnadjusted(p) == Size = 1 \/ p - 1 = Size \div 2

\* BatchedRead::Read raises write_ready_fd_ after a read with p reads pending.
SignalsWriter(p) == Size = 1 \/ p = Size \div 2

Pop ==
  /\ rpc = "pop"
  /\ queue # <<>>
  /\ item' = Head(queue) /\ queue' = Tail(queue)
  /\ pending' = pending - 1 /\ batch' = batch + 1
  /\ rpc' = IF SignalsWriter(pending) THEN "signal" ELSE "drain"
  /\ UNCHANGED <<synced, readReady, writeReady, writerVars, delayed, readEnabled, drained>>

SignalWriter ==
  /\ rpc = "signal"
  /\ writeReady' = 1
  /\ rpc' = "drain"
  /\ UNCHANGED <<queue, synced, readReady, writerVars, pending, delayed, batch, item,
                 readEnabled, drained>>

\* DrainOne: the callback returns false when a sink of the reader is full,
\* and backpressure has then disabled the read event.
DrainOne ==
  /\ rpc = "drain"
  /\ drained' = drained + 1 /\ item' = 0
  /\ \/ rpc' = "read" /\ UNCHANGED readEnabled
     \/ ReaderMayBlock /\ rpc' = "close" /\ readEnabled' = FALSE
  /\ UNCHANGED <<queue, synced, readReady, writeReady, writerVars, pending, delayed, batch>>

\* ~BatchedRead: returns the tokens of items not read.
CloseBatch ==
  /\ rpc = "close"
  /\ IF batch >= MaxBatch \/ pending > 0 \/ delayed > 0
       THEN rpc' = "renotify" /\ synced' = synced + pending
       ELSE rpc' = "wait" /\ UNCHANGED synced
  /\ pending' = 0 /\ delayed' = 0 /\ batch' = 0
  /\ UNCHANGED <<queue, readReady, writeReady, writerVars, item, readEnabled, drained>>

NotifySelf ==
  /\ rpc = "renotify"
  /\ readReady' = 1
  /\ rpc' = "wait"
  /\ UNCHANGED <<queue, synced, writeReady, writerVars, pending, delayed, batch, item,
                 readEnabled, drained>>

\* The sinks of the reader drained: RemoveBackpressure enables the read event.
Unblock ==
  /\ rpc = "wait" /\ ~readEnabled
  /\ readEnabled' = TRUE
  /\ UNCHANGED <<queue, synced, readReady, writeReady, writerVars, pending, delayed, batch, rpc,
                 item, drained>>

ReaderStep == \/ StartBatch \/ Read \/ TakeAll \/ TakeButOne \/ Pop \/ SignalWriter
              \/ DrainOne \/ CloseBatch \/ NotifySelf

QueueNext == Write \/ SinkWritable \/ WriterStep \/ ReaderStep \/ Unblock

QueueSpec == QueueInit /\ [][QueueNext]_queueVars

\* Both event loops keep running; the reader's sinks drain sooner or later.
QueueFairness ==
  WF_queueVars(SinkWritable) /\ WF_queueVars(WriterStep) /\ WF_queueVars(ReaderStep) /\ WF_queueVars(Unblock)

-----------------------------------------------------------------------------
(* Properties.                                                             *)

\* Type invariant of the queue, its batch and the two threads' positions.
QueueTypeInv ==
  /\ queue \in Seq(Nat) /\ Len(queue) <= Size
  /\ overflow \in Seq(Nat) /\ synced \in Nat /\ written \in Nat /\ drained \in Nat /\ item \in Nat
  /\ readReady \in {0, 1} /\ writeReady \in {0, 1} /\ readEnabled \in BOOLEAN
  /\ flushing \in BOOLEAN /\ writeEvent \in BOOLEAN /\ blocked \in BOOLEAN
  /\ wpc \in WriterPoints /\ rpc \in ReaderPoints
  /\ pending \in Nat /\ delayed \in {0, 1} /\ batch \in 0 .. MaxBatch

\* "bool success = queue_->queue_.read(entry); RS_ASSERT(success);" (Read):
\* a reader that holds tokens always finds an item, and never more tokens
\* than items exist although both sides update synced_size_ in batches.
ReadNeverFails ==
  rpc = "pop" => queue # <<>> /\ pending > 0 /\ pending <= Len(queue)

\* A reader that waits for its event with items in the queue has the event
\* pending, unless the writer is about to raise it: the optimisation of
\* eventfd writes in TryWrite and ~BatchedRead loses no wake-up.
ReaderNotForgotten ==
  rpc = "wait" /\ queue # <<>> /\ readReady = 0 => wpc \in {"restore", "sync", "notify"}

\* A writer that waits for room has its event pending, or the queue still
\* holds items whose reading will raise it: what TryWrite relies on when it
\* says "it's safe to give up as the write_ready notification is cleared".
WriterNotForgotten ==
  wpc = "idle" /\ writeEvent /\ writeReady = 0 => queue # <<>> \/ rpc = "signal"

Held == IF item = 0 THEN 0 ELSE 1

\* Items reach the reader's callback in the order of the Sink::Write calls,
\* none lost or repeated by overflowing, flushing and batching: the item in
\* the reader's hands, the queue and the overflow are the next ones in order.
InOrder ==
  /\ item # 0 => item = drained + 1
  /\ \A i \in 1 .. Len(queue) : queue[i] = drained + Held + i
  /\ \A i \in 1 .. Len(overflow) : overflow[i] = drained + Held + Len(queue) + i
  /\ written = drained + Held + Len(queue) + Len(overflow)

\* What a queue of any size guarantees its two threads at every instant.
QueueSafe == QueueTypeInv /\ ReadNeverFails /\ ReaderNotForgotten /\ InOrder

\* Every item written reaches the reader's callback (flow_control.h: "The
\* write never fails, but may be delayed until the sink has space").
AllDelivered == QueueFairness => \A n \in 1 .. MaxItems : written >= n ~> drained >= n
=============================================================================
