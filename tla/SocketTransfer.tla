--------------------------- MODULE SocketTransfer ---------------------------
(***************************************************************************)
(* One direction of a connection between two SocketEvents                  *)
(* (messages/socket_event.cc): EnqueueWrite cuts a message into three      *)
(* chunks, WriteCallback gives the kernel as much of them as it takes,     *)
(* ReadCallback puts the frames together again from whatever read returns, *)
(* and the write_ready_ trigger tells the flow control of the writer when  *)
(* the send queue has room.  Messages are numbered; a byte is named by the *)
(* chunk it belongs to and its place there.                                *)
(***************************************************************************)
EXTENDS Integers, Sequences, SequencesExt

CONSTANTS Bodies,       \* length of the serialised message, for every message
          HeaderSize,   \* MessageHeader::encoding_size
          OriginSize,   \* bytes of an encoded stream id
          QueueLimit,   \* EventLoop::Options::send_queue_limit
          MaxIovecs,    \* kMaxIovecs
          WireSize      \* bytes the kernels and the network hold

VARIABLES sent,         \* messages written to the socket
          sendQueue,    \* send_queue_
          left,         \* bytes of partial_, the unwritten end of the first chunk
          writeEvent,   \* write_ev_ is enabled
          ready,        \* write_ready_ is notified
          wire,         \* bytes under way
          readEvent,    \* read_ev_ is enabled: no backpressure on the reader
          header,       \* hdr_buf_ up to hdr_idx_
          buffer,       \* msg_buf_ up to msg_idx_
          delivered,    \* messages given to Receive
          garbled,      \* a header or a message could not be decoded
          writerOpen, readerOpen

writer == <<sent, sendQueue, left, writeEvent, ready>>
reader == <<readEvent, header, buffer, delivered, garbled>>
vars == <<writer, wire, reader, writerOpen, readerOpen>>

Messages == 1 .. Len(Bodies)
ChunkSize(c) ==
  CASE c.part = "header" -> HeaderSize
    [] c.part = "origin" -> OriginSize
    [] c.part = "body"   -> Bodies[c.of]
Bytes(c) == [i \in 1 .. ChunkSize(c) |-> [of |-> c.of, part |-> c.part, at |-> i]]
Chunks(m) == <<[of |-> m, part |-> "header"], [of |-> m, part |-> "origin"], [of |-> m, part |-> "body"]>>
Header(m) == Bytes(Chunks(m)[1])
Frame(m) == Bytes(Chunks(m)[2]) \o Bytes(Chunks(m)[3])

Init ==
  /\ sent = 0 /\ sendQueue = <<>> /\ left = 0 /\ writeEvent = FALSE /\ ready = TRUE
  /\ wire = <<>>
  /\ readEvent = TRUE /\ header = <<>> /\ buffer = <<>> /\ delivered = <<>> /\ garbled = FALSE
  /\ writerOpen = TRUE /\ readerOpen = TRUE

\* A stream, or the heartbeat timer, writes; the writer may ignore that the
\* queue is full, it is told so by the return value only.
EnqueueWrite ==
  /\ writerOpen /\ sent < Len(Bodies)
  /\ sent' = sent + 1
  /\ sendQueue' = sendQueue \o Chunks(sent')
  /\ ready' = (ready /\ Len(sendQueue') < QueueLimit)
  /\ writeEvent' = TRUE
  /\ UNCHANGED <<left, wire, reader, writerOpen, readerOpen>>

(***************************************************************************)
(* WriteCallback.  An iteration of its loop calls writev once; a message   *)
(* enqueued between two iterations stands for a return on EAGAIN.          *)
(***************************************************************************)
\* partial_ as the loop finds or makes it.
Partial == IF left = 0 THEN ChunkSize(Head(sendQueue)) ELSE left
Iovecs == IF Len(sendQueue) < MaxIovecs THEN Len(sendQueue) ELSE MaxIovecs
Offered == LET first == Bytes(Head(sendQueue))
           IN  SubSeq(first, Len(first) - Partial + 1, Len(first))
               \o FlattenSeq([i \in 1 .. Iovecs - 1 |-> Bytes(sendQueue[i + 1])])
\* Bytes in the first n iovecs.
Covered(n) == IF n = 0 THEN 0 ELSE Partial + FoldLeft(LAMBDA sum, c : sum + ChunkSize(c), 0,
                                                      SubSeq(sendQueue, 2, n))

\* Chunks written completely when the kernel takes count bytes.
Popped(count) ==
  CHOOSE n \in 0 .. Iovecs : Covered(n) <= count /\ (n < Iovecs => count < Covered(n + 1))

\* Mutant: a chunk that was cut is sent again from its start.
LeftAfterRestart(count) ==
  LET n == Popped(count) IN IF n = Len(sendQueue) THEN 0 ELSE ChunkSize(sendQueue[n + 1])

LeftAfter(count) ==
  LET n == Popped(count)
  IN  IF n = Len(sendQueue) THEN 0
      ELSE IF n = Iovecs THEN ChunkSize(sendQueue[n + 1]) ELSE Covered(n + 1) - count

\* Whether one of the pops leaves the queue at the mark.
Drained(count) == QueueLimit \div 2 \in Len(sendQueue) - Popped(count) .. Len(sendQueue) - 1

\* Mutant: the write event is disabled after every write.
MoreToWriteNever(count) == FALSE

MoreToWrite(count) == Popped(count) < Len(sendQueue)

WriteCallback(count) ==
  /\ writerOpen /\ writeEvent
  /\ count <= Len(Offered) /\ Len(wire) + count <= WireSize
  /\ wire' = wire \o SubSeq(Offered, 1, count)
  /\ sendQueue' = SubSeq(sendQueue, Popped(count) + 1, Len(sendQueue))
  /\ left' = LeftAfter(count)
  /\ ready' = (ready \/ Drained(count))
  /\ writeEvent' = MoreToWrite(count)
  /\ UNCHANGED <<sent, reader, writerOpen, readerOpen>>

(***************************************************************************)
(* ReadCallback.  One read returns some of the bytes that are there.       *)
(***************************************************************************)
SetReadEnabled ==
  /\ readerOpen
  /\ readEvent' = ~readEvent
  /\ UNCHANGED <<header, buffer, delivered, garbled, writer, wire, writerOpen, readerOpen>>

Read(n) ==
  /\ readerOpen /\ readEvent /\ n <= Len(wire)
  /\ wire' = SubSeq(wire, n + 1, Len(wire))
  /\ UNCHANGED <<writer, writerOpen>>

\* MessageHeader::Parse takes the header of a message for what it is, and
\* anything else for garbage; its size field tells how much to read next.
Parsed(h) == {m \in Messages : h = Header(m)}

ReadHeader(n) ==
  /\ Len(header) < HeaderSize
  /\ n <= HeaderSize - Len(header)
  /\ Read(n)
  /\ header' = header \o SubSeq(wire, 1, n)
  /\ garbled' = (Len(header') = HeaderSize /\ Parsed(header') = {})
  /\ readerOpen' = ~garbled'
  /\ UNCHANGED <<buffer, delivered, readEvent>>

\* A whole message is decoded and given to Receive.
ReadMessage(n) ==
  /\ Len(header) = HeaderSize
  /\ \E m \in Parsed(header) :
       /\ n <= Len(Frame(m)) - Len(buffer)
       /\ Read(n)
       /\ LET bytes == buffer \o SubSeq(wire, 1, n)
          IN  IF Len(bytes) < Len(Frame(m))
                THEN buffer' = bytes /\ UNCHANGED <<header, delivered, garbled>>
                ELSE /\ header' = <<>> /\ buffer' = <<>>
                     /\ garbled' = (bytes # Frame(m))
                     /\ delivered' = IF garbled' THEN delivered ELSE Append(delivered, m)
  /\ readerOpen' = ~garbled'
  /\ UNCHANGED readEvent

\* A socket closes: on an error, or gracefully with chunks still queued.
CloseWriter ==
  /\ writerOpen /\ writerOpen' = FALSE /\ writeEvent' = FALSE
  /\ UNCHANGED <<sent, sendQueue, left, ready, wire, reader, readerOpen>>

\* End of file, an error that loses what is under way, or its own wish.
CloseReader ==
  /\ readerOpen
  /\ readerOpen' = FALSE /\ readEvent' = FALSE
  /\ UNCHANGED <<header, buffer, delivered, garbled, writer, wire, writerOpen>>

Next ==
  \/ EnqueueWrite
  \/ \E n \in 1 .. WireSize : WriteCallback(n) \/ ReadHeader(n) \/ ReadMessage(n)
  \/ SetReadEnabled \/ CloseWriter \/ CloseReader

Spec == Init /\ [][Next]_vars

\* Enabled events fire, and the reader is not held back for ever.
Fairness ==
  /\ WF_vars(\E n \in 1 .. WireSize : WriteCallback(n))
  /\ SF_vars(\E n \in 1 .. WireSize : ReadHeader(n))
  /\ SF_vars(\E n \in 1 .. WireSize : ReadMessage(n))
  /\ WF_vars(SetReadEnabled)

(***************************************************************************)
(* Properties.                                                             *)
(***************************************************************************)
\* Queues hold chunks and bytes of the messages written so far.
TypeInv ==
  LET written == {c \in UNION {ToSet(Chunks(m)) : m \in Messages} : c.of <= sent}
      bytes == UNION {ToSet(Bytes(c)) : c \in written}
  IN  /\ sent \in 0 .. Len(Bodies)
      /\ ToSet(sendQueue) \subseteq written
      /\ ToSet(wire) \cup ToSet(header) \cup ToSet(buffer) \subseteq bytes
      /\ ToSet(delivered) \subseteq 1 .. sent
      /\ Len(wire) <= WireSize /\ Len(header) <= HeaderSize
      /\ {writeEvent, ready, readEvent, garbled, writerOpen, readerOpen} \subseteq BOOLEAN

\* However the kernel cuts up writes and reads, messages reach Receive whole,
\* in the order in which they were written, none twice and none skipped.
InOrder == delivered = [i \in 1 .. Len(delivered) |-> i]

\* Reader and writer never lose step: no header or message fails to decode.
NeverGarbled == ~garbled

\* The write event is enabled exactly while there is something to write: the
\* first assertion of WriteCallback holds and no chunk is forgotten.
ArmedToWrite ==
  /\ writerOpen => (writeEvent <=> sendQueue # <<>>)
  /\ left <= (IF sendQueue = <<>> THEN 0 ELSE ChunkSize(Head(sendQueue)))

\* The sink is writable only below its limit and is unwritable only above half
\* of it.  The notification is given on one exact size, so a queue that got
\* below it unnoticed would block its writers for ever.
RoomTold == /\ ready => Len(sendQueue) < QueueLimit
            /\ ~ready => Len(sendQueue) > QueueLimit \div 2

\* What the two ends of a connection keep together.
TransferSafe == TypeInv /\ InOrder /\ NeverGarbled /\ ArmedToWrite /\ RoomTold

\* What is written is read in the end, and a sink that filled up is writable again, unless the
\* connection is closed.
EventuallyDelivered ==
  Fairness =>
    /\ \A m \in Messages : sent >= m ~> (Len(delivered) >= m \/ ~writerOpen \/ ~readerOpen)
    /\ ~ready ~> (ready \/ ~writerOpen \/ ~readerOpen)
=============================================================================
