---------------------------- MODULE MCConnection ----------------------------
(***************************************************************************)
(* A connection for TLC, one aspect of it in every behaviour: bytes and    *)
(* frames ("transfer"), streams over connections that end with their last  *)
(* stream ("streams") or are kept alive ("keepalive"), heartbeats that     *)
(* arrive ("timely"), that stop ("silence") and of several streams         *)
(* ("several"), messages in their encodings ("codec").                     *)
(***************************************************************************)
EXTENDS MessageCodec

CONSTANT Parts

-----------------------------------------------------------------------------
(* Messages of every class with boundary values in every field.            *)

Max64 == Base ^ Bytes64 - 1
Max32 == Base ^ Bytes32 - 1
Numbers == {0, B - 1, B, Max64}
TwoTenants == {0, Base ^ Bytes16 - 1}
Long == [i \in 1 .. B |-> Base - 1]
Slices == {<<>>, <<B>>, Long}
Names == {<<>>, <<0, 1>>}
Ids == {[i \in 1 .. MsgIdSize |-> b] : b \in {0, Base - 1}}
Pairs == {p \in Numbers \X Numbers : p[1] <= p[2]}

Pings == [type : {mPing}, tenant : TwoTenants, pingtype : PingType, cookie : Slices]
Datas == [type : {mPublish, mDeliver}, tenant : TwoTenants, prev : {0}, seqno : Numbers,
          ns : Names, topic : Slices, msgid : Ids, payload : Slices]
Acks == [status : AckStatus, msgid : Ids, seqno : {0, Max64}]
DataAcks == [type : {mDataAck}, tenant : TwoTenants, acks : UNION {[1 .. n -> Acks] : n \in 0 .. 2}]
Gaps == [type : {mGap}, tenant : TwoTenants, ns : Names, topic : Slices, gaptype : GapType,
         from : {0}, to : Numbers]
Goodbyes == [type : {mGoodbye}, tenant : TwoTenants, code : Code, origin : OriginType]
FindTails == [type : {mFindTailSeqno}, tenant : TwoTenants, ns : Names, topic : Slices]
Tails == [type : {mTailSeqno}, tenant : TwoTenants, ns : Names, topic : Slices, seqno : Numbers]
Subscribes ==
  [type : {mSubscribe}, tenant : TwoTenants, ns : Names, topic : Slices, start : Numbers, sub : Numbers]
Unsubscribes == [type : {mUnsubscribe}, tenant : TwoTenants, sub : Numbers, reason : {0, 2}]
DeliverGaps ==
  {[type |-> mDeliverGap, tenant |-> 0, sub |-> s, prev |-> p[1], seqno |-> p[2], gaptype |-> g] :
     s \in Numbers, p \in Pairs, g \in GapType}
DeliverDatas ==
  {DeliverData([prev |-> p[1], seqno |-> p[2], msgid |-> i, payload |-> d], 0, s) :
     s \in {B}, p \in Pairs, i \in Ids, d \in Slices}
Batched == {d \in DeliverDatas : d.prev \in {0, B} /\ d.payload # <<>> /\ d.msgid[1] = 0}
Batches ==
  [type : {mDeliverBatch}, tenant : TwoTenants, messages : UNION {[1 .. n -> Batched] : n \in 0 .. 2}]
Heartbeats ==
  [type : {mHeartbeat}, tenant : TwoTenants, timestamp : {0, Max64},
   streams : SUBSET {0, B - 1, B, Max32}]

EveryMessage ==
  Pings \cup Datas \cup DataAcks \cup Gaps \cup Goodbyes \cup FindTails \cup Tails \cup Subscribes
    \cup Unsubscribes \cup DeliverGaps \cup DeliverDatas \cup Batches \cup Heartbeats
TwoIds == {1, Max64}
TwoPositions == {<<0, B>>, <<B, Max64>>}

-----------------------------------------------------------------------------

VARIABLES part,
          sent, sendQueue, left, writeEvent, ready, wire, readEvent, header, buffer,  \* SocketTransfer
          delivered, garbled, writerOpen, readerOpen,
          opened, socketOf, held, told, routes, connected, client, current,           \* StreamSockets
          connecting, closing, tasks, stopped, server, inbound, serverRoutes,
          serverClosing, serverTasks, up, down, failures, crashed,
          now, beating, toSend, captured, sendAt, flushAt, running, hangs, beats,     \* Heartbeats
          outbound, everOpened, list, checkAt, health, gone, goneAt, since

transferVars == <<sent, sendQueue, left, writeEvent, ready, wire, readEvent, header, buffer,
                  delivered, garbled, writerOpen, readerOpen>>
streamVars == <<opened, socketOf, held, told, routes, connected, client, current, connecting, closing,
                tasks, stopped, server, inbound, serverRoutes, serverClosing, serverTasks, up, down,
                failures, crashed>>
heartVars == <<now, beating, toSend, captured, sendAt, flushAt, running, hangs, beats, outbound,
               everOpened, list, checkAt, health, gone, goneAt, since>>

Transfer == INSTANCE SocketTransfer WITH
  Bodies <- <<2, 1, 3, 1>>, HeaderSize <- 2, OriginSize <- 1, QueueLimit <- 5, MaxIovecs <- 3, WireSize <- 6
Opened == INSTANCE StreamSockets WITH
  MaxStreams <- 2, MaxConnections <- 2, MaxInbound <- 2, MaxQueue <- 1, MaxFailures <- 1,
  KeepAlive <- FALSE, ServerGoodbyes <- TRUE, ShutsDown <- FALSE
Kept == INSTANCE StreamSockets WITH
  MaxStreams <- 2, MaxConnections <- 2, MaxInbound <- 2, MaxQueue <- 1, MaxFailures <- 1,
  KeepAlive <- TRUE, ServerGoodbyes <- FALSE, ShutsDown <- TRUE
Timely == INSTANCE Heartbeats WITH
  Streams <- {1}, Period <- 4, Timeout <- 8, CheckPeriod <- 1, Uint32 <- 4, Jitter <- 1, Delay <- 1,
  MaxTime <- 18, MaxHangs <- 0,
  inbound <- beating, up <- running, wire <- beats, opened <- everOpened, told <- health
Silence == INSTANCE Heartbeats WITH
  Streams <- {1}, Period <- 2, Timeout <- 3, CheckPeriod <- 1, Uint32 <- 4, Jitter <- 0, Delay <- 0,
  MaxTime <- 9, MaxHangs <- 1,
  inbound <- beating, up <- running, wire <- beats, opened <- everOpened, told <- health
Several == INSTANCE Heartbeats WITH
  Streams <- {1, 2}, Period <- 2, Timeout <- 3, CheckPeriod <- 1, Uint32 <- 4, Jitter <- 0, Delay <- 0,
  MaxTime <- 4, MaxHangs <- 0,
  inbound <- beating, up <- running, wire <- beats, opened <- everOpened, told <- health

AllInit ==
  /\ part \in Parts
  /\ IF part = "codec" THEN Init
     ELSE msg = [type |-> mPing] /\ bytes = <<>> /\ at = "sender" /\ original = msg
  /\ Transfer!Init /\ Opened!Init
  /\ CASE part = "timely" -> Timely!Init
       [] part = "silence" -> Silence!Init
       [] OTHER -> Several!Init

AllNext ==
  /\ UNCHANGED part
  /\ \/ part = "transfer" /\ Transfer!Next /\ UNCHANGED <<vars, streamVars, heartVars>>
     \/ part = "streams" /\ Opened!Next /\ UNCHANGED <<vars, transferVars, heartVars>>
     \/ part = "keepalive" /\ Kept!Next /\ UNCHANGED <<vars, transferVars, heartVars>>
     \/ part = "timely" /\ Timely!Next /\ UNCHANGED <<vars, transferVars, streamVars>>
     \/ part = "silence" /\ Silence!Next /\ UNCHANGED <<vars, transferVars, streamVars>>
     \/ part = "several" /\ Several!Next /\ UNCHANGED <<vars, transferVars, streamVars>>
     \/ part = "codec" /\ Next /\ UNCHANGED <<transferVars, streamVars, heartVars>>

AllSpec == AllInit /\ [][AllNext]_<<part, vars, transferVars, streamVars, heartVars>>

\* Frames cut anywhere by partial writes and reads arrive as the messages written, in order,
\* and a writer with something to send has its event armed (SocketTransfer; socket_event.cc:442).
TransferSafe == part = "transfer" => Transfer!TransferSafe
\* Both ends agree which streams a connection carries, and the receiver of a stream is told
\* of its end at most once, and always unless the end was its own (StreamSockets;
\* socket_event.cc Close, UnregisterStream, event_loop.cc CloseStream).
StreamsSafe == /\ part = "streams" => Opened!StreamsSafe
               /\ part = "keepalive" => Kept!StreamsSafe
\* A stream whose heartbeats keep their time is never reported unhealthy, and one that falls
\* silent is, whatever the other streams do (Heartbeats; socket_event.cc CheckHeartbeats,
\* timeout_list.h).
HeartbeatsSafe == /\ part = "timely" => Timely!HeartbeatsSafe
                  /\ part = "silence" => Silence!HeartbeatsSafe
                  /\ part = "several" => Several!HeartbeatsSafe
\* What is decoded is what was encoded, for every message, on the wire, in the log and in the
\* file of saved subscriptions (MessageCodec; messages.cc, coding.cc, file_storage.cc).
MessagesSafe == part = "codec" => CodecSafe
=============================================================================
