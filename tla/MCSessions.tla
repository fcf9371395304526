----------------------------- MODULE MCSessions -----------------------------
(***************************************************************************)
(* What must happen in the end, for TLC, one part in every behaviour: a    *)
(* subscription is served ("subscriber"), a publish ("publish") and an     *)
(* append ("append") are answered, the client stops and its saves are      *)
(* answered ("facade"), bytes arrive ("transfer") and streams end at both  *)
(* ends ("streams").                                                       *)
(***************************************************************************)
EXTENDS Naturals, Sequences, FiniteSets

CONSTANTS Parts, a, b, H1, NoHost, Topic, Gap, NoTopic, Hole, NoAck, Failed

VARIABLES part,
          log, fresh, pending, synced, unsubs, expected, sink, toServer, toClient,   \* ClientSubscriber
          held, pos, out, streams, rewinds,
          host, timer, failures, healthy, told, active, acked, given, routes, ackCount,
          calls, commands, stream, opened, broken, sent, timeouts, results, noPilot, \* Publishing
          link, back, closures, appends, responses, records,
          made, home, queued, queues, qage, ages, checked, appending, store, acks,   \* BufferedStorage
          refusals, appendFailures, reader, overflow, consumed, opens,
          issued, at, meta, cmds, swap, shards, live, nulled, observer, ends,        \* ClientFacade
          unsubbed, ackedOnce, save, file, phase,
          written, sendQueue, left, writeEvent, ready, wire, readEvent, header,      \* SocketTransfer
          buffer, delivered, garbled, writerOpen, readerOpen,
          streamsOpened, socketOf, owned, ended, table, connected, client, current,  \* StreamSockets
          connecting, closing, tasks, stopped, server, inbound, serverRoutes,
          serverClosing, serverTasks, up, down, breaks, crashed

subVars == <<log, fresh, pending, synced, unsubs, expected, sink, toServer, toClient, held, pos, out,
             streams, rewinds, host, timer, failures, healthy, told, active, acked, given, routes, ackCount>>
pubVars == <<calls, commands, stream, opened, broken, sent, timeouts, results, noPilot, link, back,
             closures, appends, responses, records>>
appendVars == <<made, home, queued, queues, qage, ages, checked, appending, store, acks, refusals,
                appendFailures, reader, overflow, consumed, opens>>
facadeVars == <<issued, at, meta, cmds, swap, shards, live, nulled, observer, ends, unsubbed,
                ackedOnce, save, file, phase>>
transferVars == <<written, sendQueue, left, writeEvent, ready, wire, readEvent, header, buffer,
                  delivered, garbled, writerOpen, readerOpen>>
streamVars == <<streamsOpened, socketOf, owned, ended, table, connected, client, current, connecting,
                closing, tasks, stopped, server, inbound, serverRoutes, serverClosing, serverTasks,
                up, down, breaks, crashed>>

Subscriber == INSTANCE ClientSubscriber WITH
  Ids <- {a, b}, Starts <- {0}, MaxLog <- 1, MaxFlight <- 1, MaxStreams <- 2, MaxRewinds <- 0,
  Hosts <- {H1}, MaxActive <- 2, MaxSilent <- 1, MaxFailures <- 2, MaxRoutes <- 1, MaxAcks <- 0
Pub == INSTANCE Publishing WITH
  Publishes <- {1, 2}, MsgId <- <<1, 2>>, Callback <- {1, 2}, MaxStreams <- 2, MaxNoPilot <- 1,
  log <- records
Sizes == <<1, 3, 1>>
Buffered == INSTANCE BufferedStorage WITH
  Requests <- 1..3, Logs <- {a, b}, MaxBatchEntries <- 2, MaxBatchBytes <- 4, SizeOf <- Sizes,
  Latency <- 1, ByteBits <- 2, MaxRefusals <- 0, MaxFailures <- 1, MaxOpens <- 0,
  sent <- made, commands <- queued, timeouts <- ages, failures <- appendFailures, opened <- reader
Facade == INSTANCE ClientFacade WITH
  W <- 2, Shards <- {0}, MaxSubs <- 1, QueueSize <- 1, CmdSize <- 1, MaxHandles <- 1, MaxSaves <- 2,
  MaxSeqno <- 0, told <- ends, acked <- ackedOnce
Transfer == INSTANCE SocketTransfer WITH
  Bodies <- <<1, 2, 1>>, HeaderSize <- 2, OriginSize <- 1, QueueLimit <- 4, MaxIovecs <- 4, WireSize <- 3,
  sent <- written
Streams == INSTANCE StreamSockets WITH
  MaxStreams <- 2, MaxConnections <- 1, MaxInbound <- 2, MaxQueue <- 1, MaxFailures <- 1,
  KeepAlive <- FALSE, ServerGoodbyes <- FALSE, ShutsDown <- FALSE,
  opened <- streamsOpened, held <- owned, told <- ended, routes <- table, failures <- breaks

AllInit ==
  /\ part \in Parts
  /\ Subscriber!SubscriberInit /\ Pub!Init /\ Buffered!Init /\ Facade!Init
  /\ Transfer!Init /\ Streams!Init

AllNext ==
  /\ UNCHANGED part
  /\ \/ /\ part = "subscriber" /\ Subscriber!SubscriberNext
        /\ UNCHANGED <<pubVars, appendVars, facadeVars, transferVars, streamVars>>
     \/ /\ part = "publish" /\ Pub!Next
        /\ UNCHANGED <<subVars, appendVars, facadeVars, transferVars, streamVars>>
     \/ /\ part = "append" /\ Buffered!Next
        /\ UNCHANGED <<subVars, pubVars, facadeVars, transferVars, streamVars>>
     \/ /\ part = "facade" /\ Facade!Next
        /\ UNCHANGED <<subVars, pubVars, appendVars, transferVars, streamVars>>
     \/ /\ part = "transfer" /\ Transfer!Next
        /\ UNCHANGED <<subVars, pubVars, appendVars, facadeVars, streamVars>>
     \/ /\ part = "streams" /\ Streams!Next
        /\ UNCHANGED <<subVars, pubVars, appendVars, facadeVars, transferVars>>

AllSpec == AllInit /\ [][AllNext]_<<part, subVars, pubVars, appendVars, facadeVars, transferVars, streamVars>>

\* A subscription of a shard with a host is in the end served or closed, although streams are
\* lost and reopened, and one the application gave up is forgotten by the server
\* (ClientSubscriber; resilient_receiver.cc ConnectTo).
EventuallyServed == Subscriber!EventuallyServed
\* Every publish gets a result and every append its acknowledgement or failure, although
\* streams break, pilots are missing and appends fail (Publishing, BufferedStorage;
\* publisher.cc CheckTimeouts, buffered_storage.cc).  Stopping the client ends, and saving its
\* subscriptions is answered (ClientFacade; multi_threaded_subscriber.cc).
EventuallyAnswered == Pub!Answered /\ Buffered!Answered /\ Facade!FacadeAnswers
\* What is written to a socket that stays open is delivered (SocketTransfer; socket_event.cc
\* WriteCallback), and a stream that one end closes ends at the other (StreamSockets; stream.cc).
EventuallyDelivered == Transfer!EventuallyDelivered /\ Streams!EventuallyEnded
=============================================================================
