------------------------------- MODULE MCEdge -------------------------------
(***************************************************************************)
(* Small instances of the components at the edge of the system, one per    *)
(* value of part: the session proxy, the stream proxy, the upstream        *)
(* subscriptions its multiplexer rewinds, the Rocketeer server and the     *)
(* routers to towers and logs.                                             *)
(***************************************************************************)
EXTENDS Integers, Sequences, FiniteSets, TLC

CONSTANT Parts

VARIABLES part,
          sessions, toGlobal, toLocal, out, loop, calls, urgent, sentAnswers, destroys,   \* ProxySessions
          handed, answers, life, lifeOf,
          unopened, inbound, unused, affinity, up, down, streams, upstream, muxed,        \* StreamProxy
          shard, host, route, moves, collapsed, downs, expected, updates, pos, top, view, dangling,
          fresh, subscribers, wire, accepted, subscribes, issued, entries, prev, gauge, commands,          \* RocketeerServer
          overflow, waiting, held, known, broken, sent,
          slotHash, ring, slotCount, hosts, logs,                                         \* Routing
          muxLog, muxFresh, muxPending, muxSynced, muxUnsubs, muxExpected, muxSink,       \* SubscriptionsMap
          muxToServer, muxToClient, muxHeld, muxPos, muxOut, muxStreams, muxRewinds

proxyVars == <<sessions, toGlobal, toLocal, out, loop, calls, urgent, sentAnswers, destroys,
               handed, answers, life, lifeOf>>
streamVars == <<unopened, inbound, unused, affinity, up, down, streams, upstream, muxed,
                shard, host, route, moves, collapsed, downs, expected, updates, pos, top, view, dangling>>
rocketVars == <<fresh, subscribers, wire, accepted, subscribes, issued, entries, prev, gauge, commands,
                overflow, waiting, held, known, broken, sent>>
ringVars == <<slotHash, ring, slotCount, hosts, logs>>
muxVars == <<muxLog, muxFresh, muxPending, muxSynced, muxUnsubs, muxExpected, muxSink,
             muxToServer, muxToClient, muxHeld, muxPos, muxOut, muxStreams, muxRewinds>>

Message(t, l) == [type |-> t, local |-> l]
Script == <<Message("subscribe", 1), Message("publish", 2), Message("subscribe", 1)>>
Proxy == INSTANCE ProxySessions WITH
  Sessions <- {"s"}, Script <- [s \in {"s"} |-> Script], Urgent <- {Message("goodbye", 1), Message("invalid", 1)}, Locals <- {1, 2},
  BufferSize <- 1, MaxCalls <- 2, MaxUrgent <- 1, MaxAnswers <- 1, MaxDestroys <- 1

Stream == INSTANCE StreamProxy WITH
  Streams <- {1, 2}, Subs <- {1}, Hosts <- {"h", "none"}, NoHost <- "none",
  IsData <- <<TRUE, FALSE, TRUE, TRUE>>, CountLimit <- 2, MaxSeqno <- 3, MaxQueue <- 1, MaxMoves <- 1

Upstream == INSTANCE SubscriptionsMap WITH
  Ids <- {1, 2, 3}, Starts <- {0}, Topic <- "topic", Gap <- "gap", NoTopic <- "none",
  MaxLog <- 1, MaxFlight <- 1, MaxStreams <- 2, MaxRewinds <- 1,
  log <- muxLog, fresh <- muxFresh, pending <- muxPending, synced <- muxSynced, unsubs <- muxUnsubs,
  expected <- muxExpected, sink <- muxSink, toServer <- muxToServer, toClient <- muxToClient,
  held <- muxHeld, pos <- muxPos, out <- muxOut, streams <- muxStreams, rewinds <- muxRewinds

Rocket == INSTANCE RocketeerServer WITH
  Streams <- {1}, Subs <- {1, 2}, Starts <- {0, 2}, MaxSeqno <- 2, MaxSubscribes <- 2, MaxCommands <- 2, MaxQueue <- 1,
  unopened <- fresh, inbound <- accepted

Ring == INSTANCE Routing WITH
  Slots <- {1, 2, 3}, Space <- 4, Rehash <- [h \in 0 .. 3 |-> (3 * h + 1) % 4], MaxReplicas <- 3,
  PerLog <- 2, Weight <- <<1, 0, 1>>, Draws <- 4, MaxLogs <- 3

AllInit ==
  /\ part \in Parts /\ Proxy!Init /\ Stream!Init /\ Rocket!Init /\ Ring!Init /\ Upstream!MapInit
  /\ part # "stream" => route = "h"
  /\ part # "routing" => slotHash = <<0, 0, 0>>
AllNext ==
  /\ part' = part
  /\ \/ part = "proxy" /\ Proxy!Next /\ UNCHANGED <<streamVars, rocketVars, ringVars, muxVars>>
     \/ part = "stream" /\ Stream!Next /\ UNCHANGED <<proxyVars, rocketVars, ringVars, muxVars>>
     \/ part = "rocketeer" /\ Rocket!Next /\ UNCHANGED <<proxyVars, streamVars, ringVars, muxVars>>
     \/ part = "routing" /\ Ring!Next /\ UNCHANGED <<proxyVars, streamVars, rocketVars, muxVars>>
     \/ part = "upstream" /\ Upstream!MapNext /\ UNCHANGED <<proxyVars, streamVars, rocketVars, ringVars>>
AllSpec == AllInit /\ [][AllNext]_<<part, proxyVars, streamVars, rocketVars, ringVars, muxVars>>

\* Messages of a session are handed on in the order of their numbers and its streams live as
\* long as the session does (ProxySessions; proxy.cc, ordered_processor.h).
ProxySafe == Proxy!ProxySafe
\* Subscriptions collapsed onto one upstream subscription miss no update and the tables of
\* upstream and downstream workers agree (StreamProxy; upstream_worker.cc, multiplexer.cc); an
\* upstream subscription and the server agree though the multiplexer rewinds it
\* (SubscriptionsMap; subscriptions_map.cc).
StreamProxySafe == Stream!StreamProxySafe /\ Upstream!MapSafe
\* What a Rocketeer sends on a subscription chains from the subscribed position, and the
\* application is told of every start and end once (RocketeerServer; rocketeer_server.cc).
RocketeerSafe == Rocket!RocketeerSafe
\* Towers and logs that come and go move as few keys as they can (Routing; consistent_hash.h:213).
RoutingStable == Ring!RoutingStable
=============================================================================
