---------------------------- MODULE StreamProxy ----------------------------
(***************************************************************************)
(* proxy2: a server between subscribers and Rocketeers.  A DownstreamWorker *)
(* owns the subscribers' streams and an UpstreamWorker the streams to the  *)
(* servers of one shard; they are different threads joined by a queue each *)
(* way.  Subscriptions on a hot topic are collapsed by the Multiplexer     *)
(* into one upstream subscription whose updates are kept in an accumulator *)
(* to bring later subscribers up to date; everything else is forwarded on  *)
(* an upstream stream per subscriber stream.                               *)
(*                                                                         *)
(* The queues keep the order of the messages of one stream; the order      *)
(* across streams is left free, which covers the one the code has.  The    *)
(* multiplexer's SubscriptionsMap (see SubscriptionsMap) hands over the    *)
(* updates of the current subscription in order: a snapshot first when it  *)
(* subscribes at zero, then every later sequence number, data or gap.      *)
(* What the event loop promises is in StreamSockets: a stream that wrote   *)
(* or read a goodbye is closed, and its ID is never used again.            *)
(***************************************************************************)
EXTENDS Integers, Sequences, FiniteSets

CONSTANTS Streams,     \* IDs of the subscribers' streams
          Subs,        \* subscription IDs a subscriber uses on the hot topic
          Hosts,       \* hosts the router may give the shard
          NoHost,
          IsData,      \* IsData[n]: update n of the hot topic is data, else a gap
          CountLimit,  \* count_limit_ of the accumulator
          MaxSeqno, MaxQueue, MaxMoves   \* bounds: updates, queued messages, router changes

VARIABLES
  unopened,   \* streams no subscriber has opened yet
  inbound,    \* streams that GetInboundStream finds
  unused,     \* subscription IDs not used yet on a stream
  affinity,   \* DownstreamWorker::stream_to_upstream_worker_
  up, down,   \* queues from and to the downstream worker, by stream
  streams,    \* UpstreamWorker::streams_
  upstream,   \* streams whose PerStream has an upstream_
  muxed,      \* downstream_to_upstream_ of all PerStreams: stream and subscription
  shard,      \* shard_cache_ has the PerShard
  host,       \* PerShard::host_
  route, moves,   \* the host the router gives, and how often it changed
  collapsed,  \* the hot topic's UpstreamSubscription exists (topic_index_)
  downs,      \* its downstream_subscriptions_
  expected,   \* its expected_seqno_
  updates,    \* its accumulator's updates_
  pos,        \* sequence number the SubscriptionsMap has reached, 0 = snapshot due
  top,        \* updates the server has
  view,       \* history: last update queued for a downstream subscription
  dangling    \* a destroyed PerStream was used

perStream == <<upstream, muxed>>
worker == <<streams, perStream, shard, host>>
mux == <<collapsed, downs, expected, updates, pos, view>>
env == <<route, moves, top>>
vars == <<unopened, inbound, unused, affinity, up, down, worker, mux, env, dangling>>

Message(t, n) == [type |-> t, sub |-> n]
Update(prev, n) == [prev |-> prev, seqno |-> n]
Goodbye == Message("goodbye", 0)
Pairs == Streams \X Subs
Of(s, pairs) == {p \in pairs : p[1] = s}
NotSubscribed == 0 - 1

Init ==
  /\ unopened = Streams /\ inbound = {} /\ unused = [s \in Streams |-> Subs] /\ affinity = {}
  /\ up = [s \in Streams |-> <<>>] /\ down = [s \in Streams |-> <<>>]
  /\ streams = {} /\ upstream = {} /\ muxed = {} /\ shard = FALSE /\ host = NoHost
  /\ route \in Hosts /\ moves = 0 /\ top = 1
  /\ collapsed = FALSE /\ downs = {} /\ expected = 0 /\ updates = <<>> /\ pos = 0
  /\ view = [p \in Pairs |-> NotSubscribed] /\ dangling = FALSE

------------------------------------------------------------------------------
(* The subscribers, and the downstream worker. *)

\* DownstreamWorker::operator(): a stream's first message must be a
\* subscribe; later ones follow it to the same upstream worker.
Forward(s, m) ==
  IF s \in affinity \/ m.type \in {"hot", "cold"}
    THEN /\ up' = [up EXCEPT ![s] = Append(@, m)]
         /\ affinity' = IF m.type = "goodbye" THEN affinity \ {s} ELSE affinity \cup {s}
    ELSE UNCHANGED <<up, affinity>>

Send(s, m) ==
  /\ s \in inbound \/ s \in unopened
  /\ Len(up[s]) < MaxQueue /\ Len(down[s]) < MaxQueue
  /\ unopened' = unopened \ {s}
  /\ inbound' = IF m.type = "goodbye" THEN inbound \ {s} ELSE inbound \cup {s}
  /\ Forward(s, m)
  /\ UNCHANGED <<down, worker, mux, env, dangling>>

SubscribeHot(s, n) ==
  /\ n \in unused[s]
  /\ unused' = [unused EXCEPT ![s] = @ \ {n}]
  /\ Send(s, Message("hot", n))

SubscribeCold(s) == Send(s, Message("cold", 0)) /\ UNCHANGED unused
Unsubscribe(s, n) == n \notin unused[s] /\ Send(s, Message("unsubscribe", n)) /\ UNCHANGED unused
\* The subscriber says goodbye, or its socket closes.  The event loop does
\* not open a stream for a goodbye.
SayGoodbye(s) == s \in inbound /\ Send(s, Goodbye) /\ UNCHANGED unused

\* DownstreamWorker::ReceiveFromQueue.
ReceiveDown(s) ==
  /\ down[s] # <<>>
  /\ down' = [down EXCEPT ![s] = Tail(@)]
  /\ IF s \in inbound /\ Head(down[s]) = Goodbye
       THEN inbound' = inbound \ {s} /\ affinity' = affinity \ {s}
       ELSE UNCHANGED <<inbound, affinity>>
  /\ UNCHANGED <<unopened, unused, up, worker, mux, env, dangling>>

------------------------------------------------------------------------------
(* The multiplexer. *)

\* Mutant: a subscriber that joins later only gets what comes next.
AddDownstreamBare(s, n) ==
  /\ downs' = downs \cup {<<s, n>>} /\ view' = [view EXCEPT ![<<s, n>>] = 0] /\ UNCHANGED down
\* UpstreamSubscription::AddDownstream with
\* DefaultAccumulator::BootstrapSubscription: all accumulated updates.
AddDownstream(s, n) ==
  /\ downs' = downs \cup {<<s, n>>}
  /\ view' = [view EXCEPT ![<<s, n>>] = IF updates = <<>> THEN 0 ELSE updates[Len(updates)].seqno]
  /\ down' = [down EXCEPT ![s] = @ \o [i \in 1 .. Len(updates) |-> Message("deliver", n)]]

\* Multiplexer::Subscribe: one upstream subscription, from zero.
MuxSubscribe(s, n) ==
  /\ collapsed' = TRUE
  /\ AddDownstream(s, n)
  /\ UNCHANGED <<expected, updates, pos>>

\* Multiplexer::Unsubscribe of a set of downstream subscriptions; the last
\* one takes the upstream subscription with it.
MuxUnsubscribe(gone) ==
  /\ downs' = downs \ gone
  /\ view' = [p \in Pairs |-> IF p \in gone THEN NotSubscribed ELSE view[p]]
  /\ IF gone # {} /\ downs' = {}
       THEN collapsed' = FALSE /\ expected' = 0 /\ updates' = <<>> /\ pos' = 0
       ELSE UNCHANGED <<collapsed, expected, updates, pos>>

\* DefaultAccumulator::ConsumeUpdate.
ConsumeUpdate(u) == IF u.prev = 0 THEN <<u>> ELSE Append(updates, u)

\* UpstreamSubscription::ReceiveDeliver: what is already known is dropped.
Broadcast(u) ==
  IF expected # 0 /\ expected > u.seqno
    THEN UNCHANGED <<expected, view, down>>
    ELSE /\ expected' = u.seqno + 1
         /\ view' = [p \in Pairs |-> IF p \in downs THEN u.seqno ELSE view[p]]
         /\ down' = [s \in Streams |->
                       down[s] \o [i \in 1 .. Cardinality(Of(s, downs)) |-> Message("deliver", 0)]]

\* Multiplexer::ReceiveDeliver: only data is accumulated, and a full
\* accumulator rewinds the upstream subscription to zero.
Deliver(u) ==
  LET data == u.prev = 0 \/ IsData[u.seqno]
      kept == IF data THEN ConsumeUpdate(u) ELSE updates IN
  /\ collapsed
  /\ \A s \in Streams : Len(down[s]) < MaxQueue
  /\ updates' = kept
  /\ pos' = IF data /\ Len(kept) >= CountLimit THEN 0 ELSE u.seqno
  /\ Broadcast(u)
  /\ UNCHANGED <<unopened, inbound, unused, affinity, up, worker, collapsed, downs, env, dangling>>

ReceiveDeliver ==
  \/ pos = 0 /\ Deliver(Update(0, top))
  \/ pos # 0 /\ pos < top /\ Deliver(Update(pos, pos + 1))

\* Multiplexer::ReceiveTerminate: the server ends the subscription; each
\* subscriber is told and its PerStream forgets it.
ReceiveTerminate ==
  /\ collapsed
  /\ muxed' = muxed \ downs
  /\ down' = [s \in Streams |-> down[s] \o [i \in 1 .. Cardinality(Of(s, downs)) |-> Message("terminate", 0)]]
  /\ MuxUnsubscribe(downs)
  /\ UNCHANGED <<unopened, inbound, unused, affinity, up, streams, upstream, shard, host, env, dangling>>

------------------------------------------------------------------------------
(* The upstream worker. *)

\* PerStream::CleanupState and UpstreamWorker::CleanupState: the upstream
\* stream is closed, the multiplexed subscriptions end, and the PerShard
\* goes with the last PerStream.
CleanupState(closing) ==
  /\ upstream' = upstream \ closing
  /\ muxed' = {p \in muxed : p[1] \notin closing}
  /\ MuxUnsubscribe({p \in muxed : p[1] \in closing})
  /\ streams' = streams \ closing
  /\ shard' = (shard /\ streams' # {}) /\ host' = host

\* PerStream::ForceCloseStream.
ForceClose(closing) ==
  /\ down' = [s \in Streams |-> IF s \in closing THEN Append(down[s], Goodbye) ELSE down[s]]
  /\ CleanupState(closing)

\* UpstreamWorker::ReceiveFromQueue: the PerStream and PerShard of a
\* stream's first message, which must be a subscribe.
FindStream(s) ==
  /\ streams' = streams \cup {s} /\ shard' = TRUE
  /\ host' = IF shard THEN host ELSE route

Unknown(s, m) == s \notin streams /\ m.type \notin {"hot", "cold"}

\* PerStream::ReceiveFromWorker, by the kind of message.
HandleHot(s, m) ==
  /\ m.type = "hot"
  /\ FindStream(s)
  /\ muxed' = muxed \cup {<<s, m.sub>>} /\ MuxSubscribe(s, m.sub)
  /\ UNCHANGED <<upstream, dangling>>

HandleUnsubscribe(s, m) ==
  /\ m.type = "unsubscribe" /\ <<s, m.sub>> \in muxed
  /\ muxed' = muxed \ {<<s, m.sub>>} /\ MuxUnsubscribe({<<s, m.sub>>})
  /\ UNCHANGED <<streams, upstream, shard, host, down, dangling>>

Forwarded(s, m) == ~Unknown(s, m) /\ m.type # "hot" /\ (m.type = "unsubscribe" => <<s, m.sub>> \notin muxed)
HostOf == IF shard THEN host ELSE route

\* Stream-level proxying, with the upstream stream opened if need be.
HandleForwarded(s, m) ==
  /\ Forwarded(s, m)
  /\ s \in upstream \/ HostOf # NoHost
  /\ IF m.type = "goodbye"
       THEN CleanupState({s})
       ELSE /\ FindStream(s) /\ upstream' = upstream \cup {s}
            /\ UNCHANGED <<muxed, mux>>
  /\ UNCHANGED <<down, dangling>>

\* No host, or OpenStream fails: the subscriber gets a goodbye.  When the
\* message was a goodbye itself ReceiveFromQueue cleans up a PerStream that
\* ForceCloseStream has destroyed.
HandleUnroutable(s, m) ==
  /\ Forwarded(s, m) /\ s \notin upstream
  /\ IF s \in streams
       THEN ForceClose({s})
       ELSE /\ down' = [down EXCEPT ![s] = Append(@, Goodbye)]
            /\ UNCHANGED <<worker, mux>>
  /\ dangling' = (dangling \/ m.type = "goodbye")

ReceiveUp(s) ==
  /\ up[s] # <<>>
  /\ up' = [up EXCEPT ![s] = Tail(@)]
  /\ LET m == Head(up[s]) IN
     \/ Unknown(s, m) /\ UNCHANGED <<down, worker, mux, dangling>>
     \/ HandleHot(s, m)
     \/ HandleUnsubscribe(s, m)
     \/ HandleForwarded(s, m)
     \/ HandleUnroutable(s, m)
  /\ UNCHANGED <<unopened, inbound, unused, affinity, env>>

\* PerStream::ReceiveFromStream: a message of the server on the stream.
ReceiveFromServer(s) ==
  /\ s \in upstream
  /\ \/ /\ Len(down[s]) < MaxQueue
        /\ down' = [down EXCEPT ![s] = Append(@, Message("deliver", 0))]
        /\ UNCHANGED <<worker, mux>>
     \/ ForceClose({s})
  /\ UNCHANGED <<unopened, inbound, unused, affinity, up, env, dangling>>

\* PerShard::CheckRoutes: every PerStream is closed when the host changes.
CheckRoutes ==
  /\ shard /\ host # route
  /\ down' = [s \in Streams |-> IF s \in streams THEN Append(down[s], Goodbye) ELSE down[s]]
  /\ upstream' = {} /\ streams' = {} /\ muxed' = {} /\ shard' = FALSE /\ host' = route
  /\ MuxUnsubscribe(muxed)
  /\ UNCHANGED <<unopened, inbound, unused, affinity, up, env, dangling>>

\* The routing table changes, and the server gets another update.
Reroute ==
  /\ moves < MaxMoves /\ moves' = moves + 1
  /\ \E h \in Hosts : h # route /\ route' = h
  /\ UNCHANGED <<unopened, inbound, unused, affinity, up, down, worker, mux, top, dangling>>
NewUpdate ==
  /\ top < MaxSeqno /\ top' = top + 1
  /\ UNCHANGED <<unopened, inbound, unused, affinity, up, down, worker, mux, route, moves, dangling>>

\* What a use of a destroyed PerStream does is not defined: the model stops.
Next ==
  /\ ~dangling
  /\ \/ \E s \in Streams :
          \/ \E n \in Subs : SubscribeHot(s, n) \/ Unsubscribe(s, n)
          \/ SubscribeCold(s) \/ SayGoodbye(s)
          \/ ReceiveDown(s) \/ ReceiveUp(s) \/ ReceiveFromServer(s)
     \/ ReceiveDeliver \/ ReceiveTerminate \/ CheckRoutes \/ Reroute \/ NewUpdate

Spec == Init /\ [][Next]_vars

------------------------------------------------------------------------------
\* Type invariant of the streams, the collapsed pairs and the positions.
TypeInv ==
  /\ inbound \subseteq Streams /\ affinity \subseteq Streams /\ streams \subseteq Streams
  /\ upstream \subseteq streams /\ muxed \subseteq streams \X Subs
  /\ expected \in 0 .. MaxSeqno + 1 /\ pos \in 0 .. MaxSeqno

(* The two sides agree on who is collapsed: PerStream's handles are those   *)
(* the upstream subscription holds, and it exists exactly while it has any, *)
(* and so does the shard while it has streams (RemoveDownstream,            *)
(* RemoveFromIndex and CleanupState assert pieces of this).                 *)
Collapsed ==
  /\ downs = muxed
  /\ collapsed <=> downs # {}
  /\ shard <=> streams # {}

(* A collapsed subscriber misses no data: whatever the order of joins,      *)
(* leaves, rewinds and gaps, no data update lies between what it was given  *)
(* last and what the next broadcast carries.                                *)
NoUpdateMissed ==
  \A p \in downs : \A n \in 1 .. MaxSeqno : n > view[p] /\ n < expected => ~IsData[n]

(* The accumulator stays below its limit whenever an update that is not a   *)
(* snapshot may arrive (asserted by ConsumeUpdate).                         *)
RoomInAccumulator == pos # 0 => Len(updates) < CountLimit

(* A goodbye for a stream that is open at the downstream worker finds the   *)
(* stream's entry (CleanupState asserts that it erased one).                *)
AffinityKnown ==
  \A s \in inbound : down[s] # <<>> => s \in affinity

\* What the proxy keeps for the streams it collapses.
StreamProxySafe == TypeInv /\ Collapsed /\ NoUpdateMissed /\ RoomInAccumulator /\ AffinityKnown
=============================================================================
