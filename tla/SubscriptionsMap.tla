-------------------------- MODULE SubscriptionsMap --------------------------
(***************************************************************************)
(* client/subscriptions_map.cc: the subscriptions a client (or the proxy's *)
(* multiplexer) holds on one topic, replicated to a server over a stream   *)
(* that may be lost and reopened at any time.                              *)
(*                                                                         *)
(* A subscription is pending until its Subscribe is written to the stream  *)
(* and synced from then on.  Both sets, and the IDs still to be            *)
(* unsubscribed, are unordered and drained element by element when the     *)
(* stream has room.  A stream is a FIFO in each direction; losing it loses *)
(* what is in flight and every subscription the server held on it.         *)
(*                                                                         *)
(* The server is the environment and keeps the promise TopicFeed: it holds *)
(* a position per subscription and each message it sends covers it.        *)
(***************************************************************************)
EXTENDS Integers, Sequences

CONSTANTS Ids,        \* subscription IDs, each used for one subscription
          Starts,     \* sequence numbers to subscribe from, 0 = tail
          Topic, Gap, NoTopic,
          MaxLog,     \* bounds: entries of the log,
          MaxFlight,  \* messages in flight in each direction,
          MaxStreams, \* streams opened,
          MaxRewinds  \* subscriptions rewound by the multiplexer

ASSUME StartsAssumption == Starts \subseteq Nat
ASSUME TopicAssumption == NoTopic # Topic
ASSUME BoundsAssumption == MaxStreams \in Nat /\ MaxRewinds \in Nat

VARIABLES log,        \* log of the topic: Topic for its records, Gap for others
          fresh,      \* IDs not used yet
          pending,    \* pending_subscriptions_
          synced,     \* synced_subscriptions_
          unsubs,     \* pending_unsubscribes_
          expected,   \* SubscriptionBase::expected_seqno_
          sink,       \* sink_ is set: a stream is open
          toServer,   \* messages on their way to the server
          toClient,   \* messages on their way from the server
          held,       \* subscriptions the server holds on the stream
          pos,        \* position of each of them, 0 = tail not known yet
          out,        \* updates passed to deliver_cb_ by the last handler
          streams,    \* streams opened so far
          rewinds     \* rewinds so far

mapVars == <<fresh, pending, synced, unsubs, expected, sink, toServer, toClient,
             held, pos, streams, rewinds>>
subscriptionVars == <<log, mapVars, out>>

Sub(id, n) == [type |-> "subscribe", id |-> id, seqno |-> n]
Unsub(id) == [type |-> "unsubscribe", id |-> id, seqno |-> 0]
Deliver(id, kind, prev, n) ==
  [type |-> "deliver", id |-> id, kind |-> kind, prev |-> prev, seqno |-> n]
Terminate(id) == [type |-> "terminate", id |-> id, kind |-> "gap", prev |-> 0, seqno |-> 0]

Active == pending \cup synced

MapInit ==
  /\ log = <<>> /\ fresh = Ids /\ pending = {} /\ synced = {} /\ unsubs = {}
  /\ expected = [i \in Ids |-> 0] /\ sink = FALSE
  /\ toServer = <<>> /\ toClient = <<>> /\ held = {} /\ pos = [i \in Ids |-> 0]
  /\ out = {} /\ streams = 0 /\ rewinds = 0

------------------------------------------------------------------------------
(* Calls of the user of the map. *)

Subscribe(id, n) ==
  /\ id \in fresh
  /\ fresh' = fresh \ {id} /\ pending' = pending \cup {id}
  /\ expected' = [expected EXCEPT ![id] = n] /\ out' = {}
  /\ UNCHANGED <<log, synced, unsubs, sink, toServer, toClient, held, pos, streams, rewinds>>

\* An Unsubscribe is due only if the Subscribe has been written.
Unsubscribe(id) ==
  /\ id \in Active
  /\ pending' = pending \ {id} /\ synced' = synced \ {id}
  /\ unsubs' = IF id \in synced THEN unsubs \cup {id} ELSE unsubs
  /\ expected' = [expected EXCEPT ![id] = 0] /\ out' = {}
  /\ UNCHANGED <<log, fresh, sink, toServer, toClient, held, pos, streams, rewinds>>

------------------------------------------------------------------------------
(* The sources that feed the stream. *)

HandlePendingSubscription(id) ==
  /\ sink /\ id \in pending /\ Len(toServer) < MaxFlight
  /\ toServer' = Append(toServer, Sub(id, expected[id]))
  /\ pending' = pending \ {id} /\ synced' = synced \cup {id} /\ out' = {}
  /\ UNCHANGED <<log, fresh, unsubs, expected, sink, toClient, held, pos, streams, rewinds>>

HandlePendingUnsubscription(id) ==
  /\ sink /\ id \in unsubs /\ Len(toServer) < MaxFlight
  /\ toServer' = Append(toServer, Unsub(id))
  /\ unsubs' = unsubs \ {id} /\ out' = {}
  /\ UNCHANGED <<log, fresh, pending, synced, expected, sink, toClient, held, pos, streams, rewinds>>

------------------------------------------------------------------------------
(* The stream. *)

\* Mutant: what was synced on the old stream is taken to be known on the new one.
ConnectionCreatedSynced ==
  /\ ~sink /\ streams < MaxStreams
  /\ sink' = TRUE /\ streams' = streams + 1
  /\ unsubs' = {} /\ out' = {}
  /\ UNCHANGED <<log, fresh, pending, synced, expected, toServer, toClient, held, pos, rewinds>>

\* Every subscription is pending again on a new stream and nothing is left to
\* be unsubscribed.
ConnectionCreated ==
  /\ ~sink /\ streams < MaxStreams
  /\ sink' = TRUE /\ streams' = streams + 1
  /\ pending' = Active /\ synced' = {} /\ unsubs' = {} /\ out' = {}
  /\ UNCHANGED <<log, fresh, expected, toServer, toClient, held, pos, rewinds>>

\* The sources are disabled and the stream is destroyed, with all that is in
\* flight and all that the server holds on it.
ConnectionDropped ==
  /\ sink /\ sink' = FALSE
  /\ toServer' = <<>> /\ toClient' = <<>> /\ held' = {}
  /\ pos' = [i \in Ids |-> 0] /\ out' = {}
  /\ UNCHANGED <<log, fresh, pending, synced, unsubs, expected, streams, rewinds>>

\* Mutant: an update that starts past the expected number is let through and
\* one at the expected number is taken to be old.
ProcessUpdateLate(e, m) == /\ e = 0 => m.prev = 0
                           /\ e < m.seqno

\* SubscriptionBase::ProcessUpdate: is update m accepted where e is expected?
ProcessUpdate(e, m) == /\ e = 0 => m.prev = 0
                       /\ e <= m.seqno
                       /\ m.prev <= e

Receive(type) == /\ toClient # <<>> /\ Head(toClient).type = type
                 /\ toClient' = Tail(toClient)

Accepts(m) == m.id \in synced /\ ProcessUpdate(expected[m.id], m)

\* An update is dropped if its subscription is gone or does not expect it.
ReceiveDeliver ==
  /\ Receive("deliver")
  /\ LET m == Head(toClient)
     IN IF Accepts(m)
          THEN expected' = [expected EXCEPT ![m.id] = m.seqno + 1] /\ out' = {m}
          ELSE UNCHANGED expected /\ out' = {}
  /\ UNCHANGED <<log, fresh, pending, synced, unsubs, sink, toServer, held, pos, streams, rewinds>>

\* deliver_cb_ is Multiplexer::ReceiveDeliver and its accumulator asks for a
\* new snapshot: Rewind to sequence number 0 under a new ID.
ReceiveDeliverRewind(new) ==
  /\ rewinds < MaxRewinds /\ new \in fresh /\ Receive("deliver")
  /\ LET m == Head(toClient)
     IN /\ Accepts(m)
        /\ fresh' = fresh \ {new} /\ synced' = synced \ {m.id}
        /\ pending' = pending \cup {new} /\ unsubs' = unsubs \cup {m.id}
        /\ expected' = [expected EXCEPT ![m.id] = 0, ![new] = 0] /\ out' = {m}
  /\ rewinds' = rewinds + 1
  /\ UNCHANGED <<log, sink, toServer, held, pos, streams>>

\* The server ended a subscription; a race with Unsubscribe is ignored.
ReceiveUnsubscribe ==
  /\ Receive("terminate")
  /\ LET id == Head(toClient).id
     IN IF id \in synced
          THEN synced' = synced \ {id} /\ expected' = [expected EXCEPT ![id] = 0]
          ELSE UNCHANGED <<synced, expected>>
  /\ out' = {}
  /\ UNCHANGED <<log, fresh, pending, unsubs, sink, toServer, held, pos, streams, rewinds>>

------------------------------------------------------------------------------
(* The server and the log. *)

AppendEntry ==
  /\ Len(log) < MaxLog
  /\ \E e \in {Topic, Gap} : log' = Append(log, e)
  /\ out' = {} /\ UNCHANGED mapVars

ServerReceive ==
  /\ toServer # <<>> /\ toServer' = Tail(toServer)
  /\ LET m == Head(toServer)
     IN IF m.type = "subscribe"
          THEN held' = held \cup {m.id} /\ pos' = [pos EXCEPT ![m.id] = m.seqno]
          ELSE held' = held \ {m.id} /\ pos' = [pos EXCEPT ![m.id] = 0]
  /\ out' = {}
  /\ UNCHANGED <<log, fresh, pending, synced, unsubs, expected, sink, toClient, streams, rewinds>>

ServerSends(id, m) ==
  /\ id \in held /\ Len(toClient) < MaxFlight
  /\ toClient' = Append(toClient, m) /\ out' = {}
  /\ UNCHANGED <<log, fresh, pending, synced, unsubs, expected, sink, toServer, streams, rewinds>>

\* The next record of the topic, or a gap that covers entries of other topics.
ServerDeliver(id) ==
  /\ pos[id] # 0 /\ UNCHANGED held
  /\ \E n \in pos[id] .. Len(log) :
       /\ \A k \in pos[id] .. n - 1 : log[k] # Topic
       /\ pos' = [pos EXCEPT ![id] = n + 1]
       /\ ServerSends(id, Deliver(id, IF log[n] = Topic THEN "data" ELSE "gap", pos[id], n))

\* A subscription at the tail starts at a position of the log so far.
ServerFoundTail(id) ==
  /\ pos[id] = 0 /\ UNCHANGED held
  /\ \E q \in 1 .. Len(log) + 1 : /\ pos' = [pos EXCEPT ![id] = q]
                                  /\ ServerSends(id, Deliver(id, "gap", 0, q - 1))

\* The server refuses or ends a subscription.
ServerTerminate(id) ==
  /\ held' = held \ {id} /\ pos' = [pos EXCEPT ![id] = 0]
  /\ ServerSends(id, Terminate(id))

------------------------------------------------------------------------------

MapNext ==
  \/ \E id \in Ids, n \in Starts : Subscribe(id, n)
  \/ \E id \in Ids : \/ Unsubscribe(id)
                     \/ HandlePendingSubscription(id) \/ HandlePendingUnsubscription(id)
                     \/ ReceiveDeliverRewind(id)
                     \/ ServerDeliver(id) \/ ServerFoundTail(id) \/ ServerTerminate(id)
  \/ ConnectionCreated \/ ConnectionDropped \/ ReceiveDeliver \/ ReceiveUnsubscribe
  \/ AppendEntry \/ ServerReceive

MapSpec == MapInit /\ [][MapNext]_subscriptionVars

------------------------------------------------------------------------------
(* Properties. *)

Requests == [type : {"subscribe", "unsubscribe"}, id : Ids, seqno : Nat]
Updates == [type : {"deliver", "terminate"}, id : Ids, kind : {"data", "gap"}, prev : Nat, seqno : Nat]

Messages(q) == {q[k] : k \in 1 .. Len(q)}
InTransit(m) == m \in Messages(toServer)
Subscribing(id) == \E m \in Messages(toServer) : m.type = "subscribe" /\ m.id = id
Terminating(id) == Terminate(id) \in Messages(toClient)

\* The state is well formed: an ID is unused, pending or synced, never two of
\* them, and nothing is in flight or held by the server without a stream.
MapTypeInv ==
  /\ log \in Seq({Topic, Gap})
  /\ fresh \subseteq Ids /\ pending \subseteq Ids /\ synced \subseteq Ids /\ unsubs \subseteq Ids
  /\ fresh \cap Active = {} /\ pending \cap synced = {}
  /\ expected \in [Ids -> Nat] /\ pos \in [Ids -> Nat] /\ held \subseteq Ids
  /\ sink \in BOOLEAN /\ streams \in 0 .. MaxStreams /\ rewinds \in 0 .. MaxRewinds
  /\ toServer \in Seq(Requests) /\ toClient \in Seq(Updates)
  /\ ~sink => toServer = <<>> /\ toClient = <<>> /\ held = {}

\* No message from the server refers to a subscription that is pending: the
\* sanity check of ReceiveDeliver and ReceiveUnsubscribe, over every order of
\* reconnects, rewinds and messages in flight.
NotPending == \A m \in Messages(toClient) : m.id \notin pending

\* Client and server agree up to what is in flight.  A synced subscription is
\* held by the server, on its way there, or ended by the server; and what the
\* server holds or is about to hold is synced or about to be unsubscribed, so
\* that no subscription leaks on the server.
Mirrored ==
  /\ \A id \in synced : sink => (id \in held \/ Subscribing(id) \/ Terminating(id))
  /\ \A id \in Ids : (id \in held \/ Subscribing(id)) =>
                      (id \in synced \/ id \in unsubs \/ InTransit(Unsub(id)))

\* ProcessUpdate never drops an update of a live subscription: a server that
\* keeps its promise sends exactly what the client expects next, also after a
\* reconnect has resubscribed from expected_seqno_.
EveryUpdateFits ==
  toClient # <<>> /\ Head(toClient).type = "deliver" /\ Head(toClient).id \in synced
    => Accepts(Head(toClient))

\* What the client and the server keep together, whatever is in flight.
MapSafe == MapTypeInv /\ NotPending /\ Mirrored /\ EveryUpdateFits

Feed == INSTANCE TopicFeed WITH
  Topics <- {Topic}, Subs <- Ids, requests <- 0, cursor <- expected,
  topic <- [s \in Ids |-> IF s \in Active THEN Topic ELSE NoTopic],
  out <- {[sub |-> m.id, kind |-> m.kind, prev |-> m.prev, seqno |-> m.seqno] : m \in out}

\* The application sees what a control tower promises the copilot: a cursor that moves only
\* with an update, and no record of the topic skipped or repeated, whatever streams are lost
\* on the way (ProcessUpdate).  A rewind starts over under another id.
FeedSpec == Feed!Init /\ [][rewinds' = rewinds => Feed!Next]_(Feed!vars)
=============================================================================
