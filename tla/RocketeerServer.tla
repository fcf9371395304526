-------------------------- MODULE RocketeerServer --------------------------
(***************************************************************************)
(* engine/rocketeer_server.cc and rocketeer.cc: the server an application  *)
(* builds its own data source on.  A CommunicationRocketeer keeps, on the  *)
(* thread of its event loop, the subscriptions of every inbound stream and *)
(* the last sequence number sent on each.  Subscribes, unsubscribes and    *)
(* goodbyes come from the streams; deliveries, gaps and terminations come  *)
(* as commands that any thread of the application queues, so they may      *)
(* arrive late, twice or in another order.  The application hears of new   *)
(* and ended subscriptions through a RetryLaterSink: it may refuse a call, *)
(* which is then retried, and the source of the call is held back.         *)
(***************************************************************************)
EXTENDS Integers, Sequences, FiniteSets

CONSTANTS Streams, Subs,     \* inbound streams, and the IDs subscribers use on them
          Starts,            \* sequence numbers subscribed from
          MaxSeqno,          \* bounds: sequence numbers of the application,
          MaxSubscribes,     \* subscribes sent,
          MaxCommands,       \* commands of the application,
          MaxQueue           \* messages under way on a stream

VARIABLES
  unopened, subscribers,   \* streams not opened yet, streams held open
  wire,                \* what subscribers sent on a stream
  subscribes, issued,  \* used up bounds
  inbound,       \* streams that GetInboundStream finds
  entries,       \* streams with an entry in inbound_subscriptions_
  prev,          \* InboundSubscription::prev_seqno by stream and ID, or None
  gauge,         \* Stats::inbound_subscriptions
  commands,      \* command queue of the worker's loop
  overflow,      \* SinkWithOverflow::overflow_ of metadata_sink_
  waiting,       \* next_time_ of the sink lies ahead
  held,          \* sources FlowControl disabled because of the sink
  known,         \* subscriptions the application has been told of
  broken,        \* the application was told of a start twice or of an end of nothing
  sent           \* messages sent on a subscription since its subscribe

stream == <<unopened, subscribers, wire, subscribes, inbound>>
rocketeer == <<entries, prev, gauge>>
sink == <<overflow, waiting, held>>
app == <<known, broken>>
vars == <<stream, rocketeer, issued, commands, sink, app, sent>>

Pairs == Streams \X Subs
None == 0 - 1
Application == 0   \* the command queue as a source, beside the streams
Active == {p \in Pairs : prev[p] # None}

Init ==
  /\ unopened = Streams /\ subscribers = {} /\ wire = [s \in Streams |-> <<>>] /\ subscribes = 0 /\ issued = 0
  /\ inbound = {} /\ entries = {} /\ prev = [p \in Pairs |-> None] /\ gauge = 0
  /\ commands = <<>> /\ overflow = <<>> /\ waiting = FALSE /\ held = {}
  /\ known = {} /\ broken = FALSE /\ sent = [p \in Pairs |-> <<>>]

------------------------------------------------------------------------------
(* Subscribers. *)

Send(s, m) ==
  /\ Len(wire[s]) < MaxQueue
  /\ wire' = [wire EXCEPT ![s] = Append(@, m)]
  /\ UNCHANGED <<rocketeer, issued, commands, sink, app, sent>>

SendSubscribe(s, i, n) ==
  /\ subscribes < MaxSubscribes /\ subscribes' = subscribes + 1
  /\ s \in unopened \cup subscribers   \* a stream that was closed is not opened again
  /\ unopened' = unopened \ {s} /\ subscribers' = subscribers \cup {s} /\ inbound' = inbound \cup {s}
  /\ Send(s, [type |-> "subscribe", sub |-> i, seqno |-> n])
SendUnsubscribe(s, i) ==
  /\ s \in subscribers
  /\ Send(s, [type |-> "unsubscribe", sub |-> i, seqno |-> 0])
  /\ UNCHANGED <<unopened, subscribers, subscribes, inbound>>
SendGoodbye(s) ==
  /\ s \in subscribers /\ subscribers' = subscribers \ {s}
  /\ Send(s, [type |-> "goodbye", sub |-> 0, seqno |-> 0])
  /\ UNCHANGED <<unopened, subscribes, inbound>>

------------------------------------------------------------------------------
(* The application, called through metadata_sink_. *)

Start(p) == [call |-> "start", pair |-> p]
End(p) == [call |-> "end", pair |-> p]

\* What the application knows, and whether the calls made sense, after a
\* sequence of calls.
Told[calls \in Seq([call : {"start", "end"}, pair : Pairs])] ==
  IF calls = <<>> THEN [known |-> known, broken |-> broken]
  ELSE LET before == Told[SubSeq(calls, 1, Len(calls) - 1)]
           last == calls[Len(calls)]
           fits == (last.call = "start") <=> (last.pair \notin before.known)
       IN [known |-> IF last.call = "start" THEN before.known \cup {last.pair} ELSE before.known \ {last.pair},
           broken |-> before.broken \/ ~fits]

Tell(calls) == known' = Told[calls].known /\ broken' = Told[calls].broken

\* Mutant: a call that is accepted goes before those that were refused.
NotifyOvertakes(source, calls) ==
  \/ Tell(calls) /\ UNCHANGED sink
  \/ /\ overflow' = overflow \o calls /\ waiting' = TRUE /\ held' = held \cup {source}
     /\ UNCHANGED app

\* SinkWithOverflow::Write of calls made by a source.  TryWrite makes no
\* call before next_time_, and the first call that is refused stays with
\* all the later ones.
Notify(source, calls) ==
  LET all == overflow \o calls IN
  \E n \in IF waiting THEN {0} ELSE 0 .. Len(all) :
    /\ Tell(SubSeq(all, 1, n))
    /\ overflow' = SubSeq(all, n + 1, Len(all))
    /\ waiting' = (overflow' # <<>>)
    /\ held' = IF overflow' # <<>> THEN held \cup {source} ELSE held

\* The write event of the sink: FlushPending, and the sources go on.
FlushPending ==
  /\ held # {} /\ ~waiting
  /\ \E n \in 0 .. Len(overflow) :
       /\ Tell(SubSeq(overflow, 1, n))
       /\ overflow' = SubSeq(overflow, n + 1, Len(overflow))
       /\ waiting' = (n < Len(overflow))
       /\ held' = IF n = Len(overflow) THEN {} ELSE held
  /\ UNCHANGED <<stream, rocketeer, issued, commands, sent>>

RetryTimeComes ==
  /\ waiting /\ waiting' = FALSE
  /\ UNCHANGED <<stream, rocketeer, issued, commands, overflow, held, app, sent>>

\* RocketeerServer::Deliver, DeliverBatch, Advance and Terminate: a command
\* for the thread the stream is mapped to.
Issue(c) ==
  /\ issued < MaxCommands /\ issued' = issued + 1
  /\ commands' = Append(commands, c)
  /\ UNCHANGED <<stream, rocketeer, sink, app, sent>>

Deliver(p, n) == Issue([type |-> "deliver", on |-> {p}, seqno |-> n])
DeliverBatch(s, n) == Issue([type |-> "deliver", on |-> {s} \X Subs, seqno |-> n])
Advance(p, n) == Issue([type |-> "advance", on |-> {p}, seqno |-> n])
Terminate(p) == Issue([type |-> "terminate", on |-> {p}, seqno |-> 0])

------------------------------------------------------------------------------
(* The worker's thread. *)

\* SendResponse: dropped when the stream is gone.
SendResponse(p, m) == IF p[1] \in inbound THEN Append(sent[p], m) ELSE sent[p]

\* CommunicationRocketeer::Receive(MessageSubscribe).
ReceiveSubscribe(s, m) ==
  LET p == <<s, m.sub>> IN
  /\ m.type = "subscribe"
  /\ entries' = entries \cup {s}
  /\ IF p \in Active
       THEN UNCHANGED <<prev, gauge, sink, app, sent>>
       ELSE /\ prev' = [prev EXCEPT ![p] = IF m.seqno = 0 THEN 0 ELSE m.seqno - 1]
            /\ sent' = [sent EXCEPT ![p] = <<[prev |-> 0, seqno |-> prev'[p], kind |-> "start"]>>]
            /\ gauge' = gauge + 1
            /\ Notify(s, <<Start(p)>>)
  /\ UNCHANGED inbound

\* CommunicationRocketeer::Receive(MessageUnsubscribe).
ReceiveUnsubscribe(s, m) ==
  LET p == <<s, m.sub>> IN
  /\ m.type = "unsubscribe"
  /\ IF p \in Active
       THEN /\ prev' = [prev EXCEPT ![p] = None] /\ gauge' = gauge - 1
            /\ Notify(s, <<End(p)>>)
            /\ entries' = IF \E q \in Active \ {p} : q[1] = s THEN entries ELSE entries \ {s}
       ELSE UNCHANGED <<rocketeer, sink, app>>
  /\ UNCHANGED <<inbound, sent>>

Orders(ps) == {q \in [1 .. Cardinality(ps) -> ps] : \A i, j \in DOMAIN q : q[i] = q[j] => i = j}

\* CommunicationRocketeer::Receive(MessageGoodbye); the event loop drops
\* the stream with it.
ReceiveGoodbye(s, m) ==
  LET ended == {p \in Active : p[1] = s} IN
  /\ m.type = "goodbye"
  /\ inbound' = inbound \ {s} /\ entries' = entries \ {s}
  /\ prev' = [p \in Pairs |-> IF p \in ended THEN None ELSE prev[p]]
  /\ gauge' = gauge - Cardinality(ended)
  /\ IF ended = {}
       THEN UNCHANGED <<sink, app>>
       ELSE \E order \in Orders(ended) : Notify(s, [i \in DOMAIN order |-> End(order[i])])
  /\ UNCHANGED sent

Receive(s) ==
  /\ wire[s] # <<>> /\ s \notin held
  /\ wire' = [wire EXCEPT ![s] = Tail(@)]
  /\ LET m == Head(wire[s]) IN
     ReceiveSubscribe(s, m) \/ ReceiveUnsubscribe(s, m) \/ ReceiveGoodbye(s, m)
  /\ UNCHANGED <<unopened, subscribers, subscribes, issued, commands>>

\* Find, and the check of prev_seqno.
Newer(c) == {p \in c.on : p \in Active /\ prev[p] < c.seqno}

\* CommunicationRocketeer::Deliver, DeliverBatch and Advance.
ExecuteDeliver(c) ==
  /\ c.type \in {"deliver", "advance"}
  /\ prev' = [p \in Pairs |-> IF p \in Newer(c) THEN c.seqno ELSE prev[p]]
  /\ sent' = [p \in Pairs |-> IF p \in Newer(c)
                THEN SendResponse(p, [prev |-> prev[p], seqno |-> c.seqno, kind |-> c.type]) ELSE sent[p]]
  /\ UNCHANGED <<entries, gauge, sink, app>>

\* CommunicationRocketeer::Terminate; it leaves the entry of the stream.
ExecuteTerminate(c) ==
  /\ c.type = "terminate"
  /\ IF c.on \subseteq Active
       THEN \E p \in c.on :
              /\ prev' = [prev EXCEPT ![p] = None] /\ gauge' = gauge - 1
              /\ Notify(Application, <<End(p)>>)
              /\ sent' = [sent EXCEPT ![p] = SendResponse(p, [prev |-> prev[p], seqno |-> prev[p], kind |-> "end"])]
       ELSE UNCHANGED <<prev, gauge, sink, app, sent>>
  /\ UNCHANGED entries

Execute ==
  /\ commands # <<>> /\ Application \notin held
  /\ commands' = Tail(commands)
  /\ ExecuteDeliver(Head(commands)) \/ ExecuteTerminate(Head(commands))
  /\ UNCHANGED <<stream, issued>>

Next ==
  \/ \E s \in Streams :
       \/ \E i \in Subs : SendUnsubscribe(s, i) \/ \E n \in Starts : SendSubscribe(s, i, n)
       \/ SendGoodbye(s) \/ Receive(s)
       \/ \E n \in 1 .. MaxSeqno : DeliverBatch(s, n)
  \/ \E p \in Pairs : Terminate(p) \/ \E n \in 1 .. MaxSeqno : Deliver(p, n) \/ Advance(p, n)
  \/ Execute \/ FlushPending \/ RetryTimeComes

Spec == Init /\ [][Next]_vars

------------------------------------------------------------------------------
\* Type invariant of the streams and subscriptions of the server.
TypeInv ==
  /\ entries \subseteq Streams /\ inbound \subseteq Streams /\ held \subseteq Streams \cup {Application}
  /\ prev \in [Pairs -> None .. MaxSeqno] /\ gauge \in 0 .. Cardinality(Pairs)

(* Each message continues where the last one on its subscription ended,     *)
(* and the subscriber hears nothing after the end, however late, often or   *)
(* badly ordered the application's commands were (the client drops an       *)
(* update that does not start where it expects).                            *)
Chained ==
  \A p \in Pairs : \A i \in 2 .. Len(sent[p]) :
    /\ sent[p][i].prev = sent[p][i - 1].seqno
    /\ sent[p][i].kind # "end" => sent[p][i].seqno > sent[p][i - 1].seqno
    /\ sent[p][i - 1].kind # "end"

(* Once the calls it refused have been retried the application knows of     *)
(* exactly the subscriptions there are; starts and ends alternate on every  *)
(* one.                                                                     *)
ApplicationInStep ==
  /\ ~broken
  /\ Told[overflow].known = Active /\ ~Told[overflow].broken

(* Calls that wait hold back a source, so that the write event of the sink  *)
(* is enabled and will retry them.                                          *)
RetryIsDue == overflow # <<>> => held # {}

(* A stream that said goodbye leaves nothing behind, and the gauge counts   *)
(* what is there.                                                           *)
NothingLeftBehind ==
  /\ \A p \in Active : p[1] \in entries
  /\ entries \subseteq inbound
  /\ gauge = Cardinality(Active)

\* What the server keeps for its streams and for the application.
RocketeerSafe == TypeInv /\ Chained /\ ApplicationInStep /\ RetryIsDue /\ NothingLeftBehind
=============================================================================
