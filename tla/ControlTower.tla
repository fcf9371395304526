---------------------------- MODULE ControlTower ----------------------------
(***************************************************************************)
(* The control tower and its rooms (controltower/tower.cc, room.cc,        *)
(* util/subscription_map.h).  The worker a copilot's stream belongs to     *)
(* forwards subscriptions by a queue to the room of the topic's log; the   *)
(* room's topic tailer (here: the set of its subscribers) feeds messages   *)
(* back by another queue to the stream's worker.  Requests for the tail of *)
(* a log are answered by the room or by a storage thread.  Workers, rooms  *)
(* and storage threads interleave freely.                                  *)
(***************************************************************************)
EXTENDS Integers, Sequences

CONSTANTS Workers,
          Rooms,
          Streams,
          WorkerOf,     \* worker of every stream
          Topics,
          RoomOf,       \* room of every topic's log, or NoLog
          NoLog,        \* the log router does not know the topic
          Subs,         \* subscription ids; a copilot never uses one twice
          None,
          MaxFeed,      \* bound: messages of the tailers
          MaxTails      \* bound: requests for tail sequence numbers

ASSUME StreamsAssumption == WorkerOf \in [Streams -> Workers] /\ None \notin Workers
ASSUME TopicsAssumption == RoomOf \in [Topics -> Rooms \cup {NoLog}] /\ None \notin Rooms /\ NoLog \notin Rooms
ASSUME SubsAssumption == None \notin Subs
ASSUME FeedAssumption == MaxFeed \in Nat /\ MaxTails \in Nat

VARIABLES open,        \* streams on which no goodbye has been received
          usedIds,     \* subscription ids used on every stream
          subToRoom,   \* sub_to_room_ of the worker of every stream
          toRoom,      \* tower_to_room_queues_
          subWorker,   \* sub_worker_ of every room
          subscribers, \* subscribers of the topic tailer of every room
          toClient,    \* room_to_client_queues_: recipients of the messages of each call
          finding,     \* FindLatestSeqno requests the storage is working on
          toWorker,    \* find_latest_seqno_response_queues_ and SendCommandToSelf
          fed, tails,  \* how often tailers fed and tails were asked for
          got          \* ghost: what every copilot was sent

rooms == <<subWorker, subscribers>>
towerVars == <<open, usedIds, subToRoom, toRoom, rooms, toClient, finding, toWorker, fed, tails, got>>

TowerInit ==
  /\ open = Streams
  /\ usedIds = [st \in Streams |-> {}]
  /\ subToRoom = [st \in Streams |-> [s \in Subs |-> None]]
  /\ toRoom = [w \in Workers |-> [r \in Rooms |-> <<>>]]
  /\ subWorker = [r \in Rooms |-> [st \in Streams |-> [s \in Subs |-> None]]]
  /\ subscribers = [r \in Rooms |-> {}]
  /\ toClient = [r \in Rooms |-> [w \in Workers |-> <<>>]]
  /\ finding = {}
  /\ toWorker = [w \in Workers |-> <<>>]
  /\ fed = 0 /\ tails = 0
  /\ got = [st \in Streams |-> {}]

Cmd(type, st, s, w) == [type |-> type, stream |-> st, sub |-> s, worker |-> w]

----------------------------------------------------------------------------
(* The tower, on the worker of the stream.                                 *)
----------------------------------------------------------------------------

SubscribeInvalid(st, s) ==
  /\ st \in open /\ s \notin usedIds[st]
  /\ usedIds' = [usedIds EXCEPT ![st] = @ \cup {s}]
  /\ toWorker' = [toWorker EXCEPT ![WorkerOf[st]] = Append(@, [stream |-> st, about |-> <<"invalid", s>>])]
  /\ UNCHANGED <<open, subToRoom, toRoom, rooms, toClient, finding, fed, tails, got>>

\* A topic the log router cannot map is dropped without an answer.
ProcessSubscribe(st, s, t) ==
  LET w == WorkerOf[st]
      r == RoomOf[t]
  IN  /\ st \in open /\ s \notin usedIds[st]
      /\ usedIds' = [usedIds EXCEPT ![st] = @ \cup {s}]
      /\ IF r = NoLog
           THEN UNCHANGED <<toRoom, subToRoom>>
           ELSE /\ toRoom' = [toRoom EXCEPT ![w][r] = Append(@, Cmd("subscribe", st, s, w))]
                /\ subToRoom' = [subToRoom EXCEPT ![st][s] = r]
      /\ UNCHANGED <<open, rooms, toClient, finding, toWorker, fed, tails, got>>

ProcessUnsubscribe(st, s) ==
  LET w == WorkerOf[st]
      r == subToRoom[st][s]
  IN  /\ st \in open
      /\ r # None
      /\ subToRoom' = [subToRoom EXCEPT ![st][s] = None]
      /\ toRoom' = [toRoom EXCEPT ![w][r] = Append(@, Cmd("unsubscribe", st, s, w))]
      /\ UNCHANGED <<open, usedIds, rooms, toClient, finding, toWorker, fed, tails, got>>

\* Mutant: the loop over the rooms ends after the first.
ToldOfGoodbyeNone(st) == {CHOOSE r \in Rooms : TRUE}

\* Every room is told of a goodbye.
ToldOfGoodbye(st) == Rooms

ProcessGoodbye(st) ==
  LET w == WorkerOf[st]
  IN  /\ st \in open
      /\ open' = open \ {st}
      /\ toRoom' = [toRoom EXCEPT ![w] = [r \in Rooms |->
           IF r \in ToldOfGoodbye(st) THEN Append(@[r], Cmd("goodbye", st, None, None)) ELSE @[r]]]
      /\ subToRoom' = [subToRoom EXCEPT ![st] = [s \in Subs |-> None]]
      /\ UNCHANGED <<usedIds, rooms, toClient, finding, toWorker, fed, tails, got>>

ProcessFindTailSeqno(st, t) ==
  LET w == WorkerOf[st]
  IN  /\ st \in open /\ tails < MaxTails
      /\ tails' = tails + 1
      /\ IF RoomOf[t] = NoLog
           THEN UNCHANGED toRoom
           ELSE toRoom' = [toRoom EXCEPT ![w][RoomOf[t]] = Append(@, Cmd("tail", st, None, w))]
      /\ UNCHANGED <<open, usedIds, subToRoom, rooms, toClient, finding, toWorker, fed, got>>

----------------------------------------------------------------------------
(* A room, on its own worker.                                              *)
----------------------------------------------------------------------------
\* Mutant: the topic tailer keeps a subscriber whose stream said goodbye.
TailerAfterGoodbyeKept(r, st) == subscribers[r]

TailerAfterGoodbye(r, st) == {x \in subscribers[r] : x[1] # st}

\* sub_worker_.Insert does not replace.
WorkerAfterSubscribe(r, c) ==
  [subWorker EXCEPT ![r][c.stream][c.sub] = IF @ = None THEN c.worker ELSE @]

RoomCommand(r, c) ==
  CASE c.type = "subscribe" ->
         /\ subWorker' = WorkerAfterSubscribe(r, c)
         /\ subscribers' = [subscribers EXCEPT ![r] = @ \cup {<<c.stream, c.sub>>}]
         /\ UNCHANGED <<finding, toWorker>>
    [] c.type = "unsubscribe" ->
         /\ subWorker' = [subWorker EXCEPT ![r][c.stream][c.sub] = None]
         /\ subscribers' = [subscribers EXCEPT ![r] = @ \ {<<c.stream, c.sub>>}]
         /\ UNCHANGED <<finding, toWorker>>
    [] c.type = "goodbye" ->
         /\ subWorker' = [subWorker EXCEPT ![r][c.stream] = [s \in Subs |-> None]]
         /\ subscribers' = [subscribers EXCEPT ![r] = TailerAfterGoodbye(r, c.stream)]
         /\ UNCHANGED <<finding, toWorker>>
    [] c.type = "tail" ->
         \* the tailer has an estimate, or the storage takes the request, or refuses it
         /\ UNCHANGED rooms
         /\ \/ /\ toWorker' = [toWorker EXCEPT ![c.worker] = Append(@, [stream |-> c.stream, about |-> <<"tail", None>>])]
               /\ UNCHANGED finding
            \/ finding' = finding \cup {<<c.stream, c.worker>>} /\ UNCHANGED toWorker
            \/ UNCHANGED <<finding, toWorker>>

RoomReceive(w, r) ==
  /\ toRoom[w][r] # <<>>
  /\ RoomCommand(r, Head(toRoom[w][r]))
  /\ toRoom' = [toRoom EXCEPT ![w][r] = Tail(@)]
  /\ UNCHANGED <<open, usedIds, subToRoom, toClient, fed, tails, got>>

\* The storage answers a request for the tail, or fails.
FoundLatestSeqno(x) ==
  /\ x \in finding
  /\ finding' = finding \ {x}
  /\ \/ toWorker' = [toWorker EXCEPT ![x[2]] = Append(@, [stream |-> x[1], about |-> <<"tail", None>>])]
     \/ UNCHANGED toWorker
  /\ UNCHANGED <<open, usedIds, subToRoom, toRoom, rooms, toClient, fed, tails, got>>

CopilotWorker(r, x) == subWorker[r][x[1]][x[2]]

\* OnTailerMessage: a record or a gap for some subscribers of the topic tailer, each
\* by the queue to its worker; the messages of one call are queued in any order.
OnTailerMessage(r, recipients) ==
  /\ fed < MaxFeed
  /\ recipients # {}
  /\ fed' = fed + 1
  /\ toClient' = [toClient EXCEPT ![r] = [w \in Workers |->
       LET served == {x \in recipients : CopilotWorker(r, x) = w}
       IN  IF served = {} THEN @[w] ELSE Append(@[w], served)]]
  /\ UNCHANGED <<open, usedIds, subToRoom, toRoom, rooms, finding, toWorker, tails, got>>

----------------------------------------------------------------------------
(* The worker of the stream sends a response, unless the stream has gone.  *)
----------------------------------------------------------------------------
Sent(w, m) ==
  got' = IF m.stream \in open /\ WorkerOf[m.stream] = w
           THEN [got EXCEPT ![m.stream] = @ \cup {m.about}] ELSE got

Without(q, x) == IF Head(q) = {x} THEN Tail(q) ELSE [q EXCEPT ![1] = Head(q) \ {x}]

SendFromRoom(r, w) ==
  /\ toClient[r][w] # <<>>
  /\ \E x \in Head(toClient[r][w]) :
       /\ Sent(w, [stream |-> x[1], about |-> <<"deliver", x[2]>>])
       /\ toClient' = [toClient EXCEPT ![r][w] = Without(@, x)]
  /\ UNCHANGED <<open, usedIds, subToRoom, toRoom, rooms, finding, toWorker, fed, tails>>

SendFromQueue(w) ==
  /\ toWorker[w] # <<>>
  /\ Sent(w, Head(toWorker[w]))
  /\ toWorker' = [toWorker EXCEPT ![w] = Tail(@)]
  /\ UNCHANGED <<open, usedIds, subToRoom, toRoom, rooms, toClient, finding, fed, tails>>

TowerNext ==
  \/ \E st \in Streams :
       \/ ProcessGoodbye(st)
       \/ \E s \in Subs : \/ SubscribeInvalid(st, s) \/ ProcessUnsubscribe(st, s)
                          \/ \E t \in Topics : ProcessSubscribe(st, s, t)
       \/ \E t \in Topics : ProcessFindTailSeqno(st, t)
  \/ \E w \in Workers, r \in Rooms : RoomReceive(w, r) \/ SendFromRoom(r, w)
  \/ \E w \in Workers : SendFromQueue(w)
  \/ \E x \in finding : FoundLatestSeqno(x)
  \/ \E r \in Rooms : \E recipients \in SUBSET subscribers[r] : OnTailerMessage(r, recipients)

TowerSpec == TowerInit /\ [][TowerNext]_towerVars

\* The event loops keep serving their queues.
TowerFairness ==
  /\ \A w \in Workers, r \in Rooms : WF_towerVars(RoomReceive(w, r)) /\ WF_towerVars(SendFromRoom(r, w))
  /\ \A w \in Workers : WF_towerVars(SendFromQueue(w))

----------------------------------------------------------------------------
Commands == [type : {"subscribe", "unsubscribe", "goodbye", "tail"}, stream : Streams,
             sub : Subs \cup {None}, worker : Workers \cup {None}]
Deliveries == SUBSET (Streams \X Subs)
Answers == [stream : Streams, about : ({"invalid"} \X Subs) \cup {<<"tail", None>>}]

\* The tables and queues of the tower and the rooms hold values of their types.
TowerTypeInv ==
  /\ open \subseteq Streams
  /\ usedIds \in [Streams -> SUBSET Subs]
  /\ subToRoom \in [Streams -> [Subs -> Rooms \cup {None}]]
  /\ toRoom \in [Workers -> [Rooms -> Seq(Commands)]]
  /\ subWorker \in [Rooms -> [Streams -> [Subs -> Workers \cup {None}]]]
  /\ subscribers \in [Rooms -> SUBSET (Streams \X Subs)]
  /\ toClient \in [Rooms -> [Workers -> Seq(Deliveries)]]
  /\ finding \subseteq Streams \X Workers
  /\ toWorker \in [Workers -> Seq(Answers)]
  /\ fed \in 0 .. MaxFeed /\ tails \in 0 .. MaxTails
  /\ got \in [Streams -> SUBSET (({"deliver", "invalid"} \X Subs) \cup {<<"tail", None>>})]

\* The command is on its way from the worker of the stream to the room.
Pending(c, st, r) == \E i \in DOMAIN toRoom[WorkerOf[st]][r] : toRoom[WorkerOf[st]][r][i] = c

\* CopilotWorker never answers -1 ("Unknown worker for subscription", room.cc:169): a
\* room's sub_worker_ names the worker of every subscriber its topic tailer feeds.
WorkerKnown ==
  \A r \in Rooms, st \in Streams, s \in Subs :
    subWorker[r][st][s] = IF <<st, s>> \in subscribers[r] THEN WorkerOf[st] ELSE None

\* sub_to_room_ and the rooms agree through the queues: a room serves a subscription the
\* tower has forgotten only while the command that removes it is on its way, and one the
\* tower remembers is served by its room or its subscribe is on its way.
AgreesWithRooms ==
  \A st \in Streams, s \in Subs, r \in Rooms :
    IF subToRoom[st][s] = r
      THEN <<st, s>> \in subscribers[r] \/ Pending(Cmd("subscribe", st, s, WorkerOf[st]), st, r)
      ELSE \/ <<st, s>> \notin subscribers[r]
           \/ Pending(Cmd("unsubscribe", st, s, WorkerOf[st]), st, r)
           \/ Pending(Cmd("goodbye", st, None, None), st, r)

\* A copilot is sent messages only about subscriptions it made on that stream, and is told
\* that a subscription is invalid only when no room ever served it.
OnlyOwn ==
  \A st \in Streams : \A m \in got[st] :
    m[2] # None => /\ m[2] \in usedIds[st]
                   /\ m[1] = "invalid" => /\ <<"deliver", m[2]>> \notin got[st]
                                          /\ \A r \in Rooms : <<st, m[2]>> \notin subscribers[r]

\* The tower and its rooms are consistent, whatever is on its way between them.
TowerSafe == TowerTypeInv /\ WorkerKnown /\ AgreesWithRooms /\ OnlyOwn

\* Nothing of the stream is left in the rooms or on its way back.
Forgotten(st) ==
  /\ \A r \in Rooms : \A s \in Subs : <<st, s>> \notin subscribers[r] /\ subWorker[r][st][s] = None
  /\ \A r \in Rooms : \A i \in 1..Len(toClient[r][WorkerOf[st]]) : \A x \in toClient[r][WorkerOf[st]][i] : x[1] # st

\* A stream that said goodbye leaves nothing behind: every room drops its subscriptions
\* and what was queued for it is dropped by its worker, for ever.
GoodbyeForgets == TowerFairness => \A st \in Streams : (st \notin open) ~> [](Forgotten(st))
=============================================================================
