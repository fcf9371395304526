---------------------------- MODULE ClientProofs ----------------------------
(***************************************************************************)
(* Proofs about the client's subscriptions: the map of SubscriptionsMap    *)
(* and the server agree whatever is in flight, and the application sees    *)
(* the feed that TopicFeed promises, for every number of subscriptions,    *)
(* streams, rewinds and messages in flight; and the subscriber of          *)
(* ClientSubscriber, which drives the map, keeps its own books.            *)
(*                                                                         *)
(* The agreement rests on an invariant of the two FIFO directions of the   *)
(* stream.  A Subscribe is the first message about its ID on a stream, and *)
(* nothing comes back until it has arrived.  From then on the updates in   *)
(* flight about a synced subscription chain from expected_seqno_ to the    *)
(* position the server holds (Chained).                                    *)
(***************************************************************************)
EXTENDS ClientSubscriber, FiniteSetTheorems, TLAPS

(* The inductive invariant of the map. *)

\* Queue q has a message about id.
About(q, id) == \E m \in Messages(q) : m.id = id

\* Nothing is known of an ID on the stream before its Subscribe is written.
Quiet ==
  \A id \in fresh \cup pending :
    id \notin held /\ id \notin unsubs /\ ~About(toServer, id) /\ ~About(toClient, id)

\* A Subscribe is the first message about its ID.
SubscribesFirst(q) ==
  \A j, k \in 1 .. Len(q) : j < k /\ q[k].type = "subscribe" => q[j].id # q[k].id

\* The server has heard nothing of an ID whose Subscribe is in flight.
Unheard == \A id \in Ids : Subscribing(id) => id \notin held /\ ~About(toClient, id)

\* No Unsubscribe of a synced subscription is due or in flight.
NotLeaving ==
  \A id \in synced :
    id \notin unsubs /\ \A m \in Messages(toServer) : m.type = "unsubscribe" => m.id # id

\* A Subscribe in flight of a synced subscription is at its expected number.
SubscribesCurrent ==
  \A m \in Messages(toServer) :
    m.type = "subscribe" /\ m.id \in synced => m.seqno = expected[m.id]

\* The messages about id in q lead from expected number e to position p of the
\* server, if it holds the subscription (h).  Only the last may be a Terminate.
Chain(q, id, e, h, p) ==
  /\ \A k \in 1 .. Len(q) :
       q[k].id = id /\ q[k].type = "deliver" /\ (\A j \in 1 .. k - 1 : q[j].id # id) => q[k].prev = e
  /\ \A j, k \in 1 .. Len(q) :
       j < k /\ q[j].id = id /\ q[k].id = id =>
         /\ q[j].type = "deliver"
         /\ q[k].type = "deliver" /\ (\A i \in j + 1 .. k - 1 : q[i].id # id)
              => q[k].prev = q[j].seqno + 1
  /\ \A k \in 1 .. Len(q) :
       h /\ q[k].id = id =>
         /\ q[k].type = "deliver"
         /\ (\A j \in k + 1 .. Len(q) : q[j].id # id) => p = q[k].seqno + 1
  /\ h /\ (\A k \in 1 .. Len(q) : q[k].id # id) => p = e
Chained == \A id \in synced : Chain(toClient, id, expected[id], id \in held, pos[id])

\* An update in flight covers the entries from prev to seqno of the log, and
\* no record of the topic but its own.
True(m, l) ==
  m.type = "deliver" =>
    /\ m.prev <= m.seqno /\ m.seqno <= Len(l)
    /\ m.prev = 0 => m.kind = "gap"
    /\ m.prev # 0 => /\ \A n \in m.prev .. m.seqno - 1 : l[n] # Topic
                     /\ m.kind = "data" <=> l[m.seqno] = Topic
Truthful == \A m \in Messages(toClient) : True(m, log)

MapIInv ==
  /\ MapTypeInv /\ Quiet /\ SubscribesFirst(toServer) /\ Unheard /\ NotLeaving
  /\ SubscribesCurrent /\ Mirrored /\ Chained /\ Truthful

------------------------------------------------------------------------------
(* Queues. *)

\* What Append does to a queue.
LEMMA Appended ==
  ASSUME NEW S, NEW q \in Seq(S), NEW m \in S
  PROVE  /\ Append(q, m) \in Seq(S) /\ Len(q) \in Nat /\ Len(Append(q, m)) = Len(q) + 1
         /\ \A k \in 1 .. Len(q) : Append(q, m)[k] = q[k]
         /\ Append(q, m)[Len(q) + 1] = m
  OBVIOUS

\* What Head and Tail are of a queue with a message.
LEMMA Popped ==
  ASSUME NEW S, NEW q \in Seq(S), q # <<>>
  PROVE  /\ Tail(q) \in Seq(S) /\ Len(q) \in Nat \ {0} /\ Len(Tail(q)) = Len(q) - 1
         /\ \A k \in 1 .. Len(Tail(q)) : Tail(q)[k] = q[k + 1]
         /\ Head(q) = q[1] /\ Head(q) \in S
  OBVIOUS

\* Append adds its message to those of the queue.
LEMMA MessagesAppended ==
  ASSUME NEW S, NEW q \in Seq(S), NEW m \in S
  PROVE  Messages(Append(q, m)) = Messages(q) \cup {m}
  <1>1. /\ Len(q) \in Nat /\ Len(Append(q, m)) = Len(q) + 1
        /\ \A k \in 1 .. Len(q) : Append(q, m)[k] = q[k]
        /\ Append(q, m)[Len(q) + 1] = m
    BY Appended
  <1> QED  BY <1>1 DEF Messages

\* The messages of a queue are its head and those of its tail.
LEMMA MessagesPopped ==
  ASSUME NEW S, NEW q \in Seq(S), q # <<>>
  PROVE  Messages(q) = {Head(q)} \cup Messages(Tail(q))
  <1>1. /\ Len(q) \in Nat \ {0} /\ Len(Tail(q)) = Len(q) - 1
        /\ \A k \in 1 .. Len(Tail(q)) : Tail(q)[k] = q[k + 1]
        /\ Head(q) = q[1]
    BY Popped
  <1>2. ASSUME NEW k \in 1 .. Len(q), k # 1  PROVE q[k] \in Messages(Tail(q))
    <2>1. k - 1 \in 1 .. Len(Tail(q)) /\ Tail(q)[k - 1] = q[k]  BY <1>1, <1>2
    <2> QED  BY <2>1 DEF Messages
  <1>3. ASSUME NEW k \in 1 .. Len(Tail(q))  PROVE Tail(q)[k] \in Messages(q)
    <2>1. k + 1 \in 1 .. Len(q) /\ Tail(q)[k] = q[k + 1]  BY <1>1
    <2> QED  BY <2>1 DEF Messages
  <1>4. q[1] \in Messages(q)  BY <1>1 DEF Messages
  <1>5. Messages(q) \subseteq {Head(q)} \cup Messages(Tail(q))  BY <1>1, <1>2 DEF Messages
  <1>6. Messages(Tail(q)) \subseteq Messages(q)  BY <1>3 DEF Messages
  <1> QED  BY Zenon, <1>1, <1>4, <1>5, <1>6

\* The messages of a queue have the type of its elements; an empty one has none.
LEMMA MessagesTyped ==
  ASSUME NEW S, NEW q \in Seq(S)
  PROVE  Messages(q) \subseteq S
  BY DEF Messages
LEMMA MessagesEmpty == Messages(<<>>) = {}
  BY DEF Messages

\* A message that follows every other keeps Subscribes first, unless it is one
\* about an ID the queue has heard of; and so does taking the head.
LEMMA FirstAppended ==
  ASSUME NEW q \in Seq(Requests), NEW m \in Requests, SubscribesFirst(q),
         m.type = "subscribe" => ~About(q, m.id)
  PROVE  SubscribesFirst(Append(q, m))
  <1> DEFINE r == Append(q, m)
  <1>1. /\ Len(q) \in Nat /\ Len(r) = Len(q) + 1 /\ r[Len(q) + 1] = m
        /\ \A k \in 1 .. Len(q) : r[k] = q[k]
    BY Appended
  <1> HIDE DEF r
  <1>2. ASSUME NEW j \in 1 .. Len(r), NEW k \in 1 .. Len(r), j < k, r[k].type = "subscribe"
        PROVE  r[j].id # r[k].id
    <2>1. j \in 1 .. Len(q) /\ r[j] = q[j]  BY <1>1, <1>2
    <2>2. CASE k \in 1 .. Len(q)  BY <1>1, <1>2, <2>1, <2>2 DEF SubscribesFirst
    <2>3. CASE k = Len(q) + 1
      <3>1. q[j] \in Messages(q)  BY <2>1 DEF Messages
      <3> QED  BY <1>1, <1>2, <2>1, <2>3, <3>1 DEF About
    <2> QED  BY <1>1, <2>2, <2>3
  <1>3. SubscribesFirst(r)  BY <1>2 DEF SubscribesFirst
  <1> QED  BY <1>3 DEF r

\* Of the messages behind the head none is a Subscribe of its ID.
LEMMA FirstPopped ==
  ASSUME NEW q \in Seq(Requests), q # <<>>, SubscribesFirst(q)
  PROVE  /\ SubscribesFirst(Tail(q))
         /\ \A m \in Messages(Tail(q)) : m.type = "subscribe" => m.id # Head(q).id
  <1> DEFINE r == Tail(q)
  <1>1. /\ Len(q) \in Nat \ {0} /\ Len(r) = Len(q) - 1 /\ Head(q) = q[1]
        /\ \A k \in 1 .. Len(r) : r[k] = q[k + 1]
    BY Popped
  <1> HIDE DEF r
  <1>2. ASSUME NEW j \in 1 .. Len(r), NEW k \in 1 .. Len(r), j < k, r[k].type = "subscribe"
        PROVE  r[j].id # r[k].id
    <2>1. /\ j + 1 \in 1 .. Len(q) /\ k + 1 \in 1 .. Len(q) /\ j + 1 < k + 1
          /\ r[j] = q[j + 1] /\ r[k] = q[k + 1]
      BY <1>1, <1>2
    <2> QED  BY <1>2, <2>1 DEF SubscribesFirst
  <1>3. ASSUME NEW k \in 1 .. Len(r), r[k].type = "subscribe"  PROVE r[k].id # Head(q).id
    <2>1. 1 \in 1 .. Len(q) /\ k + 1 \in 1 .. Len(q) /\ 1 < k + 1 /\ r[k] = q[k + 1]  BY <1>1
    <2> QED  BY <1>1, <1>3, <2>1 DEF SubscribesFirst
  <1>4. SubscribesFirst(r)  BY <1>2 DEF SubscribesFirst
  <1>5. \A m \in Messages(r) : m.type = "subscribe" => m.id # Head(q).id  BY <1>3 DEF Messages
  <1> QED  BY <1>4, <1>5 DEF r

\* The server appends an update of its position: the chain grows by it.
LEMMA ChainDelivered ==
  ASSUME NEW q \in Seq(Updates), NEW m \in Updates, NEW e, NEW p,
         m.type = "deliver", m.prev = p, Chain(q, m.id, e, TRUE, p)
  PROVE  Chain(Append(q, m), m.id, e, TRUE, m.seqno + 1)
  <1> DEFINE r == Append(q, m)
  <1>1. /\ Len(q) \in Nat /\ Len(r) = Len(q) + 1 /\ r[Len(q) + 1] = m
        /\ \A k \in 1 .. Len(q) : r[k] = q[k]
    BY Appended
  <1> HIDE DEF r
  <1>2. ASSUME NEW k \in 1 .. Len(r), r[k].id = m.id, r[k].type = "deliver",
               \A j \in 1 .. k - 1 : r[j].id # m.id
        PROVE  r[k].prev = e
    <2>1. CASE k \in 1 .. Len(q)
      <3>1. q[k] = r[k] /\ \A j \in 1 .. k - 1 : q[j].id # m.id  BY <1>1, <1>2, <2>1
      <3> QED  BY Zenon, <1>2, <2>1, <3>1 DEF Chain
    <2>2. CASE k = Len(q) + 1
      <3>1. \A j \in 1 .. Len(q) : q[j].id # m.id  BY <1>1, <1>2, <2>2
      <3> QED  BY <1>1, <3>1, <2>2 DEF Chain
    <2> QED  BY <1>1, <2>1, <2>2
  <1>3. ASSUME NEW k \in 1 .. Len(r), r[k].id = m.id  PROVE r[k].type = "deliver"
    BY <1>1, <1>3 DEF Chain
  <1>4. ASSUME NEW j \in 1 .. Len(r), NEW k \in 1 .. Len(r),
               j < k, r[j].id = m.id, r[k].id = m.id, \A i \in j + 1 .. k - 1 : r[i].id # m.id
        PROVE  r[k].prev = r[j].seqno + 1
    <2>1. j \in 1 .. Len(q) /\ q[j] = r[j]  BY <1>1, <1>4
    <2>2. CASE k \in 1 .. Len(q)
      <3>1. \A i \in j + 1 .. k - 1 : q[i].id # m.id  BY <1>1, <1>4, <2>2
      <3>2. q[k] = r[k] /\ q[k].type = "deliver"  BY <1>1, <1>3, <1>4, <2>2
      <3> QED  BY <1>4, <2>1, <2>2, <3>1, <3>2 DEF Chain
    <2>3. CASE k = Len(q) + 1
      <3>1. \A i \in j + 1 .. Len(q) : q[i].id # m.id  BY <1>1, <1>4, <2>3
      <3>2. p = q[j].seqno + 1  BY <1>4, <2>1, <3>1 DEF Chain
      <3> QED  BY <1>1, <2>1, <3>2, <2>3
    <2> QED  BY <1>1, <2>2, <2>3
  <1>5. ASSUME NEW k \in 1 .. Len(r), r[k].id = m.id, \A j \in k + 1 .. Len(r) : r[j].id # m.id
        PROVE  m.seqno + 1 = r[k].seqno + 1
    <2>1. k = Len(q) + 1  BY <1>1, <1>5
    <2> QED  BY <1>1, <2>1
  <1>6. \E k \in 1 .. Len(r) : r[k].id = m.id
    <2>1. Len(q) + 1 \in 1 .. Len(r) /\ r[Len(q) + 1].id = m.id  BY <1>1
    <2> QED  BY <2>1
  <1>7. Chain(r, m.id, e, TRUE, m.seqno + 1)  BY Zenon, <1>2, <1>3, <1>4, <1>5, <1>6 DEF Chain
  <1> QED  BY <1>7 DEF r

\* The server appends a Terminate: the chain ends.
LEMMA ChainTerminated ==
  ASSUME NEW q \in Seq(Updates), NEW m \in Updates, NEW e, NEW p, NEW p2,
         m.type = "terminate", Chain(q, m.id, e, TRUE, p)
  PROVE  Chain(Append(q, m), m.id, e, FALSE, p2)
  <1> DEFINE r == Append(q, m)
  <1>1. /\ Len(q) \in Nat /\ Len(r) = Len(q) + 1 /\ r[Len(q) + 1] = m
        /\ \A k \in 1 .. Len(q) : r[k] = q[k]
    BY Appended
  <1> HIDE DEF r
  <1>2. ASSUME NEW k \in 1 .. Len(r), r[k].id = m.id, r[k].type = "deliver",
               \A j \in 1 .. k - 1 : r[j].id # m.id
        PROVE  r[k].prev = e
    <2>1. k \in 1 .. Len(q) /\ q[k] = r[k]  BY <1>1, <1>2
    <2>2. \A j \in 1 .. k - 1 : q[j].id # m.id  BY <1>1, <1>2, <2>1
    <2> QED  BY Zenon, <1>2, <2>1, <2>2 DEF Chain
  <1>3. ASSUME NEW j \in 1 .. Len(r), NEW k \in 1 .. Len(r), j < k, r[j].id = m.id, r[k].id = m.id
        PROVE  r[j].type = "deliver"
    <2>1. j \in 1 .. Len(q) /\ q[j] = r[j]  BY <1>1, <1>3
    <2> QED  BY <1>3, <2>1 DEF Chain
  <1>4. ASSUME NEW j \in 1 .. Len(r), NEW k \in 1 .. Len(r), j < k, r[j].id = m.id, r[k].id = m.id,
               r[k].type = "deliver", \A i \in j + 1 .. k - 1 : r[i].id # m.id
        PROVE  r[k].prev = r[j].seqno + 1
    <2>1. j \in 1 .. Len(q) /\ q[j] = r[j] /\ k \in 1 .. Len(q) /\ q[k] = r[k]  BY <1>1, <1>4
    <2>2. \A i \in j + 1 .. k - 1 : q[i].id # m.id  BY <1>1, <1>4, <2>1
    <2> QED  BY <1>4, <2>1, <2>2 DEF Chain
  <1>7. Chain(r, m.id, e, FALSE, p2)  BY Zenon, <1>2, <1>3, <1>4 DEF Chain
  <1> QED  BY <1>7 DEF r

\* A message about another ID leaves the chain alone.
LEMMA ChainOther ==
  ASSUME NEW q \in Seq(Updates), NEW m \in Updates, NEW id, NEW e, NEW h, NEW p,
         m.id # id, Chain(q, id, e, h, p)
  PROVE  Chain(Append(q, m), id, e, h, p)
  <1> DEFINE r == Append(q, m)
  <1>1. /\ Len(q) \in Nat /\ Len(r) = Len(q) + 1 /\ r[Len(q) + 1] = m
        /\ \A k \in 1 .. Len(q) : r[k] = q[k]
    BY Appended
  <1> HIDE DEF r
  <1>2. ASSUME NEW k \in 1 .. Len(r), r[k].id = id  PROVE k \in 1 .. Len(q) /\ q[k] = r[k]
    BY <1>1, <1>2
  <1>3. ASSUME NEW k \in 1 .. Len(r), r[k].id = id, r[k].type = "deliver",
               \A j \in 1 .. k - 1 : r[j].id # id
        PROVE  r[k].prev = e
    <2>1. \A j \in 1 .. k - 1 : q[j].id # id  BY <1>1, <1>2, <1>3
    <2> QED  BY <1>2, <1>3, <2>1 DEF Chain
  <1>4. ASSUME NEW j \in 1 .. Len(r), NEW k \in 1 .. Len(r), j < k, r[j].id = id, r[k].id = id
        PROVE  /\ r[j].type = "deliver"
               /\ r[k].type = "deliver" /\ (\A i \in j + 1 .. k - 1 : r[i].id # id)
                    => r[k].prev = r[j].seqno + 1
    <2>1. (\A i \in j + 1 .. k - 1 : r[i].id # id) => \A i \in j + 1 .. k - 1 : q[i].id # id
      BY <1>1, <1>2, <1>4
    <2>2. j \in 1 .. Len(q) /\ k \in 1 .. Len(q) /\ q[j] = r[j] /\ q[k] = r[k]
      BY Zenon, <1>2, <1>4
    <2> QED  BY Zenon, <1>4, <2>1, <2>2 DEF Chain
  <1>5. ASSUME NEW k \in 1 .. Len(r), h, r[k].id = id
        PROVE  /\ r[k].type = "deliver"
               /\ (\A j \in k + 1 .. Len(r) : r[j].id # id) => p = r[k].seqno + 1
    <2>1. k \in 1 .. Len(q) /\ q[k] = r[k]  BY <1>2, <1>5
    <2>2. (\A j \in k + 1 .. Len(r) : r[j].id # id) => \A j \in k + 1 .. Len(q) : q[j].id # id
      BY <1>1, <2>1
    <2> QED  BY Zenon, <1>5, <2>1, <2>2 DEF Chain
  <1>6. (\A k \in 1 .. Len(r) : r[k].id # id) => \A k \in 1 .. Len(q) : q[k].id # id  BY <1>1
  <1>7. Chain(r, id, e, h, p)  BY Zenon, <1>3, <1>4, <1>5, <1>6 DEF Chain
  <1> QED  BY <1>7 DEF r

\* The client takes the first update of the chain, or a message about another ID.
LEMMA ChainPopped ==
  ASSUME NEW q \in Seq(Updates), q # <<>>, NEW id, NEW e, NEW e2, NEW h, NEW p,
         Chain(q, id, e, h, p),
         \/ Head(q).id = id /\ Head(q).type = "deliver" /\ e2 = Head(q).seqno + 1
         \/ Head(q).id # id /\ e2 = e
  PROVE  Chain(Tail(q), id, e2, h, p)
  <1> DEFINE r == Tail(q)
  <1>1. /\ Len(q) \in Nat \ {0} /\ Len(r) = Len(q) - 1 /\ Head(q) = q[1]
        /\ \A k \in 1 .. Len(r) : r[k] = q[k + 1]
    BY Popped
  <1> HIDE DEF r
  <1>2. ASSUME NEW k \in 1 .. Len(r), r[k].id = id, r[k].type = "deliver",
               \A j \in 1 .. k - 1 : r[j].id # id
        PROVE  r[k].prev = e2
    <2>1. \A i \in 2 .. k : q[i].id # id
      <3> SUFFICES ASSUME NEW i \in 2 .. k  PROVE q[i].id # id  OBVIOUS
      <3>1. i - 1 \in 1 .. k - 1 /\ i - 1 \in 1 .. Len(r) /\ (i - 1) + 1 = i  BY <1>1
      <3> QED  BY <1>1, <1>2, <3>1
    <2>2. k + 1 \in 1 .. Len(q) /\ r[k] = q[k + 1] /\ 1 \in 1 .. Len(q) /\ (k + 1) - 1 = k /\ 1 < k + 1 /\ 1 + 1 = 2
      BY <1>1
    <2>3. CASE q[1].id = id
      <3>1. q[k + 1].prev = q[1].seqno + 1
        BY <1>2, <2>1, <2>2, <2>3 DEF Chain
      <3> QED  BY <1>1, <2>2, <2>3, <3>1
    <2>4. CASE q[1].id # id
      <3>1. \A i \in 1 .. k : q[i].id # id  BY <2>1, <2>4
      <3> QED  BY <1>1, <1>2, <2>2, <3>1, <2>4 DEF Chain
    <2> QED  BY <2>3, <2>4
  <1>3. ASSUME NEW j \in 1 .. Len(r), NEW k \in 1 .. Len(r), j < k, r[j].id = id, r[k].id = id
        PROVE  /\ r[j].type = "deliver"
               /\ r[k].type = "deliver" /\ (\A i \in j + 1 .. k - 1 : r[i].id # id)
                    => r[k].prev = r[j].seqno + 1
    <2>1. ASSUME \A i \in j + 1 .. k - 1 : r[i].id # id
          PROVE  \A i \in (j + 1) + 1 .. (k + 1) - 1 : q[i].id # id
      <3> SUFFICES ASSUME NEW i \in (j + 1) + 1 .. (k + 1) - 1  PROVE q[i].id # id  OBVIOUS
      <3>1. i - 1 \in j + 1 .. k - 1 /\ i - 1 \in 1 .. Len(r) /\ (i - 1) + 1 = i  BY <1>1
      <3> QED  BY <1>1, <2>1, <3>1
    <2>2. /\ j + 1 \in 1 .. Len(q) /\ k + 1 \in 1 .. Len(q) /\ j + 1 < k + 1
          /\ r[j] = q[j + 1] /\ r[k] = q[k + 1]
      BY <1>1, <1>3
    <2> QED  BY Zenon, <1>3, <2>1, <2>2 DEF Chain
  <1>4. ASSUME NEW k \in 1 .. Len(r), h, r[k].id = id
        PROVE  /\ r[k].type = "deliver"
               /\ (\A j \in k + 1 .. Len(r) : r[j].id # id) => p = r[k].seqno + 1
    <2>1. ASSUME \A j \in k + 1 .. Len(r) : r[j].id # id
          PROVE  \A i \in (k + 1) + 1 .. Len(q) : q[i].id # id
      <3> SUFFICES ASSUME NEW i \in (k + 1) + 1 .. Len(q)  PROVE q[i].id # id  OBVIOUS
      <3>1. i - 1 \in k + 1 .. Len(r) /\ i - 1 \in 1 .. Len(r) /\ (i - 1) + 1 = i  BY <1>1
      <3> QED  BY <1>1, <2>1, <3>1
    <2>2. k + 1 \in 1 .. Len(q) /\ r[k] = q[k + 1]  BY <1>1
    <2> QED  BY Zenon, <1>4, <2>1, <2>2 DEF Chain
  <1>5. ASSUME h, \A k \in 1 .. Len(r) : r[k].id # id  PROVE p = e2
    <2>1. \A i \in 2 .. Len(q) : q[i].id # id
      <3> SUFFICES ASSUME NEW i \in 2 .. Len(q)  PROVE q[i].id # id  OBVIOUS
      <3>1. i - 1 \in 1 .. Len(r) /\ (i - 1) + 1 = i  BY <1>1
      <3> QED  BY <1>1, <1>5, <3>1
    <2>2. CASE q[1].id = id
      <3>1. 1 \in 1 .. Len(q) /\ 1 + 1 = 2  BY <1>1
      <3>2. p = q[1].seqno + 1  BY <1>5, <2>1, <2>2, <3>1 DEF Chain
      <3> QED  BY <1>1, <2>2, <3>2
    <2>3. CASE q[1].id # id
      <3>1. \A i \in 1 .. Len(q) : q[i].id # id  BY <1>1, <2>1, <2>3
      <3> QED  BY <1>1, <1>5, <2>3, <3>1 DEF Chain
    <2> QED  BY <2>2, <2>3
  <1>6. Chain(r, id, e2, h, p)  BY Zenon, <1>2, <1>3, <1>4, <1>5 DEF Chain
  <1> QED  BY <1>6 DEF r

\* Without messages the chain only says where the server stands.
LEMMA ChainEmpty ==
  ASSUME NEW q \in Seq(Updates), NEW id, NEW e, NEW h, NEW p, ~About(q, id), h => p = e
  PROVE  Chain(q, id, e, h, p)
  <1>1. \A k \in 1 .. Len(q) : q[k].id # id  BY DEF About, Messages
  <1> QED  BY Zenon, <1>1 DEF Chain

\* The first message of a chain, if it is about the subscription, is an update
\* of the expected number, or ends a subscription the server does not hold.
LEMMA ChainHead ==
  ASSUME NEW q \in Seq(Updates), q # <<>>, NEW e, NEW h, NEW p, Chain(q, Head(q).id, e, h, p)
  PROVE  /\ Head(q).type = "deliver" => Head(q).prev = e
         /\ h => Head(q).type = "deliver"
  <1>1. Len(q) \in Nat \ {0} /\ Head(q) = q[1]  BY Popped
  <1>2. 1 \in 1 .. Len(q) /\ \A j \in 1 .. 1 - 1 : FALSE  BY <1>1
  <1> QED  BY <1>1, <1>2 DEF Chain

------------------------------------------------------------------------------
(* Every step of the map keeps the invariant. *)

\* The typed messages the client and the server write.
LEMMA MessageTypes ==
  ASSUME NEW id \in Ids
  PROVE  /\ \A n \in Nat : Sub(id, n) \in Requests
         /\ Unsub(id) \in Requests /\ Terminate(id) \in Updates
         /\ \A kind \in {"data", "gap"}, prev, n \in Nat : Deliver(id, kind, prev, n) \in Updates
  BY DEF Sub, Unsub, Terminate, Deliver, Requests, Updates

\* An empty map and an empty stream agree.
LEMMA MapInitHolds == MapInit => MapIInv
  <1> SUFFICES ASSUME MapInit PROVE MapIInv  OBVIOUS
  <1>0. /\ expected \in [Ids -> Nat] /\ pos \in [Ids -> Nat] /\ log \in Seq({Topic, Gap})
        /\ streams \in 0 .. MaxStreams /\ rewinds \in 0 .. MaxRewinds
        /\ toServer \in Seq(Requests) /\ toClient \in Seq(Updates)
    BY BoundsAssumption DEF MapInit
  <1>1. MapTypeInv  BY Zenon, <1>0 DEF MapInit, MapTypeInv, Active
  <1>2. Messages(toServer) = {} /\ Messages(toClient) = {}  BY MessagesEmpty DEF MapInit
  <1>3. SubscribesFirst(toServer)  BY DEF MapInit, SubscribesFirst
  <1> QED  BY Zenon, <1>1, <1>2, <1>3
    DEF MapInit, MapIInv, Quiet, Unheard, NotLeaving, SubscribesCurrent, Mirrored, Chained,
        Truthful, About, Subscribing

LEMMA SubscribeKeeps ==
  ASSUME MapIInv, NEW id \in Ids, NEW n \in Starts, Subscribe(id, n)
  PROVE  MapIInv'
  <1> USE DEF MapIInv
  <1>0. id \notin synced  BY Zenon DEF MapTypeInv, Active, Subscribe
  <1>1. MapTypeInv'
    <2>1. expected' \in [Ids -> Nat]  BY StartsAssumption DEF MapTypeInv, Subscribe
    <2> QED  BY <2>1 DEF MapTypeInv, Active, Subscribe
  <1>2. Quiet'  BY Zenon DEF Quiet, Subscribe, About
  <1>3. SubscribesFirst(toServer)'  BY Zenon DEF Subscribe, SubscribesFirst
  <1>4. Unheard'  BY Zenon DEF Unheard, Subscribe, Subscribing, About
  <1>5. NotLeaving'  BY Zenon DEF NotLeaving, Subscribe
  <1>6. \A i \in synced : expected'[i] = expected[i]  BY <1>0 DEF MapTypeInv, Subscribe
  <1>7. SubscribesCurrent'  BY Zenon, <1>6 DEF SubscribesCurrent, Subscribe
  <1>8. Mirrored'  BY Zenon DEF Mirrored, Subscribe, Subscribing, InTransit, Terminating
  <1>9. Chained'  BY Zenon, <1>6 DEF Chained, Subscribe
  <1>10. Truthful'  BY Zenon DEF Truthful, Subscribe
  <1> QED  BY Zenon, <1>1, <1>2, <1>3, <1>4, <1>5, <1>7, <1>8, <1>9, <1>10

LEMMA UnsubscribeKeeps ==
  ASSUME MapIInv, NEW id \in Ids, Unsubscribe(id)
  PROVE  MapIInv'
  <1> USE DEF MapIInv
  <1>1. MapTypeInv'
    <2>1. expected' \in [Ids -> Nat]  BY DEF MapTypeInv, Unsubscribe
    <2> QED  BY <2>1 DEF MapTypeInv, Active, Unsubscribe
  <1>2. Quiet'  BY Zenon DEF Quiet, Unsubscribe, About, MapTypeInv, Active
  <1>3. SubscribesFirst(toServer)'  BY Zenon DEF Unsubscribe, SubscribesFirst
  <1>4. Unheard'  BY Zenon DEF Unheard, Unsubscribe, Subscribing, About
  <1>5. NotLeaving'  BY Zenon DEF NotLeaving, Unsubscribe
  <1>6. \A i \in synced' : i \in synced /\ expected'[i] = expected[i]  BY DEF MapTypeInv, Unsubscribe
  <1>7. SubscribesCurrent'  BY Zenon, <1>6 DEF SubscribesCurrent, Unsubscribe
  <1>8. Mirrored'
    <2>1. id \in held \/ Subscribing(id) => id \in unsubs'
      BY Zenon DEF Quiet, Unsubscribe, Active, Subscribing, About
    <2>2. Subscribing(id)' <=> Subscribing(id)  BY Zenon DEF Unsubscribe, Subscribing
    <2> QED  BY Zenon, <2>1, <2>2 DEF Mirrored, Unsubscribe, Subscribing, InTransit, Terminating
  <1>9. Chained'  BY Zenon, <1>6 DEF Chained, Unsubscribe
  <1>10. Truthful'  BY Zenon DEF Truthful, Unsubscribe
  <1> QED  BY Zenon, <1>1, <1>2, <1>3, <1>4, <1>5, <1>7, <1>8, <1>9, <1>10

LEMMA HandlePendingSubscriptionKeeps ==
  ASSUME MapIInv, NEW id \in Ids, HandlePendingSubscription(id)
  PROVE  MapIInv'
  <1> USE DEF MapIInv
  <1> DEFINE m == Sub(id, expected[id])
  <1>0. /\ id \in pending /\ id \notin fresh /\ id \notin synced /\ id \notin unsubs /\ id \notin held
        /\ ~About(toServer, id) /\ ~About(toClient, id)
    BY Zenon DEF MapTypeInv, Active, Quiet, HandlePendingSubscription
  <1>a. m \in Requests /\ m.type = "subscribe" /\ m.id = id /\ m.seqno = expected[id]
    <2>1. expected[id] \in Nat  BY DEF MapTypeInv
    <2> QED  BY <2>1, MessageTypes DEF Sub
  <1> HIDE DEF m
  <1>b. toServer' = Append(toServer, m) /\ toServer \in Seq(Requests)
    BY Zenon DEF HandlePendingSubscription, MapTypeInv, m
  <1>c. Messages(toServer') = Messages(toServer) \cup {m}  BY <1>a, <1>b, MessagesAppended
  <1>1. MapTypeInv'
    <2>1. toServer' \in Seq(Requests)  BY Zenon, <1>a, <1>b, Appended
    <2> QED  BY <2>1 DEF MapTypeInv, Active, HandlePendingSubscription
  <1>2. Quiet'  BY Zenon, <1>0, <1>a, <1>c DEF Quiet, HandlePendingSubscription, About
  <1>3. SubscribesFirst(toServer')  BY Zenon, <1>0, <1>a, <1>b, FirstAppended
  <1>4. Unheard'  BY Zenon, <1>0, <1>a, <1>c DEF Unheard, HandlePendingSubscription, Subscribing, About
  <1>5. NotLeaving'
    <2>1. \A x \in Messages(toServer) : x.id # id  BY Zenon, <1>0 DEF About
    <2>2. m.type # "unsubscribe"  BY <1>a
    <2> QED  BY Zenon, <1>0, <1>c, <2>1, <2>2 DEF NotLeaving, HandlePendingSubscription
  <1>7. SubscribesCurrent'
    <2>1. \A x \in Messages(toServer) : x.id # id  BY Zenon, <1>0 DEF About
    <2> QED  BY Zenon, <1>a, <1>c, <2>1 DEF SubscribesCurrent, HandlePendingSubscription
  <1>8. Mirrored'
    BY Zenon, <1>a, <1>c DEF Mirrored, HandlePendingSubscription, Subscribing, InTransit, Terminating
  <1>9. Chained'
    <2>1. Chain(toClient, id, expected[id], id \in held, pos[id])
      <3>1. toClient \in Seq(Updates)  BY Zenon DEF MapTypeInv
      <3> QED  BY Zenon, <1>0, <3>1, ChainEmpty
    <2> QED  BY Zenon, <2>1 DEF Chained, HandlePendingSubscription
  <1>10. Truthful'  BY Zenon DEF Truthful, HandlePendingSubscription
  <1> QED  BY Zenon, <1>1, <1>2, <1>3, <1>4, <1>5, <1>7, <1>8, <1>9, <1>10

LEMMA HandlePendingUnsubscriptionKeeps ==
  ASSUME MapIInv, NEW id \in Ids, HandlePendingUnsubscription(id)
  PROVE  MapIInv'
  <1> USE DEF MapIInv
  <1> DEFINE m == Unsub(id)
  <1>0. id \in unsubs /\ id \notin fresh /\ id \notin pending /\ id \notin synced
    BY Zenon DEF Quiet, NotLeaving, HandlePendingUnsubscription
  <1>a. m \in Requests /\ m.type = "unsubscribe" /\ m.id = id
    BY MessageTypes DEF Unsub
  <1> HIDE DEF m
  <1>b. toServer' = Append(toServer, m) /\ toServer \in Seq(Requests)
    BY Zenon DEF HandlePendingUnsubscription, MapTypeInv, m
  <1>c. Messages(toServer') = Messages(toServer) \cup {m}  BY <1>a, <1>b, MessagesAppended
  <1>d. m.type # "subscribe"  BY <1>a
  <1>1. MapTypeInv'
    <2>1. toServer' \in Seq(Requests)  BY Zenon, <1>a, <1>b, Appended
    <2> QED  BY <2>1 DEF MapTypeInv, Active, HandlePendingUnsubscription
  <1>2. Quiet'  BY Zenon, <1>0, <1>a, <1>c DEF Quiet, HandlePendingUnsubscription, About
  <1>3. SubscribesFirst(toServer')  BY Zenon, <1>a, <1>b, <1>d, FirstAppended
  <1>4. Unheard'  BY Zenon, <1>c, <1>d DEF Unheard, HandlePendingUnsubscription, Subscribing, About
  <1>5. NotLeaving'  BY Zenon, <1>0, <1>a, <1>c DEF NotLeaving, HandlePendingUnsubscription
  <1>7. SubscribesCurrent'  BY Zenon, <1>c, <1>d DEF SubscribesCurrent, HandlePendingUnsubscription
  <1>8. Mirrored'
    <2>1. InTransit(Unsub(id))'  BY Zenon, <1>c DEF InTransit, m
    <2>2. ASSUME NEW i \in Ids  PROVE /\ Subscribing(i)' <=> Subscribing(i)
                                      /\ InTransit(Unsub(i)) => InTransit(Unsub(i))'
      BY Zenon, <1>c, <1>d DEF Subscribing, InTransit
    <2>3. ASSUME NEW i \in synced', sink'
          PROVE  i \in held' \/ Subscribing(i)' \/ Terminating(i)'
      <3>1. i \in Ids /\ i \in synced /\ sink
        BY Zenon, <2>3 DEF MapTypeInv, HandlePendingUnsubscription
      <3> QED  BY Zenon, <2>2, <3>1 DEF Mirrored, HandlePendingUnsubscription, Terminating
    <2>4. ASSUME NEW i \in Ids, i \in held' \/ Subscribing(i)'
          PROVE  i \in synced' \/ i \in unsubs' \/ InTransit(Unsub(i))'
      BY Zenon, <2>1, <2>2, <2>4 DEF Mirrored, HandlePendingUnsubscription
    <2> QED  BY Zenon, <2>3, <2>4 DEF Mirrored
  <1>9. Chained'  BY Zenon DEF Chained, HandlePendingUnsubscription
  <1>10. Truthful'  BY Zenon DEF Truthful, HandlePendingUnsubscription
  <1> QED  BY Zenon, <1>1, <1>2, <1>3, <1>4, <1>5, <1>7, <1>8, <1>9, <1>10

\* A stream that is lost or opened has nothing in flight and nothing held, and
\* on a new one every subscription is pending again.
LEMMA EmptyStreamKeeps ==
  ASSUME MapIInv, MapTypeInv', toServer' = <<>>, toClient' = <<>>, held' = {},
         \/ ~sink' /\ UNCHANGED <<fresh, pending, synced, unsubs>>
         \/ UNCHANGED fresh /\ synced' = {} /\ unsubs' = {}
  PROVE  MapIInv'
  <1> USE DEF MapIInv
  <1>1. Messages(toServer') = {} /\ Messages(toClient') = {}  BY MessagesEmpty
  <1>2. Quiet'  BY Zenon, <1>1 DEF Quiet, About
  <1>3. SubscribesFirst(toServer')  BY DEF SubscribesFirst
  <1>4. Unheard' /\ SubscribesCurrent' /\ Truthful'
    BY Zenon, <1>1 DEF Unheard, Subscribing, SubscribesCurrent, Truthful
  <1>5. NotLeaving'  BY Zenon, <1>1 DEF NotLeaving
  <1>6. Mirrored'  BY Zenon, <1>1 DEF Mirrored, Subscribing
  <1>7. ASSUME NEW id \in synced'
        PROVE  Chain(toClient', id, expected'[id], id \in held', pos'[id])
    <2>1. ~About(toClient', id) /\ id \notin held' /\ toClient' \in Seq(Updates)
      BY Zenon, <1>1 DEF About, MapTypeInv
    <2> QED  BY Zenon, <2>1, ChainEmpty
  <1> QED  BY Zenon, <1>2, <1>3, <1>4, <1>5, <1>6, <1>7 DEF Chained

LEMMA ConnectionCreatedKeeps == ASSUME MapIInv, ConnectionCreated  PROVE MapIInv'
  <1>1. toServer' = <<>> /\ toClient' = <<>> /\ held' = {}
    BY Zenon DEF MapIInv, MapTypeInv, ConnectionCreated
  <1>2. streams' \in 0 .. MaxStreams  BY BoundsAssumption DEF MapIInv, MapTypeInv, ConnectionCreated
  <1>3. MapTypeInv'  BY <1>2 DEF MapIInv, MapTypeInv, ConnectionCreated, Active
  <1> QED  BY Zenon, <1>1, <1>3, EmptyStreamKeeps DEF ConnectionCreated

LEMMA ConnectionDroppedKeeps == ASSUME MapIInv, ConnectionDropped  PROVE MapIInv'
  <1>0. pos' \in [Ids -> Nat] /\ toServer' \in Seq(Requests) /\ toClient' \in Seq(Updates)
    BY DEF ConnectionDropped
  <1>1. MapTypeInv'  BY Zenon, <1>0 DEF MapIInv, MapTypeInv, ConnectionDropped, Active
  <1> QED  BY Zenon, <1>1, EmptyStreamKeeps DEF ConnectionDropped

\* The invariant says that the next update is the one a subscription expects.
LEMMA NextUpdateFits == MapIInv => EveryUpdateFits
  <1> SUFFICES ASSUME MapIInv, toClient # <<>>, Head(toClient).type = "deliver",
                      Head(toClient).id \in synced
               PROVE  Accepts(Head(toClient))
    BY Zenon DEF EveryUpdateFits
  <1> DEFINE m == Head(toClient)
  <1>1. toClient \in Seq(Updates)  BY Zenon DEF MapIInv, MapTypeInv
  <1>2. m \in Updates /\ m \in Messages(toClient)  BY <1>1, Popped, MessagesPopped
  <1>3. Chain(toClient, m.id, expected[m.id], m.id \in held, pos[m.id])  BY Zenon DEF MapIInv, Chained
  <1>4. m.prev = expected[m.id]  BY Zenon, <1>1, <1>3, ChainHead
  <1>5. True(m, log)  BY Zenon, <1>2 DEF MapIInv, Truthful
  <1> HIDE DEF m
  <1>6. m.prev <= m.seqno /\ m.prev \in Nat /\ m.seqno \in Nat  BY <1>2, <1>5 DEF True, Updates, m
  <1>7. ProcessUpdate(expected[m.id], m)  BY <1>4, <1>6 DEF ProcessUpdate
  <1> QED  BY Zenon, <1>7 DEF Accepts, m

\* What taking a message of the server leaves true, whatever its handler does.
LEMMA ReceiveKeeps ==
  ASSUME MapIInv, toClient # <<>>, toClient' = Tail(toClient), UNCHANGED <<log, toServer, held>>
  PROVE  /\ toClient' \in Seq(Updates) /\ toClient \in Seq(Updates)
         /\ Head(toClient) \in Updates
         /\ Messages(toClient) = {Head(toClient)} \cup Messages(toClient')
         /\ Unheard' /\ Truthful' /\ SubscribesFirst(toServer)'
  <1>1. toClient \in Seq(Updates)  BY Zenon DEF MapIInv, MapTypeInv
  <1>2. Tail(toClient) \in Seq(Updates) /\ Head(toClient) \in Updates  BY <1>1, Popped
  <1>3. Messages(toClient) = {Head(toClient)} \cup Messages(Tail(toClient))  BY <1>1, MessagesPopped
  <1>4. Unheard'  BY Zenon, <1>3 DEF MapIInv, Unheard, About, Subscribing
  <1>5. Truthful'  BY Zenon, <1>3 DEF MapIInv, Truthful
  <1>6. SubscribesFirst(toServer)'  BY Zenon DEF MapIInv, SubscribesFirst
  <1> QED  BY Zenon, <1>1, <1>2, <1>3, <1>4, <1>5, <1>6

\* Nothing about a subscription with a message from the server is on its way there
\* as a Subscribe; and the server holds no subscription that it ends.
LEMMA HeadHeard ==
  ASSUME MapIInv, toClient # <<>>, Head(toClient).id \in synced
  PROVE  /\ \A m \in Messages(toServer) : m.type = "subscribe" => m.id # Head(toClient).id
         /\ Head(toClient).type = "terminate" => Head(toClient).id \notin held
  <1> DEFINE i == Head(toClient).id
  <1>1. toClient \in Seq(Updates) /\ i \in Ids  BY Zenon DEF MapIInv, MapTypeInv
  <1>2. About(toClient, i)  BY <1>1, MessagesPopped DEF About
  <1>3. ~Subscribing(i)  BY Zenon, <1>1, <1>2 DEF MapIInv, Unheard
  <1>4. Chain(toClient, i, expected[i], i \in held, pos[i])  BY Zenon DEF MapIInv, Chained
  <1>5. i \in held => Head(toClient).type = "deliver"  BY Zenon, <1>1, <1>4, ChainHead
  <1>6. Head(toClient).type = "terminate" => i \notin held  BY <1>5
  <1> QED  BY Zenon, <1>3, <1>6 DEF Subscribing

LEMMA ReceiveDeliverKeeps == ASSUME MapIInv, ReceiveDeliver  PROVE MapIInv'
  <1> DEFINE m == Head(toClient)
  <1>0. /\ toClient # <<>> /\ m.type = "deliver" /\ toClient' = Tail(toClient)
        /\ UNCHANGED <<log, fresh, pending, synced, unsubs, sink, toServer, held, pos, streams, rewinds>>
        /\ IF Accepts(m) THEN expected' = [expected EXCEPT ![m.id] = m.seqno + 1] ELSE expected' = expected
    BY Zenon DEF ReceiveDeliver, Receive
  <1>1. /\ toClient' \in Seq(Updates) /\ toClient \in Seq(Updates) /\ m \in Updates
        /\ Messages(toClient) = {m} \cup Messages(toClient')
        /\ Unheard' /\ Truthful' /\ SubscribesFirst(toServer)'
    BY Zenon, <1>0, ReceiveKeeps
  <1>2. m.id \in synced => Accepts(m)  BY Zenon, <1>0, NextUpdateFits DEF EveryUpdateFits
  <1>3. m.id \in synced => \A x \in Messages(toServer) : x.type = "subscribe" => x.id # m.id
    BY Zenon, <1>0, HeadHeard
  <1> HIDE DEF m
  <1>4. \A i \in synced :
          \/ m.id = i /\ expected'[i] = m.seqno + 1
          \/ m.id # i /\ expected'[i] = expected[i]
    <2>1. synced \subseteq Ids /\ expected \in [Ids -> Nat]  BY Zenon DEF MapIInv, MapTypeInv
    <2> QED  BY <1>0, <1>2, <2>1
  <1>5. MapTypeInv'
    <2>1. expected \in [Ids -> Nat]  BY Zenon DEF MapIInv, MapTypeInv
    <2>2. m.seqno + 1 \in Nat  BY <1>1 DEF Updates
    <2>3. expected' \in [Ids -> Nat]  BY <1>0, <2>1, <2>2
    <2>4. ~sink => toClient = <<>>  BY Zenon DEF MapIInv, MapTypeInv
    <2> QED  BY Zenon, <1>0, <1>1, <2>3, <2>4 DEF MapIInv, MapTypeInv, Active
  <1>6. Quiet'  BY Zenon, <1>0, <1>1 DEF MapIInv, Quiet, About
  <1>7. NotLeaving'  BY Zenon, <1>0 DEF MapIInv, NotLeaving
  <1>8. SubscribesCurrent'  BY Zenon, <1>0, <1>3, <1>4 DEF MapIInv, SubscribesCurrent
  <1>9. Mirrored'
    <2>1. ASSUME NEW i  PROVE Terminating(i) => Terminating(i)'
      <3>1. Terminate(i) # m  BY <1>0 DEF Terminate, m
      <3> QED  BY Zenon, <1>1, <3>1 DEF Terminating
    <2> QED  BY Zenon, <1>0, <2>1 DEF MapIInv, Mirrored, Subscribing, InTransit
  <1>10. ASSUME NEW i \in synced'  PROVE Chain(toClient', i, expected'[i], i \in held', pos'[i])
    <2>1. Chain(toClient, i, expected[i], i \in held, pos[i])  BY Zenon, <1>0 DEF MapIInv, Chained
    <2>2. \/ m.id = i /\ m.type = "deliver" /\ expected'[i] = m.seqno + 1
          \/ m.id # i /\ expected'[i] = expected[i]
      BY Zenon, <1>0, <1>4
    <2>3. Chain(Tail(toClient), i, expected'[i], i \in held, pos[i])
      BY Zenon, <1>0, <1>1, <2>1, <2>2, ChainPopped DEF m
    <2> QED  BY Zenon, <1>0, <2>3
  <1> QED  BY Zenon, <1>1, <1>5, <1>6, <1>7, <1>8, <1>9, <1>10 DEF MapIInv, Chained

LEMMA ReceiveDeliverRewindKeeps ==
  ASSUME MapIInv, NEW new \in Ids, ReceiveDeliverRewind(new)
  PROVE  MapIInv'
  <1> DEFINE m == Head(toClient)
  <1>0. /\ toClient # <<>> /\ m.type = "deliver" /\ toClient' = Tail(toClient)
        /\ new \in fresh /\ rewinds < MaxRewinds /\ rewinds' = rewinds + 1
        /\ UNCHANGED <<log, sink, toServer, held, pos, streams>> /\ Accepts(m)
        /\ fresh' = fresh \ {new} /\ synced' = synced \ {m.id}
        /\ pending' = pending \cup {new} /\ unsubs' = unsubs \cup {m.id}
        /\ expected' = [expected EXCEPT ![m.id] = 0, ![new] = 0]
    BY Zenon DEF ReceiveDeliverRewind, Receive
  <1>1. /\ toClient' \in Seq(Updates) /\ toClient \in Seq(Updates) /\ m \in Updates
        /\ Messages(toClient) = {m} \cup Messages(toClient')
        /\ Unheard' /\ Truthful' /\ SubscribesFirst(toServer)'
    BY Zenon, <1>0, ReceiveKeeps
  <1> HIDE DEF m
  <1>2. /\ m.id \in synced /\ m.id \in Ids /\ new \notin synced /\ new \notin pending
        /\ m.id \notin pending /\ m.id \notin fresh
    BY Zenon, <1>0 DEF MapIInv, MapTypeInv, Accepts, Active
  <1>3. \A i \in synced' : i \in synced /\ m.id # i /\ expected'[i] = expected[i]
    <2>1. synced \subseteq Ids /\ expected \in [Ids -> Nat]  BY Zenon DEF MapIInv, MapTypeInv
    <2> QED  BY <1>0, <1>2, <2>1
  <1>4. MapTypeInv'
    <2>1. expected \in [Ids -> Nat]  BY Zenon DEF MapIInv, MapTypeInv
    <2>2. expected' \in [Ids -> Nat]  BY <1>0, <2>1
    <2>3. rewinds' \in 0 .. MaxRewinds  BY <1>0, BoundsAssumption DEF MapIInv, MapTypeInv
    <2>4. ~sink => toClient = <<>>  BY Zenon DEF MapIInv, MapTypeInv
    <2>5. /\ fresh' \cap Active' = {} /\ pending' \cap synced' = {}
          /\ fresh' \subseteq Ids /\ pending' \subseteq Ids /\ synced' \subseteq Ids /\ unsubs' \subseteq Ids
      BY <1>0, <1>2 DEF MapIInv, MapTypeInv, Active
    <2> QED  BY Zenon, <1>0, <1>1, <2>2, <2>3, <2>4, <2>5 DEF MapIInv, MapTypeInv
  <1>5. Quiet'  BY Zenon, <1>0, <1>1, <1>2 DEF MapIInv, Quiet, About
  <1>6. NotLeaving'  BY Zenon, <1>0 DEF MapIInv, NotLeaving
  <1>7. SubscribesCurrent'  BY Zenon, <1>0, <1>3 DEF MapIInv, SubscribesCurrent
  <1>8. Mirrored'
    <2>1. ASSUME NEW i  PROVE Terminating(i) => Terminating(i)'
      <3>1. Terminate(i) # m  BY <1>0 DEF Terminate, m
      <3> QED  BY Zenon, <1>1, <3>1 DEF Terminating
    <2> QED  BY Zenon, <1>0, <2>1 DEF MapIInv, Mirrored, Subscribing, InTransit
  <1>9. ASSUME NEW i \in synced'  PROVE Chain(toClient', i, expected'[i], i \in held', pos'[i])
    <2>1. Chain(toClient, i, expected[i], i \in held, pos[i])  BY Zenon, <1>3 DEF MapIInv, Chained
    <2>2. Chain(Tail(toClient), i, expected'[i], i \in held, pos[i])
      BY Zenon, <1>0, <1>1, <1>3, <2>1, ChainPopped DEF m
    <2> QED  BY Zenon, <1>0, <2>2
  <1> QED  BY Zenon, <1>1, <1>4, <1>5, <1>6, <1>7, <1>8, <1>9 DEF MapIInv, Chained

LEMMA ReceiveUnsubscribeKeeps == ASSUME MapIInv, ReceiveUnsubscribe  PROVE MapIInv'
  <1> DEFINE m == Head(toClient)
  <1>0. /\ toClient # <<>> /\ m.type = "terminate" /\ toClient' = Tail(toClient)
        /\ UNCHANGED <<log, fresh, pending, unsubs, sink, toServer, held, pos, streams, rewinds>>
        /\ synced' = synced \ {m.id}
        /\ IF m.id \in synced THEN expected' = [expected EXCEPT ![m.id] = 0] ELSE expected' = expected
    BY Zenon DEF ReceiveUnsubscribe, Receive
  <1>1. /\ toClient' \in Seq(Updates) /\ toClient \in Seq(Updates) /\ m \in Updates
        /\ Messages(toClient) = {m} \cup Messages(toClient')
        /\ Unheard' /\ Truthful' /\ SubscribesFirst(toServer)'
    BY Zenon, <1>0, ReceiveKeeps
  <1>2. m.id \in synced => m.id \notin held /\ ~Subscribing(m.id)
    BY Zenon, <1>0, HeadHeard DEF Subscribing
  <1> HIDE DEF m
  <1>3. \A i \in synced' : i \in synced /\ m.id # i /\ expected'[i] = expected[i]
    <2>1. synced \subseteq Ids /\ expected \in [Ids -> Nat]  BY Zenon DEF MapIInv, MapTypeInv
    <2> QED  BY <1>0, <2>1
  <1>4. MapTypeInv'
    <2>1. expected \in [Ids -> Nat]  BY Zenon DEF MapIInv, MapTypeInv
    <2>2. expected' \in [Ids -> Nat]  BY <1>0, <2>1
    <2>4. ~sink => toClient = <<>>  BY Zenon DEF MapIInv, MapTypeInv
    <2>5. fresh' \cap Active' = {} /\ pending' \cap synced' = {} /\ synced' \subseteq Ids
      BY <1>0 DEF MapIInv, MapTypeInv, Active
    <2> QED  BY Zenon, <1>0, <1>1, <2>2, <2>4, <2>5 DEF MapIInv, MapTypeInv
  <1>5. Quiet'  BY Zenon, <1>0, <1>1 DEF MapIInv, Quiet, About
  <1>6. NotLeaving'  BY Zenon, <1>0 DEF MapIInv, NotLeaving
  <1>7. SubscribesCurrent'  BY Zenon, <1>0, <1>3 DEF MapIInv, SubscribesCurrent
  <1>8. Mirrored'
    <2>1. ASSUME NEW i, m.id # i  PROVE Terminating(i) => Terminating(i)'
      <3>1. Terminate(i) # m  BY <2>1 DEF Terminate
      <3> QED  BY Zenon, <1>1, <3>1 DEF Terminating
    <2>2. ASSUME NEW i  PROVE Subscribing(i)' <=> Subscribing(i)  BY Zenon, <1>0 DEF Subscribing
    <2>3. ASSUME NEW i \in synced', sink'
          PROVE  i \in held' \/ Subscribing(i)' \/ Terminating(i)'
      BY Zenon, <1>0, <1>3, <2>1, <2>2, <2>3 DEF MapIInv, Mirrored
    <2>4. ASSUME NEW i \in Ids, i \in held' \/ Subscribing(i)'
          PROVE  i \in synced' \/ i \in unsubs' \/ InTransit(Unsub(i))'
      BY Zenon, <1>0, <1>2, <2>2, <2>4 DEF MapIInv, Mirrored, InTransit
    <2> QED  BY Zenon, <2>3, <2>4 DEF Mirrored
  <1>9. ASSUME NEW i \in synced'  PROVE Chain(toClient', i, expected'[i], i \in held', pos'[i])
    <2>1. Chain(toClient, i, expected[i], i \in held, pos[i])  BY Zenon, <1>3 DEF MapIInv, Chained
    <2>2. Chain(Tail(toClient), i, expected'[i], i \in held, pos[i])
      BY Zenon, <1>0, <1>1, <1>3, <2>1, ChainPopped DEF m
    <2> QED  BY Zenon, <1>0, <2>2
  <1> QED  BY Zenon, <1>1, <1>4, <1>5, <1>6, <1>7, <1>8, <1>9 DEF MapIInv, Chained

LEMMA AppendEntryKeeps == ASSUME MapIInv, AppendEntry  PROVE MapIInv'
  <1>1. PICK e \in {Topic, Gap} : log' = Append(log, e)  BY Zenon DEF AppendEntry
  <1>2. /\ log \in Seq({Topic, Gap}) /\ log' \in Seq({Topic, Gap})
        /\ Len(log) \in Nat /\ Len(log') = Len(log) + 1
        /\ \A n \in 1 .. Len(log) : log'[n] = log[n]
    <2>1. log \in Seq({Topic, Gap})  BY Zenon DEF MapIInv, MapTypeInv
    <2> QED  BY <1>1, <2>1, Appended
  <1>3. UNCHANGED mapVars  BY Zenon DEF AppendEntry
  <1>4. Truthful'
    <2> SUFFICES ASSUME NEW m \in Messages(toClient)  PROVE True(m, log')
      BY Zenon, <1>3 DEF Truthful, mapVars
    <2>1. True(m, log)  BY Zenon DEF MapIInv, Truthful
    <2>2. m.prev \in Nat /\ m.seqno \in Nat
      <3>1. toClient \in Seq(Updates)  BY Zenon DEF MapIInv, MapTypeInv
      <3>2. m \in Updates  BY <3>1, MessagesTyped
      <3> QED  BY <3>2 DEF Updates
    <2>3. CASE m.type = "deliver" /\ m.prev # 0
      <3>1. m.prev <= m.seqno /\ m.seqno <= Len(log)  BY <2>1, <2>3 DEF True
      <3>2. \A n \in m.prev .. m.seqno - 1 : log'[n] = log[n]  BY <1>2, <2>2, <2>3, <3>1
      <3>3. log'[m.seqno] = log[m.seqno] /\ m.seqno <= Len(log')  BY <1>2, <2>2, <2>3, <3>1
      <3> QED  BY Zenon, <2>1, <2>3, <3>1, <3>2, <3>3 DEF True
    <2>4. CASE m.type = "deliver" /\ m.prev = 0
      <3>1. m.seqno <= Len(log')  BY <1>2, <2>1, <2>2, <2>4 DEF True
      <3> QED  BY Zenon, <2>1, <2>4, <3>1 DEF True
    <2>5. CASE m.type # "deliver"  BY Zenon, <2>5 DEF True
    <2> QED  BY Zenon, <2>3, <2>4, <2>5
  <1>5. MapTypeInv'  BY Zenon, <1>2, <1>3 DEF MapIInv, MapTypeInv, mapVars, Active
  <1>6. Quiet' /\ SubscribesFirst(toServer)' /\ Unheard' /\ NotLeaving' /\ SubscribesCurrent'
    BY Zenon, <1>3 DEF MapIInv, mapVars, Quiet, SubscribesFirst, Unheard, NotLeaving,
                       SubscribesCurrent, About, Subscribing
  <1>7. Mirrored' /\ Chained'
    BY Zenon, <1>3 DEF MapIInv, mapVars, Mirrored, Chained, Subscribing, InTransit, Terminating
  <1> QED  BY Zenon, <1>4, <1>5, <1>6, <1>7 DEF MapIInv

LEMMA ServerReceiveKeeps == ASSUME MapIInv, ServerReceive  PROVE MapIInv'
  <1> DEFINE m == Head(toServer)
             p == IF m.type = "subscribe" THEN m.seqno ELSE 0
  <1>0. /\ toServer # <<>> /\ toServer' = Tail(toServer)
        /\ UNCHANGED <<log, fresh, pending, synced, unsubs, expected, sink, toClient, streams, rewinds>>
        /\ held' = IF m.type = "subscribe" THEN held \cup {m.id} ELSE held \ {m.id}
        /\ pos' = [pos EXCEPT ![m.id] = p]
    BY DEF ServerReceive
  <1>1. toServer \in Seq(Requests)  BY Zenon DEF MapIInv, MapTypeInv
  <1>2. toServer' \in Seq(Requests) /\ m \in Requests  BY <1>0, <1>1, Popped
  <1>3. Messages(toServer) = {m} \cup Messages(toServer')  BY <1>0, <1>1, MessagesPopped
  <1>4. /\ SubscribesFirst(toServer')
        /\ \A x \in Messages(toServer') : x.type = "subscribe" => x.id # m.id
    <2>1. SubscribesFirst(toServer)  BY Zenon DEF MapIInv
    <2> QED  BY Zenon, <1>0, <1>1, <2>1, FirstPopped
  <1>5. m.id \in Ids /\ p \in Nat /\ m.type \in {"subscribe", "unsubscribe"}  BY <1>2 DEF Requests
  <1>6. About(toServer, m.id)  BY Zenon, <1>3 DEF About
  <1>7. m.type = "subscribe" => Subscribing(m.id)  BY Zenon, <1>3 DEF Subscribing
  <1>8. m.type # "subscribe" => m.id \notin synced
    <2>1. m.type # "subscribe" => m.type = "unsubscribe"  BY Zenon, <1>5
    <2> QED  BY Zenon, <1>3, <2>1 DEF MapIInv, NotLeaving
  <1>9. m.type = "subscribe" /\ m.id \in synced => p = expected[m.id]
    BY Zenon, <1>3 DEF MapIInv, SubscribesCurrent
  <1>10. held' \subseteq held \cup {m.id}  BY Zenon, <1>0
  <1>11. \A i \in Ids : i # m.id => pos'[i] = pos[i] /\ (i \in held' <=> i \in held)
    BY <1>0, <1>5 DEF MapIInv, MapTypeInv
  <1>12. pos'[m.id] = p /\ pos' \in [Ids -> Nat]
    <2>1. pos \in [Ids -> Nat]  BY Zenon DEF MapIInv, MapTypeInv
    <2> HIDE DEF p
    <2> QED  BY <1>0, <1>5, <2>1
  <1> HIDE DEF m, p
  <1>13. ASSUME NEW i  PROVE Subscribing(i)' => Subscribing(i) /\ i # m.id
    BY Zenon, <1>3, <1>4 DEF Subscribing
  <1>14. MapTypeInv'
    <2>1. ~sink => toServer = <<>>  BY Zenon DEF MapIInv, MapTypeInv
    <2>2. held' \subseteq Ids  BY Zenon, <1>5, <1>10 DEF MapIInv, MapTypeInv
    <2> QED  BY Zenon, <1>0, <1>2, <1>12, <2>1, <2>2 DEF MapIInv, MapTypeInv, Active
  <1>15. Quiet'  BY Zenon, <1>0, <1>3, <1>6, <1>10 DEF MapIInv, Quiet, About
  <1>16. Unheard'  BY Zenon, <1>0, <1>10, <1>13 DEF MapIInv, Unheard, About
  <1>17. NotLeaving'  BY Zenon, <1>0, <1>3 DEF MapIInv, NotLeaving
  <1>18. SubscribesCurrent'  BY Zenon, <1>0, <1>3 DEF MapIInv, SubscribesCurrent
  <1>19. Mirrored'
    <2>1. ASSUME NEW i \in synced', sink'
          PROVE  i \in held' \/ Subscribing(i)' \/ Terminating(i)'
      <3>1. i \in Ids /\ i \in synced /\ (i \in held \/ Subscribing(i) \/ Terminating(i))
        BY Zenon, <1>0, <2>1 DEF MapIInv, MapTypeInv, Mirrored
      <3>2. CASE i = m.id  BY Zenon, <1>0, <1>8, <3>1, <3>2
      <3>3. CASE i # m.id
        <4>1. Subscribing(i) => Subscribing(i)'  BY Zenon, <1>3, <3>3 DEF Subscribing
        <4> QED  BY Zenon, <1>0, <1>11, <3>1, <3>3, <4>1 DEF Terminating
      <3> QED  BY Zenon, <3>2, <3>3
    <2>2. ASSUME NEW i \in Ids, i \in held' \/ Subscribing(i)'
          PROVE  i \in synced' \/ i \in unsubs' \/ InTransit(Unsub(i))'
      <3>1. i \in held \/ Subscribing(i)
        BY Zenon, <1>0, <1>7, <1>11, <1>13, <2>2
      <3>2. i \in synced \/ i \in unsubs \/ InTransit(Unsub(i))  BY Zenon, <3>1 DEF MapIInv, Mirrored
      <3>3. m # Unsub(i)
        <4>1. CASE i # m.id  BY <4>1 DEF Unsub
        <4>2. CASE i = m.id
          <5>1. m.type = "subscribe"  BY Zenon, <1>0, <1>13, <2>2, <4>2
          <5> QED  BY <5>1 DEF Unsub
        <4> QED  BY Zenon, <4>1, <4>2
      <3> QED  BY Zenon, <1>0, <1>3, <3>2, <3>3 DEF InTransit
    <2> QED  BY Zenon, <2>1, <2>2 DEF Mirrored
  <1>20. ASSUME NEW i \in synced'  PROVE Chain(toClient', i, expected'[i], i \in held', pos'[i])
    <2>1. i \in Ids /\ i \in synced /\ toClient \in Seq(Updates)
      BY Zenon, <1>0 DEF MapIInv, MapTypeInv
    <2>2. CASE i # m.id
      <3>1. Chain(toClient, i, expected[i], i \in held, pos[i])  BY Zenon, <2>1 DEF MapIInv, Chained
      <3>2. (i \in held') = (i \in held) /\ pos'[i] = pos[i]  BY <1>11, <2>1, <2>2
      <3> QED  BY Zenon, <1>0, <3>1, <3>2
    <2>3. CASE i = m.id
      <3>1. m.type = "subscribe"  BY Zenon, <1>8, <2>1, <2>3
      <3>2. ~About(toClient, i)  BY Zenon, <1>7, <2>1, <2>3, <3>1 DEF MapIInv, Unheard
      <3>3. pos'[i] = expected[i]  BY Zenon, <1>9, <1>12, <2>1, <2>3, <3>1
      <3>4. Chain(toClient, i, expected[i], i \in held', pos'[i])  BY Zenon, <2>1, <3>2, <3>3, ChainEmpty
      <3> QED  BY Zenon, <1>0, <3>4
    <2> QED  BY Zenon, <2>2, <2>3
  <1>21. Truthful'  BY Zenon, <1>0 DEF MapIInv, Truthful
  <1> QED  BY Zenon, <1>4, <1>14, <1>15, <1>16, <1>17, <1>18, <1>19, <1>20, <1>21 DEF MapIInv, Chained

\* The server sends a truthful update of the position it holds and moves on, or
\* ends the subscription.
LEMMA ServerSendsKeeps ==
  ASSUME MapIInv, NEW id \in Ids, NEW m \in Updates, NEW p \in Nat, ServerSends(id, m),
         m.id = id, True(m, log), pos' = [pos EXCEPT ![id] = p],
         \/ m.type = "deliver" /\ m.prev = pos[id] /\ p = m.seqno + 1 /\ held' = held
         \/ m = Terminate(id) /\ held' = held \ {id}
  PROVE  MapIInv'
  <1>0. /\ id \in held /\ toClient' = Append(toClient, m)
        /\ UNCHANGED <<log, fresh, pending, synced, unsubs, expected, sink, toServer, streams, rewinds>>
    BY Zenon DEF ServerSends
  <1>1. toClient \in Seq(Updates)  BY Zenon DEF MapIInv, MapTypeInv
  <1>2. toClient' \in Seq(Updates)  BY <1>0, <1>1, Appended
  <1>3. Messages(toClient') = Messages(toClient) \cup {m}  BY <1>0, <1>1, MessagesAppended
  <1>4. held' \subseteq held /\ \A i \in Ids : i # id => (i \in held' <=> i \in held)  BY Zenon
  <1>5. pos' \in [Ids -> Nat] /\ pos'[id] = p /\ \A i \in Ids : i # id => pos'[i] = pos[i]
    <2>1. pos \in [Ids -> Nat]  BY Zenon DEF MapIInv, MapTypeInv
    <2> QED  BY <2>1
  <1>6. MapTypeInv'
    <2>1. ~sink => held = {}  BY Zenon DEF MapIInv, MapTypeInv
    <2> QED  BY Zenon, <1>0, <1>2, <1>4, <1>5, <2>1 DEF MapIInv, MapTypeInv, Active
  <1>7. Quiet'  BY Zenon, <1>0, <1>3, <1>4 DEF MapIInv, Quiet, About
  <1>8. SubscribesFirst(toServer)'  BY Zenon, <1>0 DEF MapIInv, SubscribesFirst
  <1>9. Unheard'
    <2>1. ASSUME NEW i  PROVE Subscribing(i)' => Subscribing(i)  BY Zenon, <1>0 DEF Subscribing
    <2> QED  BY Zenon, <1>0, <1>3, <1>4, <2>1 DEF MapIInv, Unheard, About
  <1>10. NotLeaving' /\ SubscribesCurrent'  BY Zenon, <1>0 DEF MapIInv, NotLeaving, SubscribesCurrent
  <1>11. Mirrored'
    <2>1. ASSUME NEW i  PROVE /\ Subscribing(i)' <=> Subscribing(i)
                              /\ InTransit(Unsub(i))' <=> InTransit(Unsub(i))
                              /\ Terminating(i) => Terminating(i)'
      BY Zenon, <1>0, <1>3 DEF Subscribing, InTransit, Terminating
    <2>2. id \in held' \/ Terminating(id)'  BY Zenon, <1>0, <1>3 DEF Terminating
    <2>3. ASSUME NEW i \in synced', sink'
          PROVE  i \in held' \/ Subscribing(i)' \/ Terminating(i)'
      <3>1. i \in Ids /\ i \in synced /\ sink  BY Zenon, <1>0, <2>3 DEF MapIInv, MapTypeInv
      <3> QED  BY Zenon, <1>4, <2>1, <2>2, <3>1 DEF MapIInv, Mirrored
    <2>4. ASSUME NEW i \in Ids, i \in held' \/ Subscribing(i)'
          PROVE  i \in synced' \/ i \in unsubs' \/ InTransit(Unsub(i))'
      BY Zenon, <1>0, <1>4, <2>1, <2>4 DEF MapIInv, Mirrored
    <2> QED  BY Zenon, <2>3, <2>4 DEF Mirrored
  <1>12. ASSUME NEW i \in synced'  PROVE Chain(toClient', i, expected'[i], i \in held', pos'[i])
    <2>1. i \in Ids /\ i \in synced  BY Zenon, <1>0 DEF MapIInv, MapTypeInv
    <2>2. Chain(toClient, i, expected[i], i \in held, pos[i])  BY Zenon, <2>1 DEF MapIInv, Chained
    <2>3. CASE i # id
      <3>1. Chain(Append(toClient, m), i, expected[i], i \in held, pos[i])
        BY Zenon, <1>1, <2>2, <2>3, ChainOther
      <3>2. (i \in held') = (i \in held) /\ pos'[i] = pos[i]  BY <1>4, <1>5, <2>1, <2>3
      <3> QED  BY Zenon, <1>0, <3>1, <3>2
    <2>4. CASE i = id
      <3>1. Chain(toClient, m.id, expected[i], TRUE, pos[i])
        <4>1. (i \in held) = TRUE  BY Zenon, <1>0, <2>4
        <4> QED  BY Zenon, <2>2, <2>4, <4>1
      <3>2. CASE m.type = "deliver" /\ m.prev = pos[id] /\ p = m.seqno + 1 /\ held' = held
        <4>1. Chain(Append(toClient, m), m.id, expected[i], TRUE, m.seqno + 1)
          BY Zenon, <1>1, <2>4, <3>1, <3>2, ChainDelivered
        <4>2. (i \in held') = TRUE /\ pos'[i] = m.seqno + 1  BY Zenon, <1>0, <1>5, <2>4, <3>2
        <4> QED  BY Zenon, <1>0, <2>4, <4>1, <4>2
      <3>3. CASE m = Terminate(id) /\ held' = held \ {id}
        <4>0. m.type = "terminate"  BY <3>3 DEF Terminate
        <4>1. Chain(Append(toClient, m), m.id, expected[i], FALSE, pos'[i])
          BY Zenon, <1>1, <3>1, <4>0, ChainTerminated
        <4>2. (i \in held') = FALSE  BY <2>4, <3>3
        <4> QED  BY Zenon, <1>0, <2>4, <4>1, <4>2
      <3> QED  BY Zenon, <3>2, <3>3
    <2> QED  BY Zenon, <2>3, <2>4
  <1>13. Truthful'  BY Zenon, <1>0, <1>3 DEF MapIInv, Truthful
  <1> QED  BY Zenon, <1>6, <1>7, <1>8, <1>9, <1>10, <1>11, <1>12, <1>13 DEF MapIInv, Chained

LEMMA ServerDeliverKeeps == ASSUME MapIInv, NEW id \in Ids, ServerDeliver(id)  PROVE MapIInv'
  <1>1. PICK n \in pos[id] .. Len(log) :
          /\ \A k \in pos[id] .. n - 1 : log[k] # Topic
          /\ pos' = [pos EXCEPT ![id] = n + 1]
          /\ ServerSends(id, Deliver(id, IF log[n] = Topic THEN "data" ELSE "gap", pos[id], n))
    BY Zenon DEF ServerDeliver
  <1>2. PICK kind \in {"data", "gap"} : kind = IF log[n] = Topic THEN "data" ELSE "gap"  BY Zenon
  <1>3. pos[id] \in Nat /\ pos[id] # 0 /\ held' = held /\ n \in Nat /\ pos[id] <= n /\ n <= Len(log)
    <2>1. pos[id] \in Nat /\ Len(log) \in Nat  BY DEF MapIInv, MapTypeInv
    <2> QED  BY <1>1, <2>1 DEF ServerDeliver
  <1> DEFINE m == Deliver(id, kind, pos[id], n)
  <1>4. m \in Updates  BY Zenon, <1>3, MessageTypes
  <1>5. m.type = "deliver" /\ m.id = id /\ m.prev = pos[id] /\ m.seqno = n /\ m.kind = kind
    BY DEF Deliver
  <1>6. ServerSends(id, m)  BY Zenon, <1>1, <1>2
  <1> HIDE DEF m
  <1>7. kind = "data" <=> log[n] = Topic  BY <1>2
  <1>8. True(m, log)  BY Zenon, <1>1, <1>3, <1>5, <1>7 DEF True
  <1>9. n + 1 \in Nat  BY <1>3
  <1> QED  BY Zenon, <1>1, <1>3, <1>4, <1>5, <1>6, <1>8, <1>9, ServerSendsKeeps

LEMMA ServerFoundTailKeeps == ASSUME MapIInv, NEW id \in Ids, ServerFoundTail(id)  PROVE MapIInv'
  <1>1. PICK q \in 1 .. Len(log) + 1 : /\ pos' = [pos EXCEPT ![id] = q]
                                       /\ ServerSends(id, Deliver(id, "gap", 0, q - 1))
    BY Zenon DEF ServerFoundTail
  <1>2. PICK n \in Nat : n = q - 1 /\ q = n + 1 /\ n <= Len(log)
    <2>1. Len(log) \in Nat  BY DEF MapIInv, MapTypeInv
    <2> QED  BY <2>1
  <1> DEFINE m == Deliver(id, "gap", 0, n)
  <1>3. m \in Updates  BY <1>2, MessageTypes
  <1>4. m.type = "deliver" /\ m.id = id /\ m.prev = 0 /\ m.seqno = n /\ m.kind = "gap"  BY DEF Deliver
  <1>5. ServerSends(id, m)  BY Zenon, <1>1, <1>2
  <1> HIDE DEF m
  <1>6. 0 <= n  BY <1>2
  <1>7. True(m, log)  BY Zenon, <1>2, <1>4, <1>6 DEF True
  <1>8. q \in Nat /\ pos[id] = 0 /\ held' = held  BY <1>2 DEF ServerFoundTail
  <1> QED  BY Zenon, <1>1, <1>2, <1>3, <1>4, <1>5, <1>7, <1>8, ServerSendsKeeps

LEMMA ServerTerminateKeeps == ASSUME MapIInv, NEW id \in Ids, ServerTerminate(id)  PROVE MapIInv'
  <1> DEFINE m == Terminate(id)
  <1>1. m \in Updates  BY Zenon, MessageTypes
  <1>2. m.id = id /\ m.type # "deliver"  BY DEF Terminate
  <1>3. ServerSends(id, m) /\ held' = held \ {id} /\ pos' = [pos EXCEPT ![id] = 0]
    BY Zenon DEF ServerTerminate
  <1>4. True(m, log)  BY Zenon, <1>2 DEF True
  <1>5. 0 \in Nat  OBVIOUS
  <1> HIDE DEF m
  <1>6. m = Terminate(id)  BY Zenon DEF m
  <1> QED  BY Zenon, <1>1, <1>2, <1>3, <1>4, <1>5, <1>6, ServerSendsKeeps

LEMMA MapUnchangedKeeps == ASSUME MapIInv, UNCHANGED <<log, mapVars>>  PROVE MapIInv'
  <1>1. MapTypeInv'  BY Zenon DEF MapIInv, MapTypeInv, mapVars, Active
  <1>2. Quiet' /\ SubscribesFirst(toServer)' /\ Unheard' /\ NotLeaving' /\ SubscribesCurrent'
    BY Zenon DEF MapIInv, mapVars, Quiet, SubscribesFirst, Unheard, NotLeaving,
                 SubscribesCurrent, About, Subscribing
  <1>3. Mirrored' /\ Chained' /\ Truthful'
    BY Zenon DEF MapIInv, mapVars, Mirrored, Chained, Truthful, Subscribing, InTransit, Terminating
  <1> QED  BY Zenon, <1>1, <1>2, <1>3 DEF MapIInv

\* The invariant is inductive: every step of the map, its stream and the server keeps it.
LEMMA MapStepKeeps == MapIInv /\ [MapNext]_subscriptionVars => MapIInv'
  <1> SUFFICES ASSUME MapIInv, [MapNext]_subscriptionVars  PROVE MapIInv'  OBVIOUS
  <1>1. ASSUME NEW id \in Ids, NEW n \in Starts, Subscribe(id, n)  PROVE MapIInv'
    BY Zenon, <1>1, SubscribeKeeps
  <1>2. ASSUME NEW id \in Ids,
               \/ Unsubscribe(id)
               \/ HandlePendingSubscription(id) \/ HandlePendingUnsubscription(id)
               \/ ReceiveDeliverRewind(id)
               \/ ServerDeliver(id) \/ ServerFoundTail(id) \/ ServerTerminate(id)
        PROVE  MapIInv'
    BY Zenon, <1>2, UnsubscribeKeeps, HandlePendingSubscriptionKeeps, HandlePendingUnsubscriptionKeeps,
       ReceiveDeliverRewindKeeps, ServerDeliverKeeps, ServerFoundTailKeeps, ServerTerminateKeeps
  <1>3. CASE ConnectionCreated \/ ConnectionDropped
    BY Zenon, <1>3, ConnectionCreatedKeeps, ConnectionDroppedKeeps
  <1>4. CASE ReceiveDeliver \/ ReceiveUnsubscribe
    BY Zenon, <1>4, ReceiveDeliverKeeps, ReceiveUnsubscribeKeeps
  <1>5. CASE AppendEntry \/ ServerReceive  BY Zenon, <1>5, AppendEntryKeeps, ServerReceiveKeeps
  <1>6. CASE UNCHANGED subscriptionVars  BY Zenon, <1>6, MapUnchangedKeeps DEF subscriptionVars
  <1> QED  BY Zenon, <1>1, <1>2, <1>3, <1>4, <1>5, <1>6 DEF MapNext

\* The invariant implies what the run checks.
LEMMA MapIInvSafe == MapIInv => MapSafe
  <1> SUFFICES ASSUME MapIInv  PROVE MapSafe  OBVIOUS
  <1>1. NotPending  BY Zenon DEF MapIInv, Quiet, NotPending, About
  <1> QED  BY Zenon, <1>1, NextUpdateFits DEF MapIInv, MapSafe

\* Client and server agree up to what is in flight: for every number of IDs, streams and
\* rewinds, no message reaches a pending subscription, no subscription leaks on the
\* server or is forgotten by it, and no update of a live subscription is dropped
\* (subscriptions_map.cc).
THEOREM MapAlwaysSafe == MapSpec => []MapSafe
  <1>1. MapIInv => MapSafe  BY MapIInvSafe
  <1> QED  BY MapInitHolds, MapStepKeeps, <1>1, PTL DEF MapSpec

------------------------------------------------------------------------------
(* The application sees the feed: refinement of TopicFeed, step by step. *)

\* A step that the application does not see is an Advance of nobody.
LEMMA StillFeeds ==
  ASSUME MapTypeInv, UNCHANGED <<log, expected>>, Active' = Active, out' = {}
  PROVE  Feed!Next
  <1>1. ASSUME NEW i  PROVE Feed!Sent(i) = {}  BY DEF Feed!Sent
  <1>2. expected' \in [Ids -> Nat]  BY Zenon DEF MapTypeInv
  <1>3. Feed!Advance  BY Zenon, <1>1, <1>2 DEF Feed!Advance
  <1> QED  BY Zenon, <1>3 DEF Feed!Next

\* An end of a subscription, by the application or by the server.
LEMMA EndFeeds ==
  ASSUME MapTypeInv, NEW id \in Ids, UNCHANGED log, Active' = Active \ {id}, out' = {},
         expected' = [expected EXCEPT ![id] = 0]
  PROVE  Feed!Next
  <1>1. expected \in [Ids -> Nat]  BY Zenon DEF MapTypeInv
  <1>2. expected' = [i \in Ids |-> IF i \in {id} THEN 0 ELSE expected[i]]  BY <1>1
  <1>3. [i \in Ids |-> IF i \in Active' THEN Topic ELSE NoTopic]
          = [i \in Ids |-> IF i \in {id} THEN NoTopic
                           ELSE [j \in Ids |-> IF j \in Active THEN Topic ELSE NoTopic][i]]
    OBVIOUS
  <1>4. {id} \in SUBSET Ids  OBVIOUS
  <1>5. Feed!Unsubscribe  BY <1>2, <1>3, <1>4 DEF Feed!Unsubscribe
  <1> QED  BY Zenon, <1>5 DEF Feed!Next

LEMMA SubscribeFeeds ==
  ASSUME MapTypeInv, NEW id \in Ids, NEW n \in Starts, Subscribe(id, n)
  PROVE  Feed!Next
  <1>0. id \notin Active /\ Active' = Active \cup {id} /\ log' = log /\ out' = {}
    BY Zenon DEF MapTypeInv, Subscribe, Active
  <1>1. expected \in [Ids -> Nat]  BY Zenon DEF MapTypeInv
  <1>2. expected' = [expected EXCEPT ![id] = expected'[id]] /\ expected'[id] \in Nat
    BY <1>1, StartsAssumption DEF Subscribe
  <1>3. [i \in Ids |-> IF i \in Active' THEN Topic ELSE NoTopic]
          = [[i \in Ids |-> IF i \in Active THEN Topic ELSE NoTopic] EXCEPT ![id] = Topic]
    BY <1>0
  <1>4. [i \in Ids |-> IF i \in Active THEN Topic ELSE NoTopic][id] = NoTopic  BY <1>0
  <1>5. Feed!Subscribe(id)  BY <1>0, <1>2, <1>3, <1>4 DEF Feed!Subscribe
  <1> QED  BY Zenon, <1>5 DEF Feed!Next

LEMMA AppendEntryFeeds == ASSUME AppendEntry  PROVE Feed!Next
  <1>1. UNCHANGED <<pending, synced, expected>> /\ out' = {}  BY Zenon DEF AppendEntry, mapVars
  <1>2. Active' = Active  BY Zenon, <1>1 DEF Active
  <1>3. \E e \in {Topic} \cup {Gap} : log' = Append(log, e)  BY Zenon DEF AppendEntry
  <1>4. Feed!AppendEntry  BY <1>1, <1>2, <1>3 DEF Feed!AppendEntry
  <1> QED  BY Zenon, <1>4 DEF Feed!Next

\* An update at the cursor either finds the tail or covers the cursor.
LEMMA UpdateFeeds ==
  ASSUME MapTypeInv, NEW m \in Updates, m.type = "deliver", m.id \in Active, True(m, log),
         m.prev = expected[m.id], UNCHANGED log, Active' = Active, out' = {m},
         expected' = [expected EXCEPT ![m.id] = m.seqno + 1]
  PROVE  Feed!Next
  <1> DEFINE x == [sub |-> m.id, kind |-> m.kind, prev |-> m.prev, seqno |-> m.seqno]
             t == [i \in Ids |-> IF i \in Active THEN Topic ELSE NoTopic]
  <1>1. expected \in [Ids -> Nat] /\ Len(log) \in Nat  BY DEF MapTypeInv
  <1>2. m.prev \in Nat /\ m.seqno \in Nat /\ m.id \in Ids /\ m.seqno + 1 \in Nat  BY DEF Updates
  <1>3. {[sub |-> y.id, kind |-> y.kind, prev |-> y.prev, seqno |-> y.seqno] : y \in out'} = {x}
    BY Zenon
  <1>4. t[m.id] = Topic /\ t[m.id] # NoTopic  BY <1>2, TopicAssumption
  <1>5. /\ x.sub = m.id /\ x.kind = m.kind /\ x.prev = m.prev /\ x.seqno = m.seqno
    OBVIOUS
  <1>6. expected' \in [Ids -> Nat] /\ expected'[m.id] = m.seqno + 1
        /\ \A i \in Ids : i # m.id => expected'[i] = expected[i]
    BY <1>1, <1>2
  <1>7. CASE m.prev = 0
    <2>1. m.seqno + 1 \in 1 .. Len(log) + 1 /\ (m.seqno + 1) - 1 = m.seqno
      BY <1>1, <1>2 DEF True
    <2>2. {m.id} \in SUBSET {s \in Ids : t[s] # NoTopic /\ expected[s] = 0}
      BY Zenon, <1>2, <1>4, <1>7
    <2>3. expected' = [s \in Ids |-> IF s \in {m.id} THEN m.seqno + 1 ELSE expected[s]]
      BY <1>1, <1>2
    <2>4. x = [sub |-> m.id, kind |-> "gap", prev |-> 0, seqno |-> (m.seqno + 1) - 1]
      BY <1>7, <2>1 DEF True
    <2> HIDE DEF x, t
    <2>5. {[sub |-> y.id, kind |-> y.kind, prev |-> y.prev, seqno |-> y.seqno] : y \in out'}
            = {[sub |-> s, kind |-> "gap", prev |-> 0, seqno |-> (m.seqno + 1) - 1] : s \in {m.id}}
      BY Zenon, <1>3, <2>4
    <2>6. Feed!FoundTail  BY Zenon, <2>1, <2>2, <2>3, <2>5 DEF Feed!FoundTail, t
    <2> QED  BY Zenon, <2>6 DEF Feed!Next
  <1>8. CASE m.prev # 0
    <2> HIDE DEF x
    <2>1. ASSUME NEW s \in Ids, s # m.id  PROVE Feed!Sent(s) = {} /\ expected'[s] = expected[s]
      BY Zenon, <1>3, <1>5, <1>6, <2>1 DEF Feed!Sent
    <2>2. Feed!Sent(m.id) = {x}  BY Zenon, <1>3, <1>5 DEF Feed!Sent
    <2>3. expected[m.id] <= m.seqno /\ expected[m.id] <= expected[m.id]  BY <1>1, <1>2 DEF True
    <2>4. Feed!Covers(x, expected[m.id], Topic)
      BY Zenon, <1>5, <1>8, <2>3 DEF Feed!Covers, True
    <2>5. Feed!Advance
      BY Zenon, <1>3, <1>4, <1>5, <1>6, <2>1, <2>2, <2>4 DEF Feed!Advance
    <2> QED  BY Zenon, <2>5 DEF Feed!Next
  <1> QED  BY Zenon, <1>7, <1>8

LEMMA ReceiveDeliverFeeds == ASSUME MapIInv, ReceiveDeliver  PROVE Feed!Next
  <1> DEFINE m == Head(toClient)
  <1>0. toClient # <<>> /\ m.type = "deliver" /\ UNCHANGED <<log, pending, synced>>
    BY Zenon DEF ReceiveDeliver, Receive
  <1>1. Active' = Active  BY Zenon, <1>0 DEF Active
  <1>2. CASE ~Accepts(m)
    <2>1. out' = {} /\ expected' = expected /\ MapTypeInv  BY Zenon, <1>2 DEF ReceiveDeliver, MapIInv
    <2> QED  BY Zenon, <1>0, <1>1, <2>1, StillFeeds
  <1>3. CASE Accepts(m)
    <2>0. toClient \in Seq(Updates) /\ MapTypeInv /\ m.id \in synced /\ m.id \in Active
      BY Zenon, <1>3 DEF MapIInv, MapTypeInv, Accepts, Active
    <2>1. expected' = [expected EXCEPT ![m.id] = m.seqno + 1] /\ out' = {m}
      BY Zenon, <1>3 DEF ReceiveDeliver
    <2>2. m \in Updates /\ m \in Messages(toClient)  BY <1>0, <2>0, Popped, MessagesPopped
    <2>4. True(m, log)  BY Zenon, <2>2 DEF MapIInv, Truthful
    <2>5. m.prev = expected[m.id]
      <3>1. Chain(toClient, m.id, expected[m.id], m.id \in held, pos[m.id])
        BY Zenon, <2>0 DEF MapIInv, Chained
      <3> QED  BY Zenon, <1>0, <2>0, <3>1, ChainHead
    <2> QED  BY Zenon, <1>0, <1>1, <2>0, <2>1, <2>2, <2>4, <2>5, UpdateFeeds
  <1> QED  BY Zenon, <1>2, <1>3

LEMMA ReceiveUnsubscribeFeeds == ASSUME MapIInv, ReceiveUnsubscribe  PROVE Feed!Next
  <1> DEFINE id == Head(toClient).id
  <1>0. MapTypeInv /\ UNCHANGED <<log, pending>> /\ out' = {}  BY Zenon DEF MapIInv, ReceiveUnsubscribe
  <1>1. CASE id \in synced
    <2>1. synced' = synced \ {id} /\ expected' = [expected EXCEPT ![id] = 0]
      BY Zenon, <1>1 DEF ReceiveUnsubscribe
    <2>2. id \in Ids /\ id \notin pending  BY Zenon, <1>1 DEF MapIInv, MapTypeInv
    <2>3. Active' = Active \ {id}  BY Zenon, <1>0, <2>1, <2>2 DEF Active
    <2> QED  BY Zenon, <1>0, <2>1, <2>2, <2>3, EndFeeds
  <1>2. CASE id \notin synced
    <2>1. UNCHANGED <<synced, expected>>  BY Zenon, <1>2 DEF ReceiveUnsubscribe
    <2>2. Active' = Active  BY Zenon, <1>0, <2>1 DEF Active
    <2> QED  BY Zenon, <1>0, <2>1, <2>2, StillFeeds
  <1> QED  BY Zenon, <1>1, <1>2

LEMMA UnsubscribeFeeds == ASSUME MapTypeInv, NEW id \in Ids, Unsubscribe(id)  PROVE Feed!Next
  <1>1. /\ UNCHANGED log /\ out' = {} /\ expected' = [expected EXCEPT ![id] = 0]
        /\ Active' = Active \ {id}
    BY Zenon DEF Unsubscribe, Active
  <1> QED  BY Zenon, <1>1, EndFeeds

\* The sources, the stream and the server move nothing that the application sees.
LEMMA TransportFeeds ==
  ASSUME MapTypeInv,
         \/ \E id \in Ids : \/ HandlePendingSubscription(id) \/ HandlePendingUnsubscription(id)
                            \/ ServerDeliver(id) \/ ServerFoundTail(id) \/ ServerTerminate(id)
         \/ ConnectionCreated \/ ConnectionDropped \/ ServerReceive
  PROVE  Feed!Next
  <1>1. UNCHANGED <<log, expected>> /\ out' = {}
    BY Zenon DEF HandlePendingSubscription, HandlePendingUnsubscription, ConnectionCreated,
                 ConnectionDropped, ServerReceive, ServerDeliver, ServerFoundTail, ServerTerminate,
                 ServerSends
  <1>2. Active' = Active
    <2>1. ASSUME NEW id \in Ids, HandlePendingSubscription(id)  PROVE Active' = Active
      BY Zenon, <2>1 DEF HandlePendingSubscription, Active
    <2>2. CASE ConnectionCreated  BY Zenon, <2>2 DEF ConnectionCreated, Active
    <2>3. ASSUME NEW id \in Ids, \/ HandlePendingUnsubscription(id) \/ ServerDeliver(id)
                                 \/ ServerFoundTail(id) \/ ServerTerminate(id)
          PROVE  UNCHANGED <<pending, synced>>
      BY Zenon, <2>3 DEF HandlePendingUnsubscription, ServerDeliver, ServerFoundTail,
                         ServerTerminate, ServerSends
    <2>4. ConnectionDropped \/ ServerReceive => UNCHANGED <<pending, synced>>
      BY Zenon DEF ConnectionDropped, ServerReceive
    <2>5. UNCHANGED <<pending, synced>> => Active' = Active  BY Zenon DEF Active
    <2> QED  BY Zenon, <2>1, <2>2, <2>3, <2>4, <2>5
  <1> QED  BY Zenon, <1>1, <1>2, StillFeeds

LEMMA MapInitFeeds == MapInit => Feed!Init
  BY DEF MapInit, Feed!Init, Active

\* Every step of the map but a rewind is a step of the feed.
LEMMA MapStepFeeds ==
  ASSUME MapIInv, [MapNext]_subscriptionVars
  PROVE  [rewinds' = rewinds => Feed!Next]_(Feed!vars)
  <1>0. MapTypeInv  BY Zenon DEF MapIInv
  <1>1. ASSUME NEW id \in Ids, NEW n \in Starts, Subscribe(id, n)  PROVE Feed!Next
    BY Zenon, <1>0, <1>1, SubscribeFeeds
  <1>2. ASSUME NEW id \in Ids, Unsubscribe(id)  PROVE Feed!Next  BY Zenon, <1>0, <1>2, UnsubscribeFeeds
  <1>3. ASSUME NEW id \in Ids, ReceiveDeliverRewind(id)  PROVE rewinds' # rewinds
    BY <1>0, <1>3 DEF ReceiveDeliverRewind, MapTypeInv
  <1>4. CASE ReceiveDeliver \/ ReceiveUnsubscribe
    BY Zenon, <1>4, ReceiveDeliverFeeds, ReceiveUnsubscribeFeeds
  <1>5. CASE AppendEntry  BY Zenon, <1>5, AppendEntryFeeds
  <1>6. CASE UNCHANGED subscriptionVars
    <2>1. UNCHANGED <<log, pending, synced, expected, out>>  BY Zenon, <1>6 DEF subscriptionVars, mapVars
    <2>2. Active' = Active  BY Zenon, <2>1 DEF Active
    <2> QED  BY Zenon, <2>1, <2>2 DEF Feed!vars
  <1> QED  BY Zenon, <1>0, <1>1, <1>2, <1>3, <1>4, <1>5, <1>6, TransportFeeds DEF MapNext

\* The application sees what a control tower promises: between rewinds a cursor that moves
\* only with an update, and no record of the topic skipped or repeated, for every number of
\* subscriptions and whatever streams are lost on the way (subscriptions_map.cc).
THEOREM MapImplementsFeed == MapSpec => FeedSpec
  <1>1. MapInit => Feed!Init  BY MapInitFeeds
  <1>2. MapIInv /\ [MapNext]_subscriptionVars => [rewinds' = rewinds => Feed!Next]_(Feed!vars)
    BY MapStepFeeds
  <1> QED  BY <1>1, <1>2, MapInitHolds, MapStepKeeps, PTL DEF MapSpec, FeedSpec

------------------------------------------------------------------------------
(* The subscriber and its receiver. *)

Statuses == {"nothing", "ok", "unhealthy", "closed"}

\* The books of the subscriber: it counts its subscriptions, and what it gave
\* the application and had acknowledged lies below the expected number.
BooksInv ==
  /\ IsFiniteSet(Active) /\ ActiveCounted
  /\ acked \in [Ids -> Nat] /\ given \in [Ids -> SUBSET Nat]
  /\ \A id \in fresh : acked[id] = 0 /\ given[id] = {}
  /\ \A id \in Active : /\ \A n \in given[id] : n < expected[id]
                        /\ acked[id] # 0 => acked[id] < expected[id]

\* The state of the receiver and what the observers were told of it.
StatusInv ==
  /\ host \in Hosts \cup {NoHost} /\ timer \in BOOLEAN /\ failures \in 0 .. MaxFailures
  /\ healthy \in BOOLEAN /\ told \in [Ids -> Statuses]
  /\ NeverStranded /\ HealthTold /\ UnhealthyAfterFailures /\ ClosedTold

SubscriberIInv == MapIInv /\ BooksInv /\ StatusInv

LEMMA SubscriberInitHolds == SubscriberInit => SubscriberIInv
  <1> SUFFICES ASSUME SubscriberInit  PROVE SubscriberIInv  OBVIOUS
  <1>1. MapIInv /\ fresh = Ids /\ Active = {} /\ sink = FALSE
    BY Zenon, MapInitHolds DEF SubscriberInit, MapInit, Active
  <1>2. BooksInv
    <2>1. IsFiniteSet({}) /\ Cardinality({}) = 0  BY FS_EmptySet
    <2>2. /\ active = 0 /\ 0 \in 0 .. MaxActive
          /\ acked = [i \in Ids |-> 0] /\ given = [i \in Ids |-> {}]
      BY LimitsAssumption DEF SubscriberInit, UserInit
    <2>3. ActiveCounted  BY Zenon, <1>1, <2>1, <2>2 DEF ActiveCounted
    <2>4. acked \in [Ids -> Nat] /\ given \in [Ids -> SUBSET Nat]  BY <2>2
    <2>5. \A id \in fresh : acked[id] = 0 /\ given[id] = {}  BY <1>1, <2>2
    <2> QED  BY Zenon, <1>1, <2>1, <2>3, <2>4, <2>5 DEF BooksInv
  <1>3. StatusInv
    <2>1. /\ host = NoHost /\ timer = FALSE /\ failures = 0 /\ healthy = TRUE
          /\ told = [i \in Ids |-> "nothing"]
      BY Zenon DEF SubscriberInit, UserInit
    <2>2. failures \in 0 .. MaxFailures /\ ~(failures > MaxSilent)  BY <2>1, LimitsAssumption
    <2>3. told \in [Ids -> Statuses] /\ \A i \in Ids : told[i] # "closed"  BY <2>1 DEF Statuses
    <2> QED  BY Zenon, <1>1, <2>1, <2>2, <2>3
      DEF StatusInv, NeverStranded, HealthTold, UnhealthyAfterFailures, ClosedTold
  <1> QED  BY Zenon, <1>1, <1>2, <1>3 DEF SubscriberIInv

(* What a step of the subscriber does to the map. *)

\* A stream that is reopened in one handler is lost and created.
LEMMA ReopenedKeeps == ASSUME MapIInv, Reopened  PROVE MapIInv'
  <1>0. pos' \in [Ids -> Nat] /\ toServer' \in Seq(Requests) /\ toClient' \in Seq(Updates)
    BY DEF Reopened
  <1>1. streams' \in 0 .. MaxStreams  BY BoundsAssumption DEF MapIInv, MapTypeInv, Reopened
  <1>2. /\ fresh' \cap Active' = {} /\ pending' \cap synced' = {} /\ pending' \subseteq Ids
    BY DEF MapIInv, MapTypeInv, Reopened, Active
  <1>3. MapTypeInv'  BY Zenon, <1>0, <1>1, <1>2 DEF MapIInv, MapTypeInv, Reopened
  <1> QED  BY Zenon, <1>3, EmptyStreamKeeps DEF Reopened

\* A subscription that is rejected uses up its ID.
LEMMA RejectKeeps == ASSUME MapIInv, NEW id \in Ids, RejectSubscription(id)  PROVE MapIInv'
  <1>0. /\ fresh' \subseteq fresh
        /\ UNCHANGED <<log, pending, synced, unsubs, expected, sink, toServer, toClient, held, pos,
                       streams, rewinds>>
    BY Zenon DEF RejectSubscription
  <1>1. MapTypeInv'  BY Zenon, <1>0 DEF MapIInv, MapTypeInv, Active
  <1>2. Quiet' /\ SubscribesFirst(toServer)' /\ Unheard' /\ NotLeaving' /\ SubscribesCurrent'
    BY Zenon, <1>0 DEF MapIInv, Quiet, SubscribesFirst, Unheard, NotLeaving,
                       SubscribesCurrent, About, Subscribing
  <1>3. Mirrored' /\ Chained' /\ Truthful'
    BY Zenon, <1>0 DEF MapIInv, Mirrored, Chained, Truthful, Subscribing, InTransit, Terminating
  <1> QED  BY Zenon, <1>1, <1>2, <1>3 DEF MapIInv

\* Each handler of the subscriber moves the map by one of its steps, by a stream
\* reopened, by an ID used up, or not at all.
LEMMA SubscriberMoves ==
  ASSUME SubscriberNext
  PROVE  \/ MapNext \/ Reopened
         \/ \E id \in Ids : RejectSubscription(id)
         \/ out' = {} /\ UNCHANGED <<log, mapVars>>
  <1>1. ASSUME NEW id \in Ids, NEW n \in Starts, StartSubscription(id, n)  PROVE MapNext
    BY Zenon, <1>1 DEF StartSubscription, MapNext
  <1>2. ASSUME NEW id \in Ids, TerminateSubscription(id) \/ Drain(id)  PROVE MapNext
    BY Zenon, <1>2 DEF TerminateSubscription, Drain, MapNext
  <1>3. ASSUME NEW id \in Ids, NEW n \in 1 .. MaxLog, Acknowledge(id, n)
        PROVE  out' = {} /\ UNCHANGED <<log, mapVars>>
    BY Zenon, <1>3 DEF Acknowledge
  <1>4. ASSUME NEW h \in Hosts \cup {NoHost}, ConnectTo(h)
        PROVE  MapNext \/ Reopened \/ (out' = {} /\ UNCHANGED <<log, mapVars>>)
    BY Zenon, <1>4 DEF ConnectTo, Dropped, MapNext
  <1>5. CASE ReceiveGoodbye  BY Zenon, <1>5 DEF ReceiveGoodbye, MapNext
  <1>6. CASE BackoffTimer  BY Zenon, <1>6 DEF BackoffTimer, MapNext
  <1>7. CASE ReceiveMessage  BY Zenon, <1>7 DEF ReceiveMessage, MapNext
  <1>8. CASE ServerStep  BY Zenon, <1>8 DEF ServerStep, MapNext
  <1> QED  BY Zenon, <1>1, <1>2, <1>3, <1>4, <1>5, <1>6, <1>7, <1>8 DEF SubscriberNext

LEMMA SubscriberKeepsMap == ASSUME MapIInv, SubscriberNext  PROVE MapIInv'
  BY Zenon, SubscriberMoves, MapStepKeeps, ReopenedKeeps, RejectKeeps, MapUnchangedKeeps

LEMMA SubscriberStepFeeds ==
  ASSUME MapIInv, SubscriberNext
  PROVE  [rewinds' = rewinds => Feed!Next]_(Feed!vars)
  <1>0. MapTypeInv  BY Zenon DEF MapIInv
  <1>1. CASE MapNext  BY Zenon, <1>1, MapStepFeeds
  <1>2. CASE Reopened
    <2>1. UNCHANGED <<log, expected>> /\ Active' = Active /\ out' = {}  BY Zenon, <1>2 DEF Reopened, Active
    <2> QED  BY Zenon, <1>0, <2>1, StillFeeds
  <1>3. ASSUME NEW id \in Ids, RejectSubscription(id)  PROVE Feed!Next
    <2>1. UNCHANGED <<log, expected>> /\ Active' = Active /\ out' = {}
      BY Zenon, <1>3 DEF RejectSubscription, Active
    <2> QED  BY Zenon, <1>0, <2>1, StillFeeds
  <1>4. CASE out' = {} /\ UNCHANGED <<log, mapVars>>
    <2>1. UNCHANGED <<log, expected>> /\ Active' = Active  BY Zenon, <1>4 DEF mapVars, Active
    <2> QED  BY Zenon, <1>0, <1>4, <2>1, StillFeeds
  <1> QED  BY Zenon, <1>1, <1>2, <1>3, <1>4, SubscriberMoves

(* The books. *)

LEMMA BooksUnchanged ==
  ASSUME BooksInv, UNCHANGED <<active, acked, given, expected>>, Active' = Active, fresh' \subseteq fresh
  PROVE  BooksInv'
  BY Zenon DEF BooksInv, ActiveCounted

LEMMA BooksStarted ==
  ASSUME MapTypeInv, BooksInv, NEW id \in Ids, NEW n \in Starts, StartSubscription(id, n)
  PROVE  BooksInv'
  <1>0. /\ id \in fresh /\ id \notin Active /\ Active' = Active \cup {id} /\ fresh' \subseteq fresh
        /\ active' = active + 1 /\ UNCHANGED <<acked, given>> /\ expected' = [expected EXCEPT ![id] = n]
    BY Zenon DEF MapTypeInv, StartSubscription, Subscribe, Active
  <1>1. IsFiniteSet(Active') /\ Cardinality(Active') = Cardinality(Active) + 1
    BY <1>0, FS_AddElement DEF BooksInv
  <1>2. active' \in 0 .. MaxActive
    BY <1>0, LimitsAssumption DEF BooksInv, ActiveCounted, StartSubscription
  <1>3. ActiveCounted'  BY Zenon, <1>0, <1>1, <1>2 DEF BooksInv, ActiveCounted
  <1>4. \A i \in Active : i # id /\ expected'[i] = expected[i]  BY <1>0 DEF MapTypeInv, Active
  <1>5. acked[id] = 0 /\ given[id] = {}  BY Zenon, <1>0 DEF BooksInv
  <1>6. \A i \in Active' : /\ \A k \in given'[i] : k < expected'[i]
                           /\ acked'[i] # 0 => acked'[i] < expected'[i]
    BY Zenon, <1>0, <1>4, <1>5 DEF BooksInv
  <1> QED  BY Zenon, <1>0, <1>1, <1>3, <1>6 DEF BooksInv

\* A subscription ends (ReceiveTerminate), and the count with it.
LEMMA BooksEnded ==
  ASSUME MapTypeInv, BooksInv, NEW id \in Active, Active' = Active \ {id}, fresh' = fresh,
         active' = active - 1, acked' = [acked EXCEPT ![id] = 0], given' = [given EXCEPT ![id] = {}],
         expected' = [expected EXCEPT ![id] = 0]
  PROVE  BooksInv'
  <1>0. id \in Ids /\ fresh \subseteq Ids /\ Active \subseteq Ids /\ id \notin fresh
        /\ expected \in [Ids -> Nat] /\ acked \in [Ids -> Nat] /\ given \in [Ids -> SUBSET Nat]
    BY Zenon DEF MapTypeInv, Active, BooksInv
  <1>1. IsFiniteSet(Active') /\ Cardinality(Active') = Cardinality(Active) - 1
    BY FS_RemoveElement DEF BooksInv
  <1>2. Cardinality(Active') \in Nat  BY Zenon, <1>1, FS_CardinalityType
  <1>3. ActiveCounted'
    <2>1. active = Cardinality(Active) /\ active \in 0 .. MaxActive  BY Zenon DEF BooksInv, ActiveCounted
    <2>2. active' \in 0 .. MaxActive /\ active' = Cardinality(Active')
      BY <1>1, <1>2, <2>1, LimitsAssumption
    <2> QED  BY Zenon, <2>2 DEF ActiveCounted
  <1>4. acked' \in [Ids -> Nat] /\ given' \in [Ids -> SUBSET Nat]  BY <1>0
  <1>5. \A i \in Ids : i # id => acked'[i] = acked[i] /\ given'[i] = given[i] /\ expected'[i] = expected[i]
    BY <1>0
  <1>6. \A i \in fresh' : acked'[i] = 0 /\ given'[i] = {}  BY Zenon, <1>0, <1>5 DEF BooksInv
  <1>7. \A i \in Active' : /\ \A k \in given'[i] : k < expected'[i]
                           /\ acked'[i] # 0 => acked'[i] < expected'[i]
    BY Zenon, <1>0, <1>5 DEF BooksInv
  <1> QED  BY Zenon, <1>1, <1>3, <1>4, <1>6, <1>7 DEF BooksInv

LEMMA BooksAcknowledged ==
  ASSUME MapTypeInv, BooksInv, NEW id \in Ids, NEW n \in 1 .. MaxLog, Acknowledge(id, n)
  PROVE  BooksInv'
  <1>0. /\ id \in Active /\ n \in given[id] /\ acked' = [acked EXCEPT ![id] = n]
        /\ UNCHANGED <<active, given, fresh, expected>> /\ Active' = Active
    BY Zenon DEF Acknowledge, mapVars, Active
  <1>1. acked \in [Ids -> Nat] /\ given \in [Ids -> SUBSET Nat] /\ id \notin fresh /\ fresh \subseteq Ids
        /\ Active \subseteq Ids
    BY Zenon, <1>0 DEF BooksInv, MapTypeInv, Active
  <1>2. n \in Nat  BY Zenon, <1>0, <1>1
  <1>3. acked' \in [Ids -> Nat] /\ acked'[id] = n /\ \A i \in Ids : i # id => acked'[i] = acked[i]
    BY <1>0, <1>1, <1>2
  <1> QED  BY Zenon, <1>0, <1>1, <1>3 DEF BooksInv, ActiveCounted

LEMMA BooksDelivered ==
  ASSUME MapIInv, BooksInv, ReceiveDeliver, UNCHANGED <<active, acked>>,
         given' = [i \in Ids |-> given[i] \cup
                                 {m.seqno : m \in {x \in out' : x.id = i /\ x.kind = "data"}}]
  PROVE  BooksInv'
  <1> DEFINE m == Head(toClient)
  <1>0. /\ UNCHANGED <<fresh, pending, synced>> /\ toClient # <<>>
        /\ toClient \in Seq(Updates) /\ expected \in [Ids -> Nat]
        /\ fresh \subseteq Ids /\ Active \subseteq Ids /\ fresh \cap Active = {}
    BY Zenon DEF ReceiveDeliver, Receive, MapIInv, MapTypeInv, Active
  <1>1. Active' = Active  BY Zenon, <1>0 DEF Active
  <1>2. CASE ~Accepts(m)
    <2>1. out' = {} /\ expected' = expected  BY Zenon, <1>2 DEF ReceiveDeliver
    <2>2. given' = given  BY <2>1 DEF BooksInv
    <2> QED  BY Zenon, <1>0, <1>1, <2>1, <2>2, BooksUnchanged
  <1>3. CASE Accepts(m)
    <2>1. expected' = [expected EXCEPT ![m.id] = m.seqno + 1] /\ out' = {m} /\ m.id \in synced
      BY Zenon, <1>3 DEF ReceiveDeliver, Accepts
    <2>2. m \in Updates  BY <1>0, Popped
    <2>3. m.id \in Ids /\ m.seqno \in Nat /\ m.id \in Active /\ expected[m.id] <= m.seqno
      BY <1>3, <2>1, <2>2 DEF Updates, Active, Accepts, ProcessUpdate
    <2> HIDE DEF m
    <2>4. \A i \in Ids : i # m.id => given'[i] = given[i] /\ expected'[i] = expected[i]
      BY <1>0, <2>1 DEF BooksInv
    <2>5. given'[m.id] \subseteq given[m.id] \cup {m.seqno} /\ expected'[m.id] = m.seqno + 1
      BY <1>0, <2>1, <2>3
    <2>6. given' \in [Ids -> SUBSET Nat]  BY <2>1, <2>3 DEF BooksInv
    <2>7. ASSUME NEW i \in Active  PROVE /\ \A n \in given'[i] : n < expected'[i]
                                         /\ acked[i] # 0 => acked[i] < expected'[i]
      <3>1. i \in Ids  BY Zenon, <1>0
      <3>2. CASE i # m.id  BY Zenon, <2>4, <3>1, <3>2 DEF BooksInv
      <3>3. CASE i = m.id
        <4>1. /\ \A n \in given[i] : n < expected[i] /\ n \in Nat
              /\ acked[i] # 0 => acked[i] < expected[i]
              /\ acked[i] \in Nat /\ expected[i] \in Nat
          BY <1>0, <3>1 DEF BooksInv
        <4> QED  BY <2>3, <2>5, <3>3, <4>1
      <3> QED  BY Zenon, <3>2, <3>3
    <2>8. \A i \in fresh : given'[i] = given[i]  BY Zenon, <1>0, <2>3, <2>4
    <2> QED  BY Zenon, <1>0, <1>1, <2>6, <2>7, <2>8 DEF BooksInv, ActiveCounted
  <1> QED  BY Zenon, <1>2, <1>3

(* The receiver and the observers. *)

\* NotifyHealthy tells every open subscription of the health and no other.
LEMMA ToldHealthIs ==
  ASSUME StatusInv, Active \subseteq Ids, NEW h \in BOOLEAN
  PROVE  /\ ToldHealth(h) \in [Ids -> Statuses]
         /\ \A i \in Active : ToldHealth(h)[i] = "unhealthy" <=> ~h
         /\ \A i \in Ids : ToldHealth(h)[i] = "closed" <=> told[i] = "closed"
  <1>0. told \in [Ids -> Statuses] /\ \A i \in Active : told[i] # "closed"
    BY Zenon DEF StatusInv, ClosedTold
  <1>1. CASE h = healthy
    <2>1. ToldHealth(h) = told  BY Zenon, <1>1 DEF ToldHealth
    <2> QED  BY Zenon, <1>0, <1>1, <2>1 DEF StatusInv, HealthTold
  <1>2. CASE h # healthy
    <2>1. ToldHealth(h) =
            [i \in Ids |-> IF i \in Active THEN (IF h THEN "ok" ELSE "unhealthy") ELSE told[i]]
      BY Zenon, <1>2 DEF ToldHealth
    <2>2. "ok" # "unhealthy" /\ "ok" # "closed" /\ "unhealthy" # "closed"  OBVIOUS
    <2>3. CASE h
      <3>1. ToldHealth(h) = [i \in Ids |-> IF i \in Active THEN "ok" ELSE told[i]]  BY Zenon, <2>1, <2>3
      <3> QED  BY <1>0, <2>3, <3>1 DEF Statuses
    <2>4. CASE ~h
      <3>1. ToldHealth(h) = [i \in Ids |-> IF i \in Active THEN "unhealthy" ELSE told[i]]
        BY Zenon, <2>1, <2>4
      <3> QED  BY <1>0, <2>4, <3>1 DEF Statuses
    <2> QED  BY Zenon, <2>3, <2>4
  <1> QED  BY Zenon, <1>1, <1>2

\* A failure counts, and the first past max_silent_reconnects_ is reported.
LEMMA ConnectionFailedKeeps ==
  ASSUME StatusInv, Active \subseteq Ids, ConnectionFailed, Active' = Active, fresh' = fresh
  PROVE  /\ failures' \in 0 .. MaxFailures /\ healthy' \in BOOLEAN /\ told' \in [Ids -> Statuses]
         /\ HealthTold' /\ UnhealthyAfterFailures' /\ ClosedTold'
  <1>0. failures' = failures + 1 /\ failures < MaxFailures /\ failures \in 0 .. MaxFailures
    BY Zenon DEF ConnectionFailed, StatusInv
  <1>1. failures' \in 0 .. MaxFailures /\ failures \in Nat  BY <1>0, LimitsAssumption
  <1>2. CASE failures' = MaxSilent + 1
    <2>1. healthy' = FALSE /\ told' = ToldHealth(FALSE)  BY Zenon, <1>2 DEF ConnectionFailed, NotifyHealthy
    <2>2. FALSE \in BOOLEAN  OBVIOUS
    <2>3. /\ told' \in [Ids -> Statuses]
          /\ \A i \in Active : told'[i] = "unhealthy"
          /\ \A i \in Ids : told'[i] = "closed" <=> told[i] = "closed"
      BY Zenon, <2>1, <2>2, ToldHealthIs
    <2>4. failures' > MaxSilent  BY <1>0, <1>1, <1>2, LimitsAssumption
    <2> QED  BY Zenon, <1>1, <2>1, <2>2, <2>3, <2>4
      DEF StatusInv, HealthTold, UnhealthyAfterFailures, ClosedTold
  <1>3. CASE failures' # MaxSilent + 1
    <2>1. UNCHANGED <<healthy, told>>  BY Zenon, <1>3 DEF ConnectionFailed
    <2>2. failures' > MaxSilent <=> failures > MaxSilent  BY <1>0, <1>1, <1>3, LimitsAssumption
    <2> QED  BY Zenon, <1>1, <2>1, <2>2 DEF StatusInv, HealthTold, UnhealthyAfterFailures, ClosedTold
  <1> QED  BY Zenon, <1>2, <1>3

\* A step of the transport, or an acknowledgement.
LEMMA StatusUnchanged ==
  ASSUME StatusInv, UNCHANGED <<host, timer, failures, healthy, told, sink, fresh>>, Active' = Active
  PROVE  StatusInv'
  BY Zenon DEF StatusInv, NeverStranded, HealthTold, UnhealthyAfterFailures, ClosedTold

LEMMA StatusStarted ==
  ASSUME MapTypeInv, StatusInv, NEW id \in Ids, NEW n \in Starts, StartSubscription(id, n)
  PROVE  StatusInv'
  <1> DEFINE t == IF healthy THEN "nothing" ELSE "unhealthy"
  <1>0. /\ id \in fresh /\ id \notin Active /\ Active' = Active \cup {id} /\ fresh' = fresh \ {id}
        /\ told' = [told EXCEPT ![id] = t] /\ UNCHANGED <<host, timer, failures, healthy, sink>>
    BY Zenon DEF MapTypeInv, StartSubscription, Subscribe, Active, receiverVars
  <1>1. t \in Statuses /\ t # "closed" /\ (t = "unhealthy" <=> ~healthy)  BY DEF Statuses
  <1> HIDE DEF t
  <1>2. told \in [Ids -> Statuses] /\ Active \subseteq Ids  BY Zenon DEF StatusInv, MapTypeInv, Active
  <1>3. /\ told' \in [Ids -> Statuses] /\ told'[id] = t
        /\ \A i \in Ids : i # id => told'[i] = told[i]
    BY <1>0, <1>1, <1>2
  <1>4. HealthTold' /\ ClosedTold'
    BY Zenon, <1>0, <1>1, <1>2, <1>3 DEF StatusInv, HealthTold, ClosedTold
  <1> QED  BY Zenon, <1>0, <1>3, <1>4 DEF StatusInv, NeverStranded, UnhealthyAfterFailures

\* The observer of a rejected subscription is told and destroyed.
LEMMA StatusRejected ==
  ASSUME MapTypeInv, StatusInv, NEW id \in Ids, RejectSubscription(id)
  PROVE  StatusInv'
  <1>0. /\ id \in fresh /\ id \notin Active /\ Active' = Active /\ fresh' = fresh \ {id}
        /\ told' = [told EXCEPT ![id] = "closed"] /\ UNCHANGED <<host, timer, failures, healthy, sink>>
    BY Zenon DEF MapTypeInv, RejectSubscription, Active, receiverVars
  <1>2. told \in [Ids -> Statuses] /\ Active \subseteq Ids  BY Zenon DEF StatusInv, MapTypeInv, Active
  <1>3. /\ told' \in [Ids -> Statuses] /\ told'[id] = "closed"
        /\ \A i \in Ids : i # id => told'[i] = told[i]
    BY <1>0, <1>2 DEF Statuses
  <1>4. HealthTold' /\ ClosedTold'
    BY Zenon, <1>0, <1>2, <1>3 DEF StatusInv, HealthTold, ClosedTold
  <1> QED  BY Zenon, <1>0, <1>3, <1>4 DEF StatusInv, NeverStranded, UnhealthyAfterFailures

\* The observer of a subscription that ends is told, after what t tells the others.
LEMMA StatusEnded ==
  ASSUME MapTypeInv, StatusInv, NEW id \in Active, NEW t \in [Ids -> Statuses], Active' = Active \ {id},
         told' = [t EXCEPT ![id] = "closed"], UNCHANGED <<host, timer, sink, fresh>>,
         failures' \in 0 .. MaxFailures, healthy' \in BOOLEAN, UnhealthyAfterFailures',
         \A i \in Active : t[i] = "unhealthy" <=> ~healthy',
         \A i \in Ids : t[i] = "closed" <=> told[i] = "closed"
  PROVE  StatusInv'
  <1>0. id \in Ids /\ Active \subseteq Ids /\ id \notin fresh  BY Zenon DEF MapTypeInv, Active
  <1>1. /\ told' \in [Ids -> Statuses] /\ told'[id] = "closed"
        /\ \A i \in Ids : i # id => told'[i] = t[i]
    BY <1>0 DEF Statuses
  <1>2. HealthTold'  BY Zenon, <1>0, <1>1 DEF HealthTold
  <1>3. ClosedTold'  BY Zenon, <1>0, <1>1 DEF StatusInv, ClosedTold
  <1> QED  BY Zenon, <1>1, <1>2, <1>3 DEF StatusInv, NeverStranded

\* A message makes the shard healthy, and every observer is told.
LEMMA StatusHeard ==
  ASSUME MapTypeInv, StatusInv, failures' = 0, healthy' = TRUE, told' = ToldHealth(TRUE),
         UNCHANGED <<host, timer, sink, fresh>>, Active' = Active
  PROVE  StatusInv'
  <1>1. failures' \in 0 .. MaxFailures /\ ~(failures' > MaxSilent)  BY LimitsAssumption
  <1>2. Active \subseteq Ids /\ TRUE \in BOOLEAN  BY Zenon DEF MapTypeInv, Active
  <1>3. /\ told' \in [Ids -> Statuses]
        /\ \A i \in Active : told'[i] # "unhealthy"
        /\ \A i \in Ids : told'[i] = "closed" <=> told[i] = "closed"
    BY Zenon, <1>2, ToldHealthIs
  <1> QED  BY Zenon, <1>1, <1>2, <1>3
    DEF StatusInv, NeverStranded, HealthTold, UnhealthyAfterFailures, ClosedTold

\* The stream is lost, cannot be opened, or is opened.
LEMMA StatusConnected ==
  ASSUME MapTypeInv, StatusInv, NEW h \in Hosts \cup {NoHost},
         ConnectTo(h) \/ ReceiveGoodbye \/ BackoffTimer
  PROVE  StatusInv'
  <1>0. /\ host \in Hosts \cup {NoHost} /\ failures \in 0 .. MaxFailures
        /\ healthy \in BOOLEAN /\ told \in [Ids -> Statuses] /\ sink \in BOOLEAN /\ timer \in BOOLEAN
        /\ HealthTold /\ UnhealthyAfterFailures /\ ClosedTold /\ Active \subseteq Ids
    BY Zenon DEF StatusInv, MapTypeInv, Active
  <1>1. ConnectionDropped => Active' = Active /\ fresh' = fresh /\ sink /\ sink' = FALSE
    BY Zenon DEF ConnectionDropped, Active
  <1>2. ConnectionCreated => Active' = Active /\ fresh' = fresh /\ sink' = TRUE /\ ~sink
    BY Zenon DEF ConnectionCreated, Active
  <1>3. Reopened => Active' = Active /\ fresh' = fresh /\ sink' = TRUE
    BY Zenon DEF Reopened, Active
  <1>4. UNCHANGED mapVars => Active' = Active /\ fresh' = fresh /\ sink' = sink
    BY Zenon DEF mapVars, Active
  <1>5. Dropped => Active' = Active /\ fresh' = fresh /\ sink' = FALSE
    BY Zenon, <1>0, <1>1, <1>4 DEF Dropped
  <1>6. Active' = Active /\ fresh' = fresh
    BY Zenon, <1>1, <1>2, <1>3, <1>4, <1>5 DEF ConnectTo, ReceiveGoodbye, BackoffTimer
  <1>7. /\ failures' \in 0 .. MaxFailures /\ healthy' \in BOOLEAN /\ told' \in [Ids -> Statuses]
        /\ HealthTold' /\ UnhealthyAfterFailures' /\ ClosedTold'
    <2>1. CASE ConnectionFailed  BY Zenon, <1>0, <1>6, <2>1, ConnectionFailedKeeps
    <2>2. CASE UNCHANGED <<failures, healthy, told>>
      BY Zenon, <1>0, <1>6, <2>2 DEF HealthTold, UnhealthyAfterFailures, ClosedTold
    <2> QED  BY Zenon, <2>1, <2>2 DEF ConnectTo, ReceiveGoodbye, BackoffTimer
  <1>8. host' \in Hosts \cup {NoHost} /\ timer' \in BOOLEAN /\ NeverStranded'
    <2>1. CASE ConnectTo(h)  BY Zenon, <1>3, <1>5, <2>1 DEF ConnectTo, NeverStranded
    <2>2. CASE ReceiveGoodbye
      BY Zenon, <1>0, <1>1, <2>2 DEF ReceiveGoodbye, StatusInv, NeverStranded
    <2>3. CASE BackoffTimer
      BY Zenon, <1>0, <1>2, <1>4, <2>3 DEF BackoffTimer, StatusInv, NeverStranded
    <2> QED  BY Zenon, <2>1, <2>2, <2>3
  <1> QED  BY Zenon, <1>7, <1>8 DEF StatusInv

LEMMA TerminateSubscriptionKeeps ==
  ASSUME MapTypeInv, BooksInv, StatusInv, NEW id \in Ids, TerminateSubscription(id)
  PROVE  BooksInv' /\ StatusInv'
  <1>1. /\ id \in Active /\ Active' = Active \ {id} /\ fresh' = fresh /\ sink' = sink
        /\ expected' = [expected EXCEPT ![id] = 0]
    BY Zenon DEF TerminateSubscription, Unsubscribe, Active
  <1>2. /\ told' = [told EXCEPT ![id] = "closed"] /\ active' = active - 1
        /\ acked' = [acked EXCEPT ![id] = 0] /\ given' = [given EXCEPT ![id] = {}]
        /\ UNCHANGED <<host, timer, failures, healthy>>
    BY Zenon DEF TerminateSubscription, ReceiveTerminate, receiverVars
  <1>3. /\ told \in [Ids -> Statuses] /\ failures' \in 0 .. MaxFailures /\ healthy' \in BOOLEAN
        /\ UnhealthyAfterFailures' /\ \A i \in Active : told[i] = "unhealthy" <=> ~healthy'
    BY Zenon, <1>2 DEF StatusInv, UnhealthyAfterFailures, HealthTold
  <1>4. BooksInv'  BY Zenon, <1>1, <1>2, BooksEnded
  <1>5. StatusInv'  BY Zenon, <1>1, <1>2, <1>3, StatusEnded
  <1> QED  BY Zenon, <1>4, <1>5

LEMMA ReceiveMessageKeeps ==
  ASSUME MapIInv, BooksInv, StatusInv, ReceiveMessage
  PROVE  BooksInv' /\ StatusInv'
  <1>0. MapTypeInv /\ failures' = 0 /\ UNCHANGED <<host, timer>> /\ Active \subseteq Ids
    BY Zenon DEF ReceiveMessage, MapIInv, MapTypeInv, Active
  <1>1. CASE /\ ReceiveDeliver /\ NotifyHealthy(TRUE)
             /\ given' = [i \in Ids |-> given[i] \cup
                                      {m.seqno : m \in {x \in out' : x.id = i /\ x.kind = "data"}}]
             /\ UNCHANGED <<active, acked>>
    <2>1. UNCHANGED <<fresh, sink>> /\ Active' = Active  BY Zenon, <1>1 DEF ReceiveDeliver, Active
    <2>2. healthy' = TRUE /\ told' = ToldHealth(TRUE)  BY Zenon, <1>1 DEF NotifyHealthy
    <2>3. BooksInv'  BY Zenon, <1>1, BooksDelivered
    <2>4. StatusInv'  BY Zenon, <1>0, <2>1, <2>2, StatusHeard
    <2> QED  BY Zenon, <2>3, <2>4
  <1>2. CASE /\ ReceiveUnsubscribe /\ healthy' = TRUE
             /\ IF Head(toClient).id \in synced
                  THEN ReceiveTerminate(Head(toClient).id, ToldHealth(TRUE))
                  ELSE told' = ToldHealth(TRUE) /\ UNCHANGED <<active, acked, given>>
    <2> DEFINE id == Head(toClient).id
    <2>0. UNCHANGED <<fresh, sink, pending>>  BY Zenon, <1>2 DEF ReceiveUnsubscribe
    <2>1. CASE id \in synced
      <3>1. id \in Ids /\ id \in Active /\ id \notin pending  BY Zenon, <1>0, <2>1 DEF MapTypeInv, Active
      <3>2. synced' = synced \ {id} /\ expected' = [expected EXCEPT ![id] = 0]
        BY Zenon, <1>2, <2>1 DEF ReceiveUnsubscribe
      <3>3. Active' = Active \ {id}  BY Zenon, <2>0, <3>1, <3>2 DEF Active
      <3>4. /\ told' = [ToldHealth(TRUE) EXCEPT ![id] = "closed"] /\ active' = active - 1
            /\ acked' = [acked EXCEPT ![id] = 0] /\ given' = [given EXCEPT ![id] = {}]
        BY Zenon, <1>2, <2>1 DEF ReceiveTerminate
      <3>5. TRUE \in BOOLEAN /\ healthy' = TRUE  BY Zenon, <1>2
      <3>6. /\ ToldHealth(TRUE) \in [Ids -> Statuses]
            /\ \A i \in Active : ToldHealth(TRUE)[i] = "unhealthy" <=> ~healthy'
            /\ \A i \in Ids : ToldHealth(TRUE)[i] = "closed" <=> told[i] = "closed"
        BY Zenon, <1>0, <3>5, ToldHealthIs
      <3>7. failures' \in 0 .. MaxFailures /\ ~(failures' > MaxSilent)  BY <1>0, LimitsAssumption
      <3>8. UnhealthyAfterFailures'  BY Zenon, <3>5, <3>7 DEF UnhealthyAfterFailures
      <3>9. BooksInv'  BY Zenon, <1>0, <2>0, <3>1, <3>2, <3>3, <3>4, BooksEnded
      <3>10. StatusInv'
        BY Zenon, <1>0, <2>0, <3>1, <3>3, <3>4, <3>5, <3>6, <3>7, <3>8, StatusEnded
      <3> QED  BY Zenon, <3>9, <3>10
    <2>2. CASE id \notin synced
      <3>1. UNCHANGED <<synced, expected>>  BY Zenon, <1>2, <2>2 DEF ReceiveUnsubscribe
      <3>2. Active' = Active  BY Zenon, <2>0, <3>1 DEF Active
      <3>3. told' = ToldHealth(TRUE) /\ UNCHANGED <<active, acked, given>>  BY Zenon, <1>2, <2>2
      <3>4. BooksInv'  BY Zenon, <2>0, <3>1, <3>2, <3>3, BooksUnchanged
      <3>5. StatusInv'  BY Zenon, <1>0, <1>2, <2>0, <3>2, <3>3, StatusHeard
      <3> QED  BY Zenon, <3>4, <3>5
    <2> QED  BY Zenon, <2>1, <2>2
  <1> QED  BY Zenon, <1>1, <1>2 DEF ReceiveMessage

\* A step of the stream's sources or of the server touches neither the books nor
\* what the observers know.
LEMMA TransportKeeps ==
  ASSUME BooksInv, StatusInv, UNCHANGED <<receiverVars, healthy, told, userVars>>,
         \/ \E id \in Ids : \/ HandlePendingSubscription(id) \/ HandlePendingUnsubscription(id)
                            \/ ServerDeliver(id) \/ ServerFoundTail(id) \/ ServerTerminate(id)
         \/ AppendEntry \/ ServerReceive
  PROVE  BooksInv' /\ StatusInv'
  <1>1. UNCHANGED <<fresh, expected, sink>> /\ Active' = Active
    <2>1. ASSUME NEW id \in Ids, HandlePendingSubscription(id)
          PROVE  UNCHANGED <<fresh, expected, sink>> /\ Active' = Active
      BY Zenon, <2>1 DEF HandlePendingSubscription, Active
    <2>2. ASSUME NEW id \in Ids, \/ HandlePendingUnsubscription(id) \/ ServerDeliver(id)
                                 \/ ServerFoundTail(id) \/ ServerTerminate(id)
          PROVE  UNCHANGED <<fresh, expected, sink, pending, synced>>
      BY Zenon, <2>2 DEF HandlePendingUnsubscription, ServerDeliver, ServerFoundTail,
                         ServerTerminate, ServerSends
    <2>3. AppendEntry \/ ServerReceive => UNCHANGED <<fresh, expected, sink, pending, synced>>
      BY Zenon DEF AppendEntry, mapVars, ServerReceive
    <2>4. UNCHANGED <<pending, synced>> => Active' = Active  BY Zenon DEF Active
    <2> QED  BY Zenon, <2>1, <2>2, <2>3, <2>4
  <1>2. UNCHANGED <<host, timer, failures, active, acked, given>>  BY Zenon DEF receiverVars, userVars
  <1>3. fresh' \subseteq fresh  BY Zenon, <1>1
  <1>4. BooksInv'  BY Zenon, <1>1, <1>2, <1>3, BooksUnchanged
  <1>5. StatusInv'  BY Zenon, <1>1, <1>2, StatusUnchanged
  <1> QED  BY Zenon, <1>4, <1>5

LEMMA ConnectionKeepsBooks ==
  ASSUME BooksInv, NEW h \in Hosts \cup {NoHost}, ConnectTo(h) \/ ReceiveGoodbye \/ BackoffTimer
  PROVE  BooksInv'
  <1>1. ConnectionDropped => Active' = Active /\ UNCHANGED <<fresh, expected>>
    BY Zenon DEF ConnectionDropped, Active
  <1>2. ConnectionCreated => Active' = Active /\ UNCHANGED <<fresh, expected>>
    BY Zenon DEF ConnectionCreated, Active
  <1>3. Reopened => Active' = Active /\ UNCHANGED <<fresh, expected>>  BY Zenon DEF Reopened, Active
  <1>4. UNCHANGED mapVars => Active' = Active /\ UNCHANGED <<fresh, expected>>
    BY Zenon DEF mapVars, Active
  <1>5. Active' = Active /\ UNCHANGED <<fresh, expected>>
    BY Zenon, <1>1, <1>2, <1>3, <1>4 DEF ConnectTo, ReceiveGoodbye, BackoffTimer, Dropped
  <1>6. UNCHANGED <<active, acked, given>>
    BY Zenon DEF ConnectTo, ReceiveGoodbye, BackoffTimer, userVars
  <1>7. fresh' \subseteq fresh  BY Zenon, <1>5
  <1> QED  BY Zenon, <1>5, <1>6, <1>7, BooksUnchanged

\* The invariant of the subscriber is inductive.
LEMMA SubscriberStepKeeps == SubscriberIInv /\ [SubscriberNext]_subscriberVars => SubscriberIInv'
  <1> SUFFICES ASSUME SubscriberIInv, [SubscriberNext]_subscriberVars  PROVE SubscriberIInv'  OBVIOUS
  <1>0. MapIInv /\ MapTypeInv /\ BooksInv /\ StatusInv  BY Zenon DEF SubscriberIInv, MapIInv
  <1>1. CASE UNCHANGED subscriberVars
    <2>1. /\ UNCHANGED <<log, mapVars>> /\ UNCHANGED <<fresh, expected, sink, pending, synced>>
          /\ UNCHANGED <<host, timer, failures, healthy, told, active, acked, given>>
      BY Zenon, <1>1 DEF subscriberVars, subscriptionVars, mapVars, receiverVars, userVars
    <2>2. Active' = Active /\ fresh' \subseteq fresh  BY Zenon, <2>1 DEF Active
    <2> QED  BY Zenon, <1>0, <2>1, <2>2, MapUnchangedKeeps, BooksUnchanged, StatusUnchanged
          DEF SubscriberIInv
  <1>2. ASSUME NEW id \in Ids, NEW n \in Starts, StartSubscription(id, n)  PROVE BooksInv' /\ StatusInv'
    BY Zenon, <1>0, <1>2, BooksStarted, StatusStarted
  <1>3. ASSUME NEW id \in Ids, RejectSubscription(id)  PROVE BooksInv' /\ StatusInv'
    <2>1. UNCHANGED <<active, acked, given, expected>> /\ Active' = Active /\ fresh' \subseteq fresh
      BY Zenon, <1>3 DEF RejectSubscription, Active
    <2> QED  BY Zenon, <1>0, <1>3, <2>1, BooksUnchanged, StatusRejected
  <1>4. ASSUME NEW id \in Ids, TerminateSubscription(id)  PROVE BooksInv' /\ StatusInv'
    BY Zenon, <1>0, <1>4, TerminateSubscriptionKeeps
  <1>5. ASSUME NEW id \in Ids, Drain(id)  PROVE BooksInv' /\ StatusInv'
    BY Zenon, <1>0, <1>5, TransportKeeps DEF Drain
  <1>6. ASSUME NEW id \in Ids, NEW n \in 1 .. MaxLog, Acknowledge(id, n)  PROVE BooksInv' /\ StatusInv'
    <2>1. UNCHANGED <<host, timer, failures, healthy, told, sink, fresh>> /\ Active' = Active
      BY Zenon, <1>6 DEF Acknowledge, mapVars, receiverVars, Active
    <2> QED  BY Zenon, <1>0, <1>6, <2>1, BooksAcknowledged, StatusUnchanged
  <1>7. ASSUME NEW h \in Hosts \cup {NoHost}, ConnectTo(h) \/ ReceiveGoodbye \/ BackoffTimer
        PROVE  BooksInv' /\ StatusInv'
    BY Zenon, <1>0, <1>7, ConnectionKeepsBooks, StatusConnected
  <1>8. NoHost \in Hosts \cup {NoHost}  OBVIOUS
  <1>9. ReceiveMessage => BooksInv' /\ StatusInv'  BY Zenon, <1>0, ReceiveMessageKeeps
  <1>10. ServerStep => BooksInv' /\ StatusInv'  BY Zenon, <1>0, TransportKeeps DEF ServerStep
  <1>11. SubscriberNext => BooksInv' /\ StatusInv'
    BY Zenon, <1>2, <1>3, <1>4, <1>5, <1>6, <1>7, <1>8, <1>9, <1>10 DEF SubscriberNext
  <1> QED  BY Zenon, <1>0, <1>1, <1>11, SubscriberKeepsMap DEF SubscriberIInv

LEMMA SubscriberIInvSafe == SubscriberIInv => SubscriberSafe
  <1> SUFFICES ASSUME SubscriberIInv  PROVE SubscriberSafe  OBVIOUS
  <1>0. MapTypeInv /\ BooksInv /\ StatusInv  BY Zenon DEF SubscriberIInv, MapIInv
  <1>1. SubscriberTypeInv
    BY Zenon, <1>0 DEF SubscriberTypeInv, BooksInv, ActiveCounted, StatusInv, Statuses
  <1>2. SavedFits
    <2> SUFFICES ASSUME NEW id \in Active, acked[id] # 0
                 PROVE  acked[id] < Saved(id) /\ Saved(id) <= expected[id]
      BY Zenon DEF SavedFits
    <2>1. id \in Ids /\ acked[id] < expected[id]  BY Zenon, <1>0 DEF BooksInv, MapTypeInv, Active
    <2>2. acked[id] \in Nat /\ expected[id] \in Nat  BY <1>0, <2>1 DEF BooksInv, MapTypeInv
    <2>3. Saved(id) = acked[id] + 1  BY Zenon DEF Saved
    <2> QED  BY <2>1, <2>2, <2>3
  <1> QED  BY Zenon, <1>0, <1>1, <1>2 DEF SubscriberSafe, BooksInv, StatusInv

\* The subscriber's count, its receiver's stream and timer, the health and the ends it
\* reports and the state it saves stay right for every limit and however often the stream
\* is lost (single_shard_subscriber.cc, resilient_receiver.cc).
THEOREM SubscriberAlwaysSafe == SubscriberSpec => []SubscriberSafe
  <1>1. SubscriberIInv => SubscriberSafe  BY SubscriberIInvSafe
  <1> QED  BY SubscriberInitHolds, SubscriberStepKeeps, <1>1, PTL DEF SubscriberSpec

\* The map agrees with the server also under the subscriber, whose handlers drop and
\* reopen the stream in one step (single_shard_subscriber.cc).
THEOREM SubscriberKeepsMapSafe == SubscriberSpec => []MapSafe
  <1>1. SubscriberIInv => MapSafe  BY MapIInvSafe DEF SubscriberIInv
  <1> QED  BY SubscriberInitHolds, SubscriberStepKeeps, <1>1, PTL DEF SubscriberSpec

\* The application of a subscriber sees the feed: no record of the topic skipped or
\* repeated, whatever hosts, streams and retries it goes through.
THEOREM SubscriberImplementsFeed == SubscriberSpec => FeedSpec
  <1>1. SubscriberInit => Feed!Init  BY MapInitFeeds DEF SubscriberInit
  <1>2. SubscriberIInv /\ [SubscriberNext]_subscriberVars => [rewinds' = rewinds => Feed!Next]_(Feed!vars)
    <2> SUFFICES ASSUME SubscriberIInv, [SubscriberNext]_subscriberVars
                 PROVE  [rewinds' = rewinds => Feed!Next]_(Feed!vars)
      OBVIOUS
    <2>0. MapIInv  BY Zenon DEF SubscriberIInv
    <2>1. CASE SubscriberNext  BY Zenon, <2>0, <2>1, SubscriberStepFeeds
    <2>2. CASE UNCHANGED subscriberVars
      BY Zenon, <2>0, <2>2, MapStepFeeds DEF subscriberVars
    <2> QED  BY Zenon, <2>1, <2>2
  <1> QED  BY <1>1, <1>2, SubscriberInitHolds, SubscriberStepKeeps, PTL DEF SubscriberSpec, FeedSpec
=============================================================================
