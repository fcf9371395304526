------------------------- MODULE ControlTowerProofs -------------------------
(***************************************************************************)
(* Proofs about ControlTower: the tower, its rooms and the queues between  *)
(* them agree, for any workers, rooms, streams and subscriptions.          *)
(***************************************************************************)
EXTENDS ControlTower, TLAPS

\* What a command does to a subscription when its room receives it.
Adds(c, st, s) == c.type = "subscribe" /\ c.stream = st /\ c.sub = s
Removes(c, st, s) == c.stream = st /\ (c.type = "goodbye" \/ (c.type = "unsubscribe" /\ c.sub = s))

\* Commands come from the worker of their stream, about ids in use; a goodbye is
\* the last word of a stream.
FromWorker(c, w, used, on) ==
  /\ WorkerOf[c.stream] = w
  /\ c.type \in {"subscribe", "unsubscribe"} => c.sub \in used[c.stream] /\ c.worker = w
  /\ c.type = "goodbye" => c.stream \notin on /\ c.sub = None /\ c.worker = None
  /\ c.type = "tail" => c.worker = w

Addressed ==
  \A w \in Workers, r \in Rooms : \A i \in 1 .. Len(toRoom[w][r]) :
    FromWorker(toRoom[w][r][i], w, usedIds, open)

\* A subscription, the room "at" that the tower knows it in, the commands "q" on
\* their way to room r, and the subscribers of r: what is not removed later is
\* known to the tower, and what the tower knows is there or coming, and stays.
Agreed(q, st, s, r, at, subs) ==
  /\ \A i \in 1 .. Len(q) :
       Adds(q[i], st, s) => at = r \/ \E j \in i + 1 .. Len(q) : Removes(q[j], st, s)
  /\ <<st, s>> \in subs => at = r \/ \E j \in 1 .. Len(q) : Removes(q[j], st, s)
  /\ at = r => /\ <<st, s>> \in subs \/ \E i \in 1 .. Len(q) : Adds(q[i], st, s)
               /\ \A j \in 1 .. Len(q) : ~ Removes(q[j], st, s)

Queue(st, r) == toRoom[WorkerOf[st]][r]

AllAgreed ==
  \A st \in Streams, s \in Subs, r \in Rooms :
    Agreed(Queue(st, r), st, s, r, subToRoom[st][s], subscribers[r])

\* Streams that are gone, and ids not yet used, are unknown to the tower.
KnownInUse ==
  \A st \in Streams, s \in Subs : subToRoom[st][s] # None => st \in open /\ s \in usedIds[st]

\* No room serves the subscription or is about to.
Unserved(st, s) ==
  \A r \in Rooms : /\ <<st, s>> \notin subscribers[r]
                   /\ \A i \in 1 .. Len(Queue(st, r)) : ~ Adds(Queue(st, r)[i], st, s)

Delivering(st, s) ==
  \/ <<"deliver", s>> \in got[st]
  \/ \E r \in Rooms, w \in Workers : \E i \in 1 .. Len(toClient[r][w]) :
       <<st, s>> \in toClient[r][w][i]

Rejecting(st, s) ==
  \/ <<"invalid", s>> \in got[st]
  \/ \E w \in Workers : \E i \in 1 .. Len(toWorker[w]) :
       toWorker[w][i] = [stream |-> st, about |-> <<"invalid", s>>]

\* What copilots are told, or are about to be told, concerns ids they used, and an
\* id that is rejected was never served.
Answered ==
  \A st \in Streams, s \in Subs :
    /\ Delivering(st, s) => s \in usedIds[st]
    /\ Rejecting(st, s) => s \in usedIds[st] /\ ~ Delivering(st, s) /\ Unserved(st, s)

ServedInUse == \A r \in Rooms, st \in Streams, s \in Subs : <<st, s>> \in subscribers[r] => s \in usedIds[st]

\* The inductive invariant.
TowerIInv ==
  /\ TowerTypeInv /\ WorkerKnown /\ Addressed /\ AllAgreed /\ KnownInUse /\ ServedInUse /\ Answered

----------------------------------------------------------------------------
(* What a command that is queued, or received, does to the agreement.       *)

\* A command that leaves the subscription alone, or removes one the tower does
\* not know, may be queued.
LEMMA QueueOther ==
  ASSUME NEW q \in Seq(Commands), NEW c \in Commands, NEW st, NEW s, NEW r, NEW at, NEW subs,
         Agreed(q, st, s, r, at, subs), ~ Adds(c, st, s), Removes(c, st, s) => at # r
  PROVE  Agreed(Append(q, c), st, s, r, at, subs)
<1> DEFINE p == Append(q, c)
<1>1. /\ Len(q) \in Nat /\ Len(p) = Len(q) + 1 /\ p[Len(q) + 1] = c
      /\ \A i \in 1 .. Len(q) : p[i] = q[i]
  OBVIOUS
<1> HIDE DEF p
<1>2. \A i \in 1 .. Len(p) : i \in 1 .. Len(q) \/ i = Len(q) + 1
  BY <1>1
<1>3. \A i \in 1 .. Len(q) : i \in 1 .. Len(p) /\ \A j \in i + 1 .. Len(q) : j \in 1 .. Len(q) /\ j \in i + 1 .. Len(p)
  BY <1>1
<1>4. ASSUME NEW i \in 1 .. Len(p), Adds(p[i], st, s), at # r
      PROVE  \E j \in i + 1 .. Len(p) : Removes(p[j], st, s)
  <2>1. i \in 1 .. Len(q) /\ Adds(q[i], st, s)
    BY <1>1, <1>2, <1>4
  <2>2. PICK j \in i + 1 .. Len(q) : Removes(q[j], st, s)
    BY <1>4, <2>1 DEF Agreed
  <2>3. QED
    BY <1>1, <1>3, <2>1, <2>2
<1>5. ASSUME <<st, s>> \in subs, at # r PROVE \E j \in 1 .. Len(p) : Removes(p[j], st, s)
  BY <1>1, <1>3, <1>5 DEF Agreed
<1>6. ASSUME at = r
      PROVE  /\ <<st, s>> \in subs \/ \E i \in 1 .. Len(p) : Adds(p[i], st, s)
             /\ \A j \in 1 .. Len(p) : ~ Removes(p[j], st, s)
  BY <1>1, <1>2, <1>3, <1>6 DEF Agreed
<1>7. QED
  BY <1>4, <1>5, <1>6 DEF Agreed, p

\* The command that removes a subscription is queued when the tower forgets it.
LEMMA QueueRemove ==
  ASSUME NEW q \in Seq(Commands), NEW c \in Commands, NEW st, NEW s, NEW r, NEW at, NEW subs,
         Removes(c, st, s), at # r
  PROVE  Agreed(Append(q, c), st, s, r, at, subs)
<1> DEFINE p == Append(q, c)
<1>1. /\ Len(q) \in Nat /\ Len(p) = Len(q) + 1 /\ p[Len(q) + 1] = c
  OBVIOUS
<1> HIDE DEF p
<1>2. ASSUME NEW i \in 1 .. Len(p), Adds(p[i], st, s) PROVE \E j \in i + 1 .. Len(p) : Removes(p[j], st, s)
  <2>1. i # Len(q) + 1
    BY <1>1, <1>2 DEF Adds, Removes
  <2>2. Len(q) + 1 \in i + 1 .. Len(p)
    BY <1>1, <2>1
  <2>3. QED
    BY <1>1, <2>2
<1>3. \E j \in 1 .. Len(p) : Removes(p[j], st, s)
  BY <1>1
<1>4. QED
  BY <1>2, <1>3 DEF Agreed, p

\* The command that adds a subscription is queued when the tower comes to know it.
LEMMA QueueAdd ==
  ASSUME NEW q \in Seq(Commands), NEW c \in Commands, NEW st, NEW s, NEW r, NEW subs,
         Adds(c, st, s), \A i \in 1 .. Len(q) : ~ Removes(q[i], st, s)
  PROVE  Agreed(Append(q, c), st, s, r, r, subs)
<1> DEFINE p == Append(q, c)
<1>1. /\ Len(q) \in Nat /\ Len(p) = Len(q) + 1 /\ p[Len(q) + 1] = c
      /\ \A i \in 1 .. Len(q) : p[i] = q[i]
  OBVIOUS
<1> HIDE DEF p
<1>2. \A i \in 1 .. Len(p) : i \in 1 .. Len(q) \/ i = Len(q) + 1
  BY <1>1
<1>3. ~ Removes(c, st, s)
  BY DEF Adds, Removes
<1>4. Len(q) + 1 \in 1 .. Len(p)
  BY <1>1
<1>5. QED
  BY <1>1, <1>2, <1>3, <1>4 DEF Agreed, p

\* A room that receives a command adds or removes what the command says.
LEMMA QueueReceive ==
  ASSUME NEW q \in Seq(Commands), q # <<>>, NEW st, NEW s, NEW r, NEW at, NEW subs, NEW subs1,
         Agreed(q, st, s, r, at, subs),
         Adds(Head(q), st, s) => <<st, s>> \in subs1,
         Removes(Head(q), st, s) => <<st, s>> \notin subs1,
         ~ Adds(Head(q), st, s) /\ ~ Removes(Head(q), st, s) => (<<st, s>> \in subs1 <=> <<st, s>> \in subs)
  PROVE  Agreed(Tail(q), st, s, r, at, subs1)
<1> DEFINE p == Tail(q)
<1>1. /\ Len(q) \in Nat \ {0} /\ Len(p) = Len(q) - 1 /\ Head(q) = q[1]
      /\ \A i \in 1 .. Len(q) - 1 : p[i] = q[i + 1]
  OBVIOUS
<1> HIDE DEF p
<1>2. /\ \A i \in 1 .. Len(p) : i + 1 \in 1 .. Len(q) /\ p[i] = q[i + 1]
      /\ \A i \in 1 .. Len(q) : i # 1 => i - 1 \in 1 .. Len(p) /\ p[i - 1] = q[i]
  BY <1>1
<1>3. ASSUME NEW i \in 1 .. Len(p), Adds(p[i], st, s), at # r
      PROVE  \E j \in i + 1 .. Len(p) : Removes(p[j], st, s)
  <2>1. i + 1 \in 1 .. Len(q) /\ Adds(q[i + 1], st, s)
    BY <1>2, <1>3
  <2>2. PICK j \in (i + 1) + 1 .. Len(q) : Removes(q[j], st, s)
    BY <1>3, <2>1 DEF Agreed
  <2>3. j \in 1 .. Len(q) /\ j # 1 /\ j - 1 \in i + 1 .. Len(p)
    BY <1>1, <2>1
  <2>4. QED
    BY <1>2, <2>2, <2>3
<1>4. ASSUME <<st, s>> \in subs1, at # r PROVE \E j \in 1 .. Len(p) : Removes(p[j], st, s)
  <2>1. ~ Removes(Head(q), st, s)
    BY <1>4
  <2>2. PICK j \in 1 .. Len(q) : j # 1 /\ Removes(q[j], st, s)
    <3>1. CASE Adds(Head(q), st, s)
      <4>1. 1 \in 1 .. Len(q) /\ Adds(q[1], st, s)
        BY <1>1, <3>1
      <4>2. PICK k \in 1 + 1 .. Len(q) : Removes(q[k], st, s)
        BY <1>4, <4>1 DEF Agreed
      <4>3. k \in 1 .. Len(q) /\ k # 1
        BY <1>1
      <4>4. QED
        BY <4>2, <4>3
    <3>2. CASE ~ Adds(Head(q), st, s)
      BY <1>1, <1>4, <2>1, <3>2 DEF Agreed
    <3>3. QED
      BY <3>1, <3>2
  <2>3. QED
    BY <1>2, <2>2
<1>5. ASSUME at = r
      PROVE  /\ <<st, s>> \in subs1 \/ \E i \in 1 .. Len(p) : Adds(p[i], st, s)
             /\ \A j \in 1 .. Len(p) : ~ Removes(p[j], st, s)
  <2>1. \A j \in 1 .. Len(q) : ~ Removes(q[j], st, s)
    BY <1>5 DEF Agreed
  <2>2. ~ Removes(Head(q), st, s)
    BY <1>1, <2>1
  <2>3. \A j \in 1 .. Len(p) : ~ Removes(p[j], st, s)
    BY <1>2, <2>1
  <2>4. <<st, s>> \in subs \/ \E i \in 1 .. Len(q) : Adds(q[i], st, s)
    BY <1>5 DEF Agreed
  <2>5. ASSUME <<st, s>> \notin subs1 PROVE \E i \in 1 .. Len(p) : Adds(p[i], st, s)
    <3>1. ~ Adds(Head(q), st, s) /\ <<st, s>> \notin subs
      BY <2>2, <2>5
    <3>2. PICK i \in 1 .. Len(q) : Adds(q[i], st, s)
      BY <2>4, <3>1
    <3>3. i # 1
      BY <1>1, <3>1, <3>2
    <3>4. QED
      BY <1>2, <3>2, <3>3
  <2>6. QED
    BY <2>3, <2>5
<1>6. QED
  BY <1>3, <1>4, <1>5 DEF Agreed, p

----------------------------------------------------------------------------
(* The steps of the tower.                                                  *)

LEMMA TowerInitIInv == TowerInit => TowerIInv
<1> SUFFICES ASSUME TowerInit PROVE TowerIInv
  OBVIOUS
<1>1. TowerTypeInv
  BY StreamsAssumption, TopicsAssumption, SubsAssumption, FeedAssumption DEF TowerInit, TowerTypeInv
<1>2. WorkerKnown
  BY DEF TowerInit, WorkerKnown
<1>3. /\ \A w \in Workers, r \in Rooms : toRoom[w][r] = <<>> /\ toClient[r][w] = <<>>
      /\ \A w \in Workers : toWorker[w] = <<>>
  BY DEF TowerInit
<1>4. Len(<<>>) = 0 /\ 1 .. 0 = {}
  OBVIOUS
<1>5. Addressed
  BY <1>3, <1>4 DEF Addressed
<1>6. \A st \in Streams, s \in Subs : subToRoom[st][s] = None /\ \A r \in Rooms : subscribers[r] = {}
  BY DEF TowerInit
<1>7. \A st \in Streams, r \in Rooms : Queue(st, r) = <<>>
  BY <1>3, StreamsAssumption DEF Queue
<1>8. AllAgreed
  BY <1>4, <1>6, <1>7, TopicsAssumption DEF AllAgreed, Agreed
<1>9. KnownInUse /\ ServedInUse
  BY <1>6 DEF KnownInUse, ServedInUse
<1>10. \A st \in Streams : got[st] = {}
  BY DEF TowerInit
<1>11. Answered
  BY <1>3, <1>4, <1>10 DEF Answered, Delivering, Rejecting
<1>12. QED
  BY <1>1, <1>2, <1>5, <1>8, <1>9, <1>11 DEF TowerIInv

\* The commands on their way are commands.
LEMMA QueueTypes ==
  ASSUME TowerIInv, NEW w \in Workers, NEW r \in Rooms
  PROVE  /\ toRoom[w][r] \in Seq(Commands)
         /\ \A i \in 1 .. Len(toRoom[w][r]) :
              /\ toRoom[w][r][i] \in Commands
              /\ toRoom[w][r][i].stream \in Streams
<1>1. toRoom[w][r] \in Seq(Commands)
  BY DEF TowerIInv, TowerTypeInv
<1>2. \A i \in 1 .. Len(toRoom[w][r]) : toRoom[w][r][i] \in Commands
  BY <1>1
<1>3. \A c \in Commands : c.stream \in Streams
  BY DEF Commands
<1>4. QED
  BY <1>1, <1>2, <1>3

\* Nothing is known, or on its way, about an id that has not been used.
LEMMA FreshId ==
  ASSUME TowerIInv, NEW st \in Streams, NEW s \in Subs, s \notin usedIds[st]
  PROVE  /\ subToRoom[st][s] = None /\ Unserved(st, s) /\ ~ Delivering(st, s) /\ ~ Rejecting(st, s)
         /\ st \in open => \A r \in Rooms : \A i \in 1 .. Len(Queue(st, r)) : ~ Removes(Queue(st, r)[i], st, s)
<1>1. WorkerOf[st] \in Workers
  BY Zenon, StreamsAssumption
<1>2. \A r \in Rooms : \A i \in 1 .. Len(Queue(st, r)) : ~ Adds(Queue(st, r)[i], st, s)
  BY SMTT(30), <1>1 DEF TowerIInv, Addressed, FromWorker, Queue, Adds
<1>3. \A r \in Rooms : <<st, s>> \notin subscribers[r]
  BY DEF TowerIInv, ServedInUse
<1>4. st \in open => \A r \in Rooms : \A i \in 1 .. Len(Queue(st, r)) : ~ Removes(Queue(st, r)[i], st, s)
  BY <1>1 DEF TowerIInv, Addressed, FromWorker, Queue, Removes
<1>5. subToRoom[st][s] = None /\ ~ Delivering(st, s) /\ ~ Rejecting(st, s)
  BY DEF TowerIInv, KnownInUse, Answered
<1>6. QED
  BY <1>2, <1>3, <1>4, <1>5 DEF Unserved

LEMMA SubscribeInvalidKeeps ==
  ASSUME TowerIInv, NEW st \in Streams, NEW s \in Subs, SubscribeInvalid(st, s)
  PROVE  TowerIInv'
<1> DEFINE m == [stream |-> st, about |-> <<"invalid", s>>]
           w == WorkerOf[st]
<1>1. /\ w \in Workers /\ m \in Answers
  BY StreamsAssumption DEF Answers
<1>2. /\ s \notin usedIds[st]
      /\ UNCHANGED <<open, subToRoom, toRoom, subWorker, subscribers, toClient, finding, fed, tails, got>>
      /\ toWorker' = [toWorker EXCEPT ![w] = Append(@, m)]
      /\ usedIds' = [usedIds EXCEPT ![st] = @ \cup {s}]
  BY DEF SubscribeInvalid, rooms
<1> HIDE DEF m, w
<1>3. TowerTypeInv'
  <2>1. toWorker' \in [Workers -> Seq(Answers)] /\ usedIds' \in [Streams -> SUBSET Subs]
    BY <1>1, <1>2 DEF TowerIInv, TowerTypeInv
  <2>2. QED
    BY <1>2, <2>1 DEF TowerIInv, TowerTypeInv
<1>4. \A st1 \in Streams : usedIds[st1] \subseteq usedIds'[st1] /\ s \in usedIds'[st]
  BY <1>2 DEF TowerIInv, TowerTypeInv
<1>5. WorkerKnown' /\ AllAgreed'
  BY Zenon, <1>2 DEF TowerIInv, WorkerKnown, AllAgreed, Queue
<1>6. Addressed'
  BY <1>2, <1>4, QueueTypes DEF TowerIInv, Addressed, FromWorker
<1>7. KnownInUse' /\ ServedInUse'
  BY <1>2, <1>4 DEF TowerIInv, KnownInUse, ServedInUse
<1>8. ASSUME NEW st1 \in Streams, NEW s1 \in Subs
      PROVE  /\ Delivering(st1, s1)' <=> Delivering(st1, s1)
             /\ Unserved(st1, s1)' <=> Unserved(st1, s1)
  BY <1>2 DEF Delivering, Unserved, Queue
<1>9. ASSUME NEW st1 \in Streams, NEW s1 \in Subs, Rejecting(st1, s1)'
      PROVE  Rejecting(st1, s1) \/ (st1 = st /\ s1 = s)
  <2>1. CASE <<"invalid", s1>> \in got'[st1]
    BY <1>2, <2>1 DEF Rejecting
  <2>2. CASE \E w1 \in Workers : \E i \in 1 .. Len(toWorker'[w1]) :
               toWorker'[w1][i] = [stream |-> st1, about |-> <<"invalid", s1>>]
    <3>0. PICK w1 \in Workers : \E i \in 1 .. Len(toWorker'[w1]) :
               toWorker'[w1][i] = [stream |-> st1, about |-> <<"invalid", s1>>]
      BY <2>2
    <3>1. PICK i \in 1 .. Len(toWorker'[w1]) :
               toWorker'[w1][i] = [stream |-> st1, about |-> <<"invalid", s1>>]
      BY <3>0
    <3>2. toWorker[w1] \in Seq(Answers)
      BY DEF TowerIInv, TowerTypeInv
    <3>3. toWorker'[w1] = IF w1 = w THEN Append(toWorker[w1], m) ELSE toWorker[w1]
      BY <1>2 DEF TowerIInv, TowerTypeInv
    <3>4. (i \in 1 .. Len(toWorker[w1]) /\ toWorker'[w1][i] = toWorker[w1][i]) \/ toWorker'[w1][i] = m
      BY SMTT(30), <1>1, <3>2, <3>3
    <3>5. QED
      BY <3>1, <3>4 DEF Rejecting, m
  <2>3. QED
    BY <1>9, <2>1, <2>2 DEF Rejecting
<1>10. Unserved(st, s) /\ ~ Delivering(st, s)
  BY <1>2, FreshId
<1>11. Answered'
  BY <1>4, <1>8, <1>9, <1>10 DEF TowerIInv, Answered
<1>12. QED
  BY <1>3, <1>5, <1>6, <1>7, <1>11 DEF TowerIInv

\* One command is queued, or the same one for several rooms.
LEMMA QueuesGrow ==
  ASSUME TowerIInv, NEW c \in Commands, TowerTypeInv', open' \subseteq open,
         \A st \in Streams : usedIds[st] \subseteq usedIds'[st],
         \A w \in Workers, r \in Rooms :
           \/ toRoom'[w][r] = toRoom[w][r]
           \/ toRoom'[w][r] = Append(toRoom[w][r], c) /\ FromWorker(c, w, usedIds', open')
  PROVE  Addressed'
<1> SUFFICES ASSUME NEW w \in Workers, NEW r \in Rooms, NEW i \in 1 .. Len(toRoom'[w][r])
             PROVE  FromWorker(toRoom'[w][r][i], w, usedIds', open')
  BY DEF Addressed
<1>1. /\ toRoom[w][r] \in Seq(Commands)
      /\ \A j \in 1 .. Len(toRoom[w][r]) : /\ toRoom[w][r][j] \in Commands
                                         /\ toRoom[w][r][j].stream \in Streams
  BY QueueTypes
<1>2. \A j \in 1 .. Len(toRoom[w][r]) : FromWorker(toRoom[w][r][j], w, usedIds, open)
  BY Zenon DEF TowerIInv, Addressed
<1>3. \A j \in 1 .. Len(toRoom[w][r]) : FromWorker(toRoom[w][r][j], w, usedIds', open')
  BY <1>1, <1>2 DEF FromWorker
<1>4. \/ i \in 1 .. Len(toRoom[w][r]) /\ toRoom'[w][r][i] = toRoom[w][r][i]
      \/ toRoom'[w][r][i] = c /\ FromWorker(c, w, usedIds', open')
  BY <1>1
<1>5. QED
  BY <1>3, <1>4

LEMMA StaysUnserved ==
  ASSUME TowerIInv, NEW c \in Commands, NEW st \in Streams, NEW s \in Subs, ~ Adds(c, st, s),
         subscribers' = subscribers, Unserved(st, s),
         \A r \in Rooms : Queue(st, r)' \in {Queue(st, r), Append(Queue(st, r), c)}
  PROVE  Unserved(st, s)'
<1> SUFFICES ASSUME NEW r \in Rooms, NEW i \in 1 .. Len(Queue(st, r)')
             PROVE  ~ Adds(Queue(st, r)'[i], st, s)
  BY DEF Unserved
<1>1. Queue(st, r) \in Seq(Commands)
  BY Zenon, QueueTypes, StreamsAssumption DEF Queue
<1>2. Queue(st, r)' \in {Queue(st, r), Append(Queue(st, r), c)}
  OBVIOUS
<1>3. (i \in 1 .. Len(Queue(st, r)) /\ Queue(st, r)'[i] = Queue(st, r)[i]) \/ Queue(st, r)'[i] = c
  BY <1>1, <1>2
<1>4. QED
  BY <1>3 DEF Unserved

\* Nothing was sent, or queued to be sent, to a copilot.
LEMMA SameAnswers ==
  ASSUME TowerIInv, UNCHANGED <<toClient, toWorker, got>>,
         \A st \in Streams : usedIds[st] \subseteq usedIds'[st],
         \A st \in Streams, s \in Subs : Rejecting(st, s) /\ Unserved(st, s) => Unserved(st, s)'
  PROVE  Answered'
<1>1. ASSUME NEW st \in Streams, NEW s \in Subs
      PROVE  (Delivering(st, s)' <=> Delivering(st, s)) /\ (Rejecting(st, s)' <=> Rejecting(st, s))
  BY DEF Delivering, Rejecting
<1>2. ASSUME NEW st \in Streams, NEW s \in Subs
      PROVE  /\ Delivering(st, s) => s \in usedIds'[st]
             /\ Rejecting(st, s) => s \in usedIds'[st] /\ ~ Delivering(st, s) /\ Unserved(st, s)'
  BY DEF TowerIInv, Answered
<1>3. QED
  BY <1>1, <1>2 DEF Answered

LEMMA QueueOneCommand ==
  ASSUME TowerIInv, NEW w \in Workers, NEW r \in Rooms, NEW c \in Commands,
         toRoom' = [toRoom EXCEPT ![w][r] = Append(@, c)]
  PROVE  /\ toRoom' \in [Workers -> [Rooms -> Seq(Commands)]]
         /\ \A w1 \in Workers, r1 \in Rooms :
              toRoom'[w1][r1] = IF w1 = w /\ r1 = r THEN Append(toRoom[w1][r1], c) ELSE toRoom[w1][r1]
<1>1. toRoom \in [Workers -> [Rooms -> Seq(Commands)]]
  BY DEF TowerIInv, TowerTypeInv
<1>2. toRoom[w] \in [Rooms -> Seq(Commands)] /\ Append(toRoom[w][r], c) \in Seq(Commands)
  BY <1>1
<1>3. QED
  BY <1>1, <1>2

LEMMA ProcessSubscribeKeeps ==
  ASSUME TowerIInv, NEW st \in Streams, NEW s \in Subs, NEW t \in Topics, ProcessSubscribe(st, s, t)
  PROVE  TowerIInv'
<1> DEFINE w == WorkerOf[st]
           r == RoomOf[t]
           c == Cmd("subscribe", st, s, w)
<1>1. /\ w \in Workers /\ c \in Commands /\ r \in Rooms \cup {NoLog}
      /\ c.type = "subscribe" /\ c.stream = st /\ c.sub = s /\ c.worker = w
  BY StreamsAssumption, TopicsAssumption DEF Commands, Cmd
<1>2. /\ st \in open /\ s \notin usedIds[st]
      /\ UNCHANGED <<open, subWorker, subscribers, toClient, finding, toWorker, fed, tails, got>>
      /\ usedIds' = [usedIds EXCEPT ![st] = @ \cup {s}]
      /\ r = NoLog => UNCHANGED <<toRoom, subToRoom>>
      /\ r # NoLog => /\ toRoom' = [toRoom EXCEPT ![w][r] = Append(@, c)]
                      /\ subToRoom' = [subToRoom EXCEPT ![st][s] = r]
  BY DEF ProcessSubscribe, rooms
<1> HIDE DEF w, r, c
<1>3. usedIds' \in [Streams -> SUBSET Subs]
  BY <1>2 DEF TowerIInv, TowerTypeInv
<1>4. \A st1 \in Streams : usedIds[st1] \subseteq usedIds'[st1] /\ s \in usedIds'[st]
  BY <1>2 DEF TowerIInv, TowerTypeInv
<1>5. WorkerKnown' /\ ServedInUse'
  BY <1>2, <1>4 DEF TowerIInv, WorkerKnown, ServedInUse
<1>6. subToRoom[st][s] = None /\ Unserved(st, s) /\ ~ Rejecting(st, s)
      /\ \A r1 \in Rooms : \A i \in 1 .. Len(Queue(st, r1)) : ~ Removes(Queue(st, r1)[i], st, s)
  BY <1>2, FreshId
<1>7. CASE r = NoLog
  <2>1. TowerTypeInv' /\ AllAgreed' /\ KnownInUse'
    BY SMTT(20), <1>2, <1>3, <1>4, <1>7 DEF TowerIInv, TowerTypeInv, AllAgreed, Queue, KnownInUse
  <2>2. Addressed'
    <3>1. ASSUME NEW w1 \in Workers, NEW r1 \in Rooms, NEW i \in 1 .. Len(toRoom'[w1][r1])
          PROVE  FromWorker(toRoom'[w1][r1][i], w1, usedIds', open')
      <4>1. toRoom'[w1][r1] = toRoom[w1][r1] /\ open' = open
        BY <1>2, <1>7
      <4>2. FromWorker(toRoom[w1][r1][i], w1, usedIds, open)
        BY Zenon, <4>1 DEF TowerIInv, Addressed
      <4>3. toRoom[w1][r1][i].stream \in Streams
        BY Zenon, <4>1, QueueTypes
      <4>4. QED
        BY <1>4, <4>1, <4>2, <4>3 DEF FromWorker
    <3>2. QED
      BY Zenon, <3>1 DEF Addressed
  <2>3. Answered'
    BY <1>2, <1>4, <1>7, SameAnswers DEF Unserved, Queue
  <2>4. QED
    BY Zenon, <1>5, <2>1, <2>2, <2>3 DEF TowerIInv
<1>8. CASE r # NoLog
  <2>1. /\ r \in Rooms
        /\ toRoom' \in [Workers -> [Rooms -> Seq(Commands)]]
        /\ \A w1 \in Workers, r1 \in Rooms :
             toRoom'[w1][r1] = IF w1 = w /\ r1 = r THEN Append(toRoom[w1][r1], c) ELSE toRoom[w1][r1]
    <3>1. r \in Rooms /\ w \in Workers /\ c \in Commands
      BY <1>1, <1>8
    <3>2. toRoom' = [toRoom EXCEPT ![w][r] = Append(@, c)]
      BY <1>2, <1>8
    <3>3. QED
      BY Zenon, <3>1, <3>2, QueueOneCommand
  <2>2. /\ subToRoom' \in [Streams -> [Subs -> Rooms \cup {None}]]
        /\ \A st1 \in Streams, s1 \in Subs :
             subToRoom'[st1][s1] = IF st1 = st /\ s1 = s THEN r ELSE subToRoom[st1][s1]
    <3>1. subToRoom \in [Streams -> [Subs -> Rooms \cup {None}]]
      BY DEF TowerIInv, TowerTypeInv
    <3>2. subToRoom' = [subToRoom EXCEPT ![st][s] = r]
      BY <1>2, <1>8
    <3>3. QED
      BY <2>1, <3>1, <3>2
  <2>3. TowerTypeInv'
    BY Zenon, <1>2, <1>3, <2>1, <2>2 DEF TowerIInv, TowerTypeInv
  <2>4. Addressed'
    <3>1. FromWorker(c, w, usedIds', open')
      BY <1>1, <1>4 DEF FromWorker, w
    <3>2. \A w1 \in Workers, r1 \in Rooms :
            \/ toRoom'[w1][r1] = toRoom[w1][r1]
            \/ toRoom'[w1][r1] = Append(toRoom[w1][r1], c) /\ FromWorker(c, w1, usedIds', open')
      BY Zenon, <2>1, <3>1
    <3>3. open' \subseteq open
      BY <1>2
    <3>4. QED
      BY Zenon, <1>1, <1>4, <2>3, <3>2, <3>3, QueuesGrow
  <2>5. KnownInUse'
    BY <1>2, <1>4, <2>2 DEF TowerIInv, KnownInUse
  <2>6. \A st1 \in Streams, r1 \in Rooms :
          Queue(st1, r1)' = IF WorkerOf[st1] = w /\ r1 = r THEN Append(Queue(st1, r1), c) ELSE Queue(st1, r1)
    BY <2>1, StreamsAssumption DEF Queue
  <2>7. ASSUME NEW st1 \in Streams, NEW s1 \in Subs, NEW r1 \in Rooms
        PROVE  Agreed(Queue(st1, r1)', st1, s1, r1, subToRoom'[st1][s1], subscribers'[r1])
    <3>1. Agreed(Queue(st1, r1), st1, s1, r1, subToRoom[st1][s1], subscribers[r1])
      BY DEF TowerIInv, AllAgreed
    <3>2. Queue(st1, r1) \in Seq(Commands)
      BY QueueTypes, StreamsAssumption DEF Queue
    <3>3. CASE st1 = st /\ s1 = s /\ r1 = r
      <4>1. Adds(c, st, s)
        BY <1>1 DEF Adds
      <4>2. Agreed(Append(Queue(st, r), c), st, s, r, r, subscribers[r])
        BY Zenon, <1>1, <1>6, <2>1, <3>2, <3>3, <4>1, QueueAdd
      <4>3. QED
        BY Zenon, <1>2, <2>2, <2>6, <3>3, <4>2 DEF w
    <3>4. CASE st1 = st /\ s1 = s /\ r1 # r
      BY <1>2, <1>6, <2>2, <2>6, <3>1, <3>4, TopicsAssumption DEF Agreed
    <3>5. CASE ~ (st1 = st /\ s1 = s)
      <4>1. ~ Adds(c, st1, s1) /\ ~ Removes(c, st1, s1)
        BY <1>1, <3>5 DEF Adds, Removes
      <4>2. Agreed(Append(Queue(st1, r1), c), st1, s1, r1, subToRoom[st1][s1], subscribers[r1])
        BY Zenon, <1>1, <3>1, <3>2, <4>1, QueueOther
      <4>3. QED
        BY Zenon, <1>2, <2>2, <2>6, <3>1, <3>5, <4>2
    <3>6. QED
      BY <3>3, <3>4, <3>5
  <2>8. AllAgreed'
    BY <2>7 DEF AllAgreed
  <2>9. ASSUME NEW st1 \in Streams, NEW s1 \in Subs, Rejecting(st1, s1), Unserved(st1, s1)
        PROVE  Unserved(st1, s1)'
    <3>1. ~ Adds(c, st1, s1)
      BY <1>1, <1>6, <2>9 DEF Adds
    <3>2. QED
      BY <1>1, <1>2, <2>6, <2>9, <3>1, StaysUnserved
  <2>10. Answered'
    BY <1>2, <1>4, <2>9, SameAnswers
  <2>11. QED
    BY <1>5, <2>3, <2>4, <2>5, <2>8, <2>10 DEF TowerIInv
<1>9. QED
  BY <1>7, <1>8

LEMMA ProcessUnsubscribeKeeps ==
  ASSUME TowerIInv, NEW st \in Streams, NEW s \in Subs, ProcessUnsubscribe(st, s)
  PROVE  TowerIInv'
<1>0. PICK r \in Rooms : subToRoom[st][s] = r
  BY DEF ProcessUnsubscribe, TowerIInv, TowerTypeInv
<1> DEFINE w == WorkerOf[st]
           c == Cmd("unsubscribe", st, s, w)
<1>1. /\ w \in Workers /\ c \in Commands
      /\ c.type = "unsubscribe" /\ c.stream = st /\ c.sub = s /\ c.worker = w
  BY StreamsAssumption DEF Commands, Cmd
<1>2. /\ subToRoom[st][s] # None
      /\ UNCHANGED <<open, usedIds, subWorker, subscribers, toClient, finding, toWorker, fed, tails, got>>
      /\ toRoom' = [toRoom EXCEPT ![w][r] = Append(@, c)]
      /\ subToRoom' = [subToRoom EXCEPT ![st][s] = None]
  BY <1>0 DEF ProcessUnsubscribe, rooms
<1>3. s \in usedIds[st]
  BY <1>2 DEF TowerIInv, KnownInUse
<1>4. WorkerKnown' /\ ServedInUse'
  BY <1>2 DEF TowerIInv, WorkerKnown, ServedInUse
<1>5. /\ toRoom' \in [Workers -> [Rooms -> Seq(Commands)]]
      /\ \A w1 \in Workers, r1 \in Rooms :
           toRoom'[w1][r1] = IF w1 = w /\ r1 = r THEN Append(toRoom[w1][r1], c) ELSE toRoom[w1][r1]
  <2> HIDE DEF w, c
  <2>1. w \in Workers /\ c \in Commands
    BY <1>1
  <2>2. toRoom' = [toRoom EXCEPT ![w][r] = Append(@, c)]
    BY <1>2
  <2>3. QED
    BY Zenon, <2>1, <2>2, QueueOneCommand
<1>6. /\ subToRoom' \in [Streams -> [Subs -> Rooms \cup {None}]]
      /\ \A st1 \in Streams, s1 \in Subs :
           subToRoom'[st1][s1] = IF st1 = st /\ s1 = s THEN None ELSE subToRoom[st1][s1]
  <2>1. subToRoom \in [Streams -> [Subs -> Rooms \cup {None}]]
    BY DEF TowerIInv, TowerTypeInv
  <2>2. QED
    BY <1>2, <2>1
<1> HIDE DEF w, c
<1>8. TowerTypeInv'
  BY <1>2, <1>5, <1>6 DEF TowerIInv, TowerTypeInv
<1>9. Addressed'
  <2>1. FromWorker(c, w, usedIds', open')
    BY <1>1, <1>2, <1>3 DEF FromWorker, w
  <2>2. \A w1 \in Workers, r1 \in Rooms :
          \/ toRoom'[w1][r1] = toRoom[w1][r1]
          \/ toRoom'[w1][r1] = Append(toRoom[w1][r1], c) /\ FromWorker(c, w1, usedIds', open')
    BY Zenon, <1>5, <2>1
  <2>3. open' \subseteq open /\ \A st1 \in Streams : usedIds[st1] \subseteq usedIds'[st1]
    BY <1>2
  <2>4. QED
    BY <1>1, <1>8, <2>2, <2>3, QueuesGrow
<1>10. KnownInUse'
  BY <1>2, <1>6 DEF TowerIInv, KnownInUse
<1>11. \A st1 \in Streams, r1 \in Rooms :
         Queue(st1, r1)' = IF WorkerOf[st1] = w /\ r1 = r THEN Append(Queue(st1, r1), c) ELSE Queue(st1, r1)
  BY <1>5, StreamsAssumption DEF Queue
<1>12. ASSUME NEW st1 \in Streams, NEW s1 \in Subs, NEW r1 \in Rooms
       PROVE  Agreed(Queue(st1, r1)', st1, s1, r1, subToRoom'[st1][s1], subscribers'[r1])
  <2>1. Agreed(Queue(st1, r1), st1, s1, r1, subToRoom[st1][s1], subscribers[r1])
    BY DEF TowerIInv, AllAgreed
  <2>2. Queue(st1, r1) \in Seq(Commands)
    BY QueueTypes, StreamsAssumption DEF Queue
  <2>3. CASE st1 = st /\ s1 = s /\ r1 = r
    <3>1. Removes(c, st, s) /\ None # r
      BY <1>1, TopicsAssumption DEF Removes
    <3>2. Agreed(Append(Queue(st, r), c), st, s, r, None, subscribers[r])
      BY <1>1, <2>2, <2>3, <3>1, QueueRemove
    <3>3. QED
      BY Zenon, <1>2, <1>6, <1>11, <2>3, <3>2 DEF w
  <2>4. CASE st1 = st /\ s1 = s /\ r1 # r
    BY <1>2, <1>6, <1>0, <1>11, <2>1, <2>4, TopicsAssumption DEF Agreed
  <2>5. CASE ~ (st1 = st /\ s1 = s)
    <3>1. ~ Adds(c, st1, s1) /\ ~ Removes(c, st1, s1)
      BY <1>1, <2>5 DEF Adds, Removes
    <3>2. Agreed(Append(Queue(st1, r1), c), st1, s1, r1, subToRoom[st1][s1], subscribers[r1])
      BY <1>1, <2>1, <2>2, <3>1, QueueOther
    <3>3. QED
      BY Zenon, <1>2, <1>6, <1>11, <2>1, <2>5, <3>2
  <2>6. QED
    BY <2>3, <2>4, <2>5
<1>13. AllAgreed'
  BY <1>12 DEF AllAgreed
<1>14. ASSUME NEW st1 \in Streams, NEW s1 \in Subs, Rejecting(st1, s1), Unserved(st1, s1)
       PROVE  Unserved(st1, s1)'
  <2>1. ~ Adds(c, st1, s1)
    BY <1>1 DEF Adds
  <2>2. QED
    BY <1>1, <1>2, <1>11, <1>14, <2>1, StaysUnserved
<1>15. Answered'
  BY <1>2, <1>14, SameAnswers
<1>16. QED
  BY <1>4, <1>8, <1>9, <1>10, <1>13, <1>15 DEF TowerIInv

LEMMA ProcessGoodbyeKeeps ==
  ASSUME TowerIInv, NEW st \in Streams, ProcessGoodbye(st)
  PROVE  TowerIInv'
<1> DEFINE w == WorkerOf[st]
           c == Cmd("goodbye", st, None, None)
<1>1. /\ w \in Workers /\ c \in Commands
      /\ c.type = "goodbye" /\ c.stream = st /\ c.sub = None /\ c.worker = None
  BY StreamsAssumption DEF Commands, Cmd
<1>2. /\ UNCHANGED <<usedIds, subWorker, subscribers, toClient, finding, toWorker, fed, tails, got>>
      /\ open' = open \ {st}
      /\ toRoom' = [toRoom EXCEPT ![w] = [r \in Rooms |-> Append(@[r], c)]]
      /\ subToRoom' = [subToRoom EXCEPT ![st] = [s \in Subs |-> None]]
  BY Zenon DEF ProcessGoodbye, rooms, ToldOfGoodbye
<1> HIDE DEF w, c
<1>3. toRoom \in [Workers -> [Rooms -> Seq(Commands)]]
  BY DEF TowerIInv, TowerTypeInv
<1>4. /\ toRoom' \in [Workers -> [Rooms -> Seq(Commands)]]
      /\ \A w1 \in Workers, r1 \in Rooms :
           toRoom'[w1][r1] = IF w1 = w THEN Append(toRoom[w1][r1], c) ELSE toRoom[w1][r1]
  <2>1. \A r1 \in Rooms : Append(toRoom[w][r1], c) \in Seq(Commands)
    BY <1>1, <1>3
  <2>2. [r \in Rooms |-> Append(toRoom[w][r], c)] \in [Rooms -> Seq(Commands)]
    BY <2>1
  <2>3. toRoom' = [toRoom EXCEPT ![w] = [r \in Rooms |-> Append(toRoom[w][r], c)]]
    BY <1>1, <1>2, <1>3
  <2>4. QED
    BY <1>1, <1>3, <2>2, <2>3
<1>5. /\ subToRoom' \in [Streams -> [Subs -> Rooms \cup {None}]]
      /\ \A st1 \in Streams, s1 \in Subs :
           subToRoom'[st1][s1] = IF st1 = st THEN None ELSE subToRoom[st1][s1]
  BY <1>2 DEF TowerIInv, TowerTypeInv
<1>6. WorkerKnown' /\ ServedInUse'
  BY <1>2 DEF TowerIInv, WorkerKnown, ServedInUse
<1>7. TowerTypeInv'
  BY Zenon, <1>2, <1>4, <1>5 DEF TowerIInv, TowerTypeInv
<1>8. Addressed'
  <2>1. FromWorker(c, w, usedIds', open')
    BY <1>1, <1>2 DEF FromWorker, w
  <2>2. \A w1 \in Workers, r1 \in Rooms :
          \/ toRoom'[w1][r1] = toRoom[w1][r1]
          \/ toRoom'[w1][r1] = Append(toRoom[w1][r1], c) /\ FromWorker(c, w1, usedIds', open')
    BY Zenon, <1>4, <2>1
  <2>3. open' \subseteq open /\ \A st1 \in Streams : usedIds[st1] \subseteq usedIds'[st1]
    BY <1>2
  <2>4. QED
    BY Zenon, <1>1, <1>7, <2>2, <2>3, QueuesGrow
<1>9. KnownInUse'
  BY Zenon, <1>2, <1>5 DEF TowerIInv, KnownInUse
<1>10. \A st1 \in Streams, r1 \in Rooms :
         Queue(st1, r1)' = IF WorkerOf[st1] = w THEN Append(Queue(st1, r1), c) ELSE Queue(st1, r1)
  BY <1>4, StreamsAssumption DEF Queue
<1>11. ASSUME NEW st1 \in Streams, NEW s1 \in Subs, NEW r1 \in Rooms
       PROVE  Agreed(Queue(st1, r1)', st1, s1, r1, subToRoom'[st1][s1], subscribers'[r1])
  <2>1. Agreed(Queue(st1, r1), st1, s1, r1, subToRoom[st1][s1], subscribers[r1])
    BY DEF TowerIInv, AllAgreed
  <2>2. Queue(st1, r1) \in Seq(Commands)
    BY QueueTypes, StreamsAssumption DEF Queue
  <2>3. CASE st1 = st
    <3>1. Removes(c, st, s1) /\ None # r1
      BY <1>1, TopicsAssumption DEF Removes
    <3>2. Agreed(Append(Queue(st, r1), c), st, s1, r1, None, subscribers[r1])
      BY Zenon, <1>1, <2>2, <2>3, <3>1, QueueRemove
    <3>3. QED
      BY Zenon, <1>2, <1>5, <1>10, <2>3, <3>2 DEF w
  <2>4. CASE st1 # st
    <3>1. ~ Adds(c, st1, s1) /\ ~ Removes(c, st1, s1)
      BY Zenon, <1>1, <2>4 DEF Adds, Removes
    <3>2. Agreed(Append(Queue(st1, r1), c), st1, s1, r1, subToRoom[st1][s1], subscribers[r1])
      BY <1>1, <2>1, <2>2, <3>1, QueueOther
    <3>3. QED
      BY Zenon, <1>2, <1>5, <1>10, <2>1, <2>4, <3>2
  <2>5. QED
    BY <2>3, <2>4
<1>12. AllAgreed'
  BY <1>11 DEF AllAgreed
<1>13. ASSUME NEW st1 \in Streams, NEW s1 \in Subs, Rejecting(st1, s1), Unserved(st1, s1)
       PROVE  Unserved(st1, s1)'
  <2>1. ~ Adds(c, st1, s1)
    BY SMTT(20), <1>1 DEF Adds
  <2>2. QED
    BY <1>1, <1>2, <1>10, <1>13, <2>1, StaysUnserved
<1>14. Answered'
  BY Zenon, <1>2, <1>13, SameAnswers
<1>15. QED
  BY <1>6, <1>7, <1>8, <1>9, <1>12, <1>14 DEF TowerIInv

LEMMA ProcessFindTailSeqnoKeeps ==
  ASSUME TowerIInv, NEW st \in Streams, NEW t \in Topics, ProcessFindTailSeqno(st, t)
  PROVE  TowerIInv'
<1> DEFINE w == WorkerOf[st]
           r == RoomOf[t]
           c == Cmd("tail", st, None, w)
<1>1. /\ w \in Workers /\ c \in Commands /\ r \in Rooms \cup {NoLog}
      /\ c.type = "tail" /\ c.stream = st /\ c.worker = w
  BY StreamsAssumption, TopicsAssumption DEF Commands, Cmd
<1>2. /\ tails < MaxTails /\ tails' = tails + 1
      /\ UNCHANGED <<open, usedIds, subToRoom, subWorker, subscribers, toClient, finding, toWorker, fed, got>>
      /\ r = NoLog => UNCHANGED toRoom
      /\ r # NoLog => toRoom' = [toRoom EXCEPT ![w][r] = Append(@, c)]
  BY DEF ProcessFindTailSeqno, rooms
<1> HIDE DEF w, r, c
<1>3. tails' \in 0 .. MaxTails
  BY <1>2, FeedAssumption DEF TowerIInv, TowerTypeInv
<1>4. WorkerKnown' /\ ServedInUse' /\ KnownInUse'
  BY <1>2 DEF TowerIInv, WorkerKnown, ServedInUse, KnownInUse
<1>5. /\ toRoom' \in [Workers -> [Rooms -> Seq(Commands)]]
      /\ \A w1 \in Workers, r1 \in Rooms :
           toRoom'[w1][r1] = toRoom[w1][r1] \/ (w1 = w /\ toRoom'[w1][r1] = Append(toRoom[w1][r1], c))
  <2>1. CASE r = NoLog
    BY <1>2, <2>1 DEF TowerIInv, TowerTypeInv
  <2>2. CASE r # NoLog
    <3>0. w \in Workers /\ c \in Commands
      BY <1>1
    <3>1. r \in Rooms /\ toRoom' = [toRoom EXCEPT ![w][r] = Append(@, c)]
      BY <1>1, <1>2, <2>2
    <3>2. /\ toRoom' \in [Workers -> [Rooms -> Seq(Commands)]]
          /\ \A w1 \in Workers, r1 \in Rooms :
               toRoom'[w1][r1] = IF w1 = w /\ r1 = r THEN Append(toRoom[w1][r1], c) ELSE toRoom[w1][r1]
      BY Zenon, <3>0, <3>1, QueueOneCommand
    <3>3. QED
      BY Zenon, <3>2
  <2>3. QED
    BY <2>1, <2>2
<1>6. TowerTypeInv'
  BY Zenon, <1>2, <1>3, <1>5 DEF TowerIInv, TowerTypeInv
<1>7. Addressed'
  <2>1. FromWorker(c, w, usedIds', open')
    BY Zenon, <1>1 DEF FromWorker, w
  <2>2. \A w1 \in Workers, r1 \in Rooms :
          \/ toRoom'[w1][r1] = toRoom[w1][r1]
          \/ toRoom'[w1][r1] = Append(toRoom[w1][r1], c) /\ FromWorker(c, w1, usedIds', open')
    BY <1>5, <2>1
  <2>3. open' \subseteq open /\ \A st1 \in Streams : usedIds[st1] \subseteq usedIds'[st1]
    BY <1>2
  <2>4. QED
    BY <1>1, <1>6, <2>2, <2>3, QueuesGrow
<1>8. \A st1 \in Streams, r1 \in Rooms : Queue(st1, r1)' \in {Queue(st1, r1), Append(Queue(st1, r1), c)}
  BY <1>5, StreamsAssumption DEF Queue
<1>9. ASSUME NEW st1 \in Streams, NEW s1 \in Subs PROVE ~ Adds(c, st1, s1) /\ ~ Removes(c, st1, s1)
  BY <1>1 DEF Adds, Removes
<1>10. ASSUME NEW st1 \in Streams, NEW s1 \in Subs, NEW r1 \in Rooms
       PROVE  Agreed(Queue(st1, r1)', st1, s1, r1, subToRoom'[st1][s1], subscribers'[r1])
  <2>1. Agreed(Queue(st1, r1), st1, s1, r1, subToRoom[st1][s1], subscribers[r1])
    BY DEF TowerIInv, AllAgreed
  <2>2. Queue(st1, r1) \in Seq(Commands)
    BY QueueTypes, StreamsAssumption DEF Queue
  <2>3. Agreed(Append(Queue(st1, r1), c), st1, s1, r1, subToRoom[st1][s1], subscribers[r1])
    BY <1>1, <1>9, <2>1, <2>2, QueueOther
  <2>4. QED
    BY Zenon, <1>2, <1>8, <2>1, <2>3
<1>11. AllAgreed'
  BY <1>10 DEF AllAgreed
<1>12. ASSUME NEW st1 \in Streams, NEW s1 \in Subs, Rejecting(st1, s1), Unserved(st1, s1)
       PROVE  Unserved(st1, s1)'
  BY <1>1, <1>2, <1>8, <1>9, <1>12, StaysUnserved
<1>13. Answered'
  BY Zenon, <1>2, <1>12, SameAnswers
<1>14. QED
  BY <1>4, <1>6, <1>7, <1>11, <1>13 DEF TowerIInv

----------------------------------------------------------------------------
(* The steps of the rooms.                                                  *)

\* A room takes the first command of a queue and does to its subscribers what the
\* command says, and nothing else.
LEMMA ReceiveCommand ==
  ASSUME TowerIInv, NEW w \in Workers, NEW r \in Rooms, NEW c \in Commands,
         toRoom[w][r] # <<>>, c = Head(toRoom[w][r]),
         toRoom' = [toRoom EXCEPT ![w][r] = Tail(@)],
         UNCHANGED <<open, usedIds, subToRoom>>,
         \A r1 \in Rooms : r1 # r => subscribers'[r1] = subscribers[r1],
         \A st \in Streams, s \in Subs :
           /\ Adds(c, st, s) => <<st, s>> \in subscribers'[r]
           /\ Removes(c, st, s) => <<st, s>> \notin subscribers'[r]
           /\ ~ Adds(c, st, s) /\ ~ Removes(c, st, s) =>
                (<<st, s>> \in subscribers'[r] <=> <<st, s>> \in subscribers[r])
  PROVE  /\ toRoom' \in [Workers -> [Rooms -> Seq(Commands)]]
         /\ Addressed' /\ AllAgreed' /\ KnownInUse' /\ ServedInUse'
         /\ \A st \in Streams, s \in Subs : Unserved(st, s) => Unserved(st, s)'
<1>1. toRoom \in [Workers -> [Rooms -> Seq(Commands)]] /\ toRoom[w][r] \in Seq(Commands)
  BY Zenon DEF TowerIInv, TowerTypeInv
<1>2. /\ toRoom' \in [Workers -> [Rooms -> Seq(Commands)]]
      /\ \A w1 \in Workers, r1 \in Rooms :
           toRoom'[w1][r1] = IF w1 = w /\ r1 = r THEN Tail(toRoom[w1][r1]) ELSE toRoom[w1][r1]
  <2>1. toRoom[w] \in [Rooms -> Seq(Commands)] /\ Tail(toRoom[w][r]) \in Seq(Commands)
    BY <1>1
  <2>2. QED
    BY Zenon, <1>1, <2>1
<1>3. /\ 1 \in 1 .. Len(toRoom[w][r]) /\ toRoom[w][r][1] = c
  BY <1>1
<1>4. FromWorker(c, w, usedIds, open) /\ c.stream \in Streams
  BY Zenon, <1>3, QueueTypes DEF TowerIInv, Addressed
<1>5. Addressed'
  <2>1. ASSUME NEW w1 \in Workers, NEW r1 \in Rooms, NEW i \in 1 .. Len(toRoom'[w1][r1])
        PROVE  FromWorker(toRoom'[w1][r1][i], w1, usedIds', open')
    <3>1. \E j \in 1 .. Len(toRoom[w1][r1]) : toRoom'[w1][r1][i] = toRoom[w1][r1][j]
      <4>1. CASE w1 = w /\ r1 = r
        <5>1. toRoom'[w][r] = Tail(toRoom[w][r])
          BY Zenon, <1>2
        <5>2. i + 1 \in 1 .. Len(toRoom[w][r]) /\ toRoom'[w][r][i] = toRoom[w][r][i + 1]
          BY SMTT(30), <1>1, <4>1, <5>1
        <5>3. QED
          BY Zenon, <4>1, <5>2
      <4>2. CASE ~ (w1 = w /\ r1 = r)
        BY Zenon, <1>2, <4>2
      <4>3. QED
        BY Zenon, <4>1, <4>2
    <3>2. QED
      BY Zenon, <3>1 DEF TowerIInv, Addressed
  <2>2. QED
    BY Zenon, <2>1 DEF Addressed
<1>6. \A st \in Streams, r1 \in Rooms :
        Queue(st, r1)' = IF WorkerOf[st] = w /\ r1 = r THEN Tail(Queue(st, r1)) ELSE Queue(st, r1)
  BY Zenon, <1>2, StreamsAssumption DEF Queue
<1>7. ASSUME NEW st \in Streams, NEW s \in Subs, WorkerOf[st] # w
      PROVE  ~ Adds(c, st, s) /\ ~ Removes(c, st, s)
  BY Zenon, <1>4, <1>7 DEF Adds, Removes, FromWorker
<1>8. ASSUME NEW st \in Streams, NEW s \in Subs, NEW r1 \in Rooms
      PROVE  Agreed(Queue(st, r1)', st, s, r1, subToRoom'[st][s], subscribers'[r1])
  <2>1. Agreed(Queue(st, r1), st, s, r1, subToRoom[st][s], subscribers[r1])
    BY Zenon DEF TowerIInv, AllAgreed
  <2>2. CASE r1 = r /\ WorkerOf[st] = w
    <3>1. Queue(st, r1) \in Seq(Commands) /\ Queue(st, r1) # <<>> /\ Head(Queue(st, r1)) = c
      BY Zenon, <1>1, <2>2 DEF Queue
    <3>2. Agreed(Tail(Queue(st, r1)), st, s, r1, subToRoom[st][s], subscribers'[r1])
      BY Zenon, <2>1, <2>2, <3>1, QueueReceive
    <3>3. QED
      BY Zenon, <1>6, <2>2, <3>2
  <2>3. CASE ~ (r1 = r /\ WorkerOf[st] = w)
    <3>1. <<st, s>> \in subscribers'[r1] <=> <<st, s>> \in subscribers[r1]
      BY Zenon, <1>7, <2>3
    <3>2. Queue(st, r1)' = Queue(st, r1)
      BY <1>6, <2>3
    <3>3. QED
      BY <2>1, <3>1, <3>2 DEF Agreed
  <2>4. QED
    BY <2>2, <2>3
<1>9. AllAgreed'
  BY <1>8 DEF AllAgreed
<1>10. KnownInUse'
  BY DEF TowerIInv, KnownInUse
<1>11. ServedInUse'
  <2>1. ASSUME NEW r1 \in Rooms, NEW st \in Streams, NEW s \in Subs, <<st, s>> \in subscribers'[r1]
        PROVE  s \in usedIds[st]
    <3>1. CASE r1 = r /\ Adds(c, st, s)
      BY <1>4, <3>1 DEF Adds, FromWorker
    <3>2. CASE ~ (r1 = r /\ Adds(c, st, s))
      <4>1. <<st, s>> \in subscribers[r1]
        BY <2>1, <3>2
      <4>2. QED
        BY <4>1 DEF TowerIInv, ServedInUse
    <3>3. QED
      BY Zenon, <3>1, <3>2
  <2>2. QED
    BY <2>1 DEF ServedInUse
<1>12. ASSUME NEW st \in Streams, NEW s \in Subs, Unserved(st, s)
       PROVE  Unserved(st, s)'
  <2>1. ~ Adds(c, st, s)
    BY <1>3, <1>7, <1>12 DEF Unserved, Queue
  <2>2. ASSUME NEW r1 \in Rooms
        PROVE  /\ <<st, s>> \notin subscribers'[r1]
               /\ \A i \in 1 .. Len(Queue(st, r1)') : ~ Adds(Queue(st, r1)'[i], st, s)
    <3>1. <<st, s>> \notin subscribers'[r1]
      BY Zenon, <1>12, <2>1 DEF Unserved
    <3>2. CASE WorkerOf[st] = w /\ r1 = r
      <4>1. Queue(st, r1) \in Seq(Commands) /\ Queue(st, r1) # <<>> /\ Queue(st, r1)' = Tail(Queue(st, r1))
        BY <1>1, <1>6, <3>2 DEF Queue
      <4>2. ASSUME NEW i \in 1 .. Len(Queue(st, r1)')
            PROVE  i + 1 \in 1 .. Len(Queue(st, r1)) /\ Queue(st, r1)'[i] = Queue(st, r1)[i + 1]
        BY <4>1
      <4>3. QED
        BY <1>12, <3>1, <4>2 DEF Unserved
    <3>3. CASE ~ (WorkerOf[st] = w /\ r1 = r)
      BY <1>6, <1>12, <3>1, <3>3 DEF Unserved
    <3>4. QED
      BY <3>2, <3>3
  <2>3. QED
    BY Zenon, <2>2 DEF Unserved
<1>13. QED
  BY Zenon, <1>2, <1>5, <1>9, <1>10, <1>11, <1>12

\* sub_worker_ follows the subscribers of the topic tailer.
LEMMA RoomTablesKeep ==
  ASSUME TowerIInv, NEW w \in Workers, NEW r \in Rooms, NEW c \in Commands,
         FromWorker(c, w, usedIds, open), c.type # "tail", RoomCommand(r, c)
  PROVE  /\ WorkerKnown'
         /\ subWorker' \in [Rooms -> [Streams -> [Subs -> Workers \cup {None}]]]
         /\ subscribers' \in [Rooms -> SUBSET (Streams \X Subs)]
         /\ UNCHANGED <<finding, toWorker>>
         /\ \A r1 \in Rooms : r1 # r => subscribers'[r1] = subscribers[r1]
         /\ \A st \in Streams, s \in Subs :
              /\ Adds(c, st, s) => <<st, s>> \in subscribers'[r]
              /\ Removes(c, st, s) => <<st, s>> \notin subscribers'[r]
              /\ ~ Adds(c, st, s) /\ ~ Removes(c, st, s) =>
                   (<<st, s>> \in subscribers'[r] <=> <<st, s>> \in subscribers[r])
<1> DEFINE st == c.stream
           s == c.sub
<1>1. /\ st \in Streams /\ WorkerOf[st] = w /\ s \in Subs \cup {None} /\ None \notin Workers
      /\ c.type \in {"subscribe", "unsubscribe", "goodbye"}
  BY StreamsAssumption DEF Commands, FromWorker
<1>2. /\ subWorker \in [Rooms -> [Streams -> [Subs -> Workers \cup {None}]]]
      /\ subscribers \in [Rooms -> SUBSET (Streams \X Subs)]
      /\ WorkerKnown
  BY DEF TowerIInv, TowerTypeInv
<1>3. c.type \in {"subscribe", "unsubscribe"} => s \in Subs /\ c.worker = w
  BY <1>1 DEF FromWorker, TowerIInv, TowerTypeInv
<1>4. /\ c.type = "subscribe" =>
           /\ subWorker' = [subWorker EXCEPT ![r][st][s] = IF @ = None THEN c.worker ELSE @]
           /\ subscribers' = [subscribers EXCEPT ![r] = @ \cup {<<st, s>>}]
      /\ c.type = "unsubscribe" =>
           /\ subWorker' = [subWorker EXCEPT ![r][st][s] = None]
           /\ subscribers' = [subscribers EXCEPT ![r] = @ \ {<<st, s>>}]
      /\ c.type = "goodbye" =>
           /\ subWorker' = [subWorker EXCEPT ![r][st] = [s1 \in Subs |-> None]]
           /\ subscribers' = [subscribers EXCEPT ![r] = {x \in @ : x[1] # st}]
      /\ UNCHANGED <<finding, toWorker>>
  BY Zenon, <1>1, <1>2 DEF RoomCommand, WorkerAfterSubscribe, TailerAfterGoodbye
<1> HIDE DEF st, s
<1>5. CASE c.type = "subscribe"
  <2>1. /\ subscribers' \in [Rooms -> SUBSET (Streams \X Subs)]
        /\ \A r1 \in Rooms : subscribers'[r1] = IF r1 = r THEN subscribers[r] \cup {<<st, s>>} ELSE subscribers[r1]
    <3>1. subscribers' = [subscribers EXCEPT ![r] = @ \cup {<<st, s>>}] /\ s \in Subs
      BY <1>3, <1>4, <1>5
    <3>2. QED
      BY <1>1, <1>2, <3>1
  <2>2. subWorker' = [subWorker EXCEPT ![r][st][s] = w]
    <3>1. subWorker[r][st][s] \in {None, w}
      BY Zenon, <1>1, <1>2, <1>3, <1>5 DEF WorkerKnown
    <3>2. subWorker' = [subWorker EXCEPT ![r][st][s] = IF @ = None THEN w ELSE @]
      BY <1>3, <1>4, <1>5
    <3>3. subWorker' = [subWorker EXCEPT ![r][st][s] = IF subWorker[r][st][s] = None THEN w ELSE subWorker[r][st][s]]
      BY <1>1, <1>2, <1>3, <1>5, <3>2
    <3>4. QED
      BY Zenon, <3>1, <3>3
  <2>3. subWorker' \in [Rooms -> [Streams -> [Subs -> Workers \cup {None}]]]
    BY <1>1, <1>2, <1>3, <1>5, <2>2
  <2>4. \A r1 \in Rooms, st1 \in Streams, s1 \in Subs :
          subWorker'[r1][st1][s1] = IF r1 = r /\ st1 = st /\ s1 = s THEN w ELSE subWorker[r1][st1][s1]
    BY <1>1, <1>2, <1>3, <1>5, <2>2
  <2>5. WorkerKnown'
    <3>1. ASSUME NEW r1 \in Rooms, NEW st1 \in Streams, NEW s1 \in Subs
          PROVE  subWorker'[r1][st1][s1] = IF <<st1, s1>> \in subscribers'[r1] THEN WorkerOf[st1] ELSE None
      <4>1. <<st1, s1>> \in subscribers'[r1] <=> <<st1, s1>> \in subscribers[r1] \/ (r1 = r /\ st1 = st /\ s1 = s)
        BY <2>1
      <4>2. subWorker[r1][st1][s1] = IF <<st1, s1>> \in subscribers[r1] THEN WorkerOf[st1] ELSE None
        BY Zenon, <1>2 DEF WorkerKnown
      <4>3. QED
        BY Zenon, <1>1, <2>4, <4>1, <4>2
    <3>2. QED
      BY Zenon, <3>1 DEF WorkerKnown
  <2>6. QED
    BY Zenon, <1>4, <1>5, <2>1, <2>3, <2>5 DEF Adds, Removes, st, s
<1>6. CASE c.type = "unsubscribe"
  <2>0. subWorker' = [subWorker EXCEPT ![r][st][s] = None] /\ s \in Subs
    BY <1>3, <1>4, <1>6
  <2>1. /\ subscribers' \in [Rooms -> SUBSET (Streams \X Subs)]
        /\ \A r1 \in Rooms : subscribers'[r1] = IF r1 = r THEN subscribers[r] \ {<<st, s>>} ELSE subscribers[r1]
    <3>1. subscribers' = [subscribers EXCEPT ![r] = @ \ {<<st, s>>}]
      BY Zenon, <1>4, <1>6
    <3>2. QED
      BY <1>2, <3>1
  <2>3. subWorker' \in [Rooms -> [Streams -> [Subs -> Workers \cup {None}]]]
    BY Zenon, <1>1, <1>2, <2>0
  <2>4. \A r1 \in Rooms, st1 \in Streams, s1 \in Subs :
          subWorker'[r1][st1][s1] = IF r1 = r /\ st1 = st /\ s1 = s THEN None ELSE subWorker[r1][st1][s1]
    BY SMTT(30), <1>1, <1>2, <2>0
  <2>5. WorkerKnown'
    <3>1. ASSUME NEW r1 \in Rooms, NEW st1 \in Streams, NEW s1 \in Subs
          PROVE  subWorker'[r1][st1][s1] = IF <<st1, s1>> \in subscribers'[r1] THEN WorkerOf[st1] ELSE None
      <4>1. <<st1, s1>> \in subscribers'[r1] <=> <<st1, s1>> \in subscribers[r1] /\ ~ (r1 = r /\ st1 = st /\ s1 = s)
        BY Zenon, <2>1
      <4>2. subWorker[r1][st1][s1] = IF <<st1, s1>> \in subscribers[r1] THEN WorkerOf[st1] ELSE None
        BY <1>2 DEF WorkerKnown
      <4>3. QED
        BY <1>1, <2>4, <4>1, <4>2
    <3>2. QED
      BY Zenon, <3>1 DEF WorkerKnown
  <2>6. QED
    BY <1>4, <1>6, <2>1, <2>3, <2>5 DEF Adds, Removes, st, s
<1>7. CASE c.type = "goodbye"
  <2>0. subWorker' = [subWorker EXCEPT ![r][st] = [s1 \in Subs |-> None]]
    BY <1>4, <1>7
  <2>1. /\ subscribers' \in [Rooms -> SUBSET (Streams \X Subs)]
        /\ \A r1 \in Rooms : subscribers'[r1] = IF r1 = r THEN {x \in subscribers[r] : x[1] # st} ELSE subscribers[r1]
    <3>1. subscribers' = [subscribers EXCEPT ![r] = {x \in subscribers[r] : x[1] # st}]
      BY Zenon, <1>2, <1>4, <1>7
    <3>2. QED
      BY <1>2, <3>1
  <2>2. \A st1 \in Streams, s1 \in Subs :
          <<st1, s1>> \in subscribers'[r] <=> <<st1, s1>> \in subscribers[r] /\ st1 # st
    BY <2>1
  <2>3. subWorker' \in [Rooms -> [Streams -> [Subs -> Workers \cup {None}]]]
    BY Zenon, <1>1, <1>2, <2>0
  <2>4. \A r1 \in Rooms, st1 \in Streams, s1 \in Subs :
          subWorker'[r1][st1][s1] = IF r1 = r /\ st1 = st THEN None ELSE subWorker[r1][st1][s1]
    BY Zenon, <1>1, <1>2, <2>0
  <2>5. WorkerKnown'
    <3>1. ASSUME NEW r1 \in Rooms, NEW st1 \in Streams, NEW s1 \in Subs
          PROVE  subWorker'[r1][st1][s1] = IF <<st1, s1>> \in subscribers'[r1] THEN WorkerOf[st1] ELSE None
      <4>1. <<st1, s1>> \in subscribers'[r1] <=> <<st1, s1>> \in subscribers[r1] /\ ~ (r1 = r /\ st1 = st)
        BY Zenon, <2>1, <2>2
      <4>2. subWorker[r1][st1][s1] = IF <<st1, s1>> \in subscribers[r1] THEN WorkerOf[st1] ELSE None
        BY <1>2 DEF WorkerKnown
      <4>3. QED
        BY <1>1, <2>4, <4>1, <4>2
    <3>2. QED
      BY Zenon, <3>1 DEF WorkerKnown
  <2>6. QED
    BY <1>4, <1>7, <2>1, <2>2, <2>3, <2>5 DEF Adds, Removes, st
<1>8. QED
  BY Zenon, <1>1, <1>5, <1>6, <1>7

\* Copilots are told, or are about to be told, no more than before.
LEMMA NoNewAnswers ==
  ASSUME TowerIInv, usedIds' = usedIds,
         \A st \in Streams, s \in Subs : Delivering(st, s)' => Delivering(st, s),
         \A st \in Streams, s \in Subs : Rejecting(st, s)' => Rejecting(st, s),
         \A st \in Streams, s \in Subs : Unserved(st, s) => Unserved(st, s)'
  PROVE  Answered'
<1>1. ASSUME NEW st \in Streams, NEW s \in Subs
      PROVE  /\ Delivering(st, s)' => s \in usedIds'[st]
             /\ Rejecting(st, s)' => s \in usedIds'[st] /\ ~ Delivering(st, s)' /\ Unserved(st, s)'
  BY DEF TowerIInv, Answered
<1>2. QED
  BY Zenon, <1>1 DEF Answered

\* An answer about the tail of a log is queued for a worker.
LEMMA AnswerTail ==
  ASSUME TowerIInv, NEW w \in Workers, NEW st \in Streams, UNCHANGED got,
         toWorker' = [toWorker EXCEPT ![w] = Append(@, [stream |-> st, about |-> <<"tail", None>>])]
  PROVE  /\ toWorker' \in [Workers -> Seq(Answers)]
         /\ \A st1 \in Streams, s1 \in Subs : Rejecting(st1, s1)' => Rejecting(st1, s1)
<1> DEFINE m == [stream |-> st, about |-> <<"tail", None>>]
<1>1. toWorker \in [Workers -> Seq(Answers)] /\ m \in Answers /\ toWorker' = [toWorker EXCEPT ![w] = Append(@, m)]
  BY Zenon DEF TowerIInv, TowerTypeInv, Answers
<1>2. \A st1 \in Streams, s1 \in Subs : m # [stream |-> st1, about |-> <<"invalid", s1>>]
  OBVIOUS
<1> HIDE DEF m
<1>3. /\ toWorker' \in [Workers -> Seq(Answers)]
      /\ \A w1 \in Workers : toWorker'[w1] = IF w1 = w THEN Append(toWorker[w1], m) ELSE toWorker[w1]
  <2>1. Append(toWorker[w], m) \in Seq(Answers)
    BY <1>1
  <2>2. QED
    BY Zenon, <1>1, <2>1
<1>4. ASSUME NEW st1 \in Streams, NEW s1 \in Subs, NEW w1 \in Workers, NEW i \in 1 .. Len(toWorker'[w1]),
             toWorker'[w1][i] = [stream |-> st1, about |-> <<"invalid", s1>>]
      PROVE  \E j \in 1 .. Len(toWorker[w1]) : toWorker[w1][j] = [stream |-> st1, about |-> <<"invalid", s1>>]
  <2>1. toWorker[w1] \in Seq(Answers)
    BY <1>1
  <2>2. toWorker'[w1] = IF w1 = w THEN Append(toWorker[w1], m) ELSE toWorker[w1]
    BY Zenon, <1>3
  <2>3. (i \in 1 .. Len(toWorker[w1]) /\ toWorker'[w1][i] = toWorker[w1][i]) \/ toWorker'[w1][i] = m
    BY <1>1, <2>1, <2>2
  <2>4. QED
    BY <1>2, <1>4, <2>3
<1>5. ASSUME NEW st1 \in Streams, NEW s1 \in Subs, Rejecting(st1, s1)' PROVE Rejecting(st1, s1)
  BY Zenon, <1>4, <1>5 DEF Rejecting
<1>6. QED
  BY <1>3, <1>5

LEMMA RoomReceiveKeeps ==
  ASSUME TowerIInv, NEW w \in Workers, NEW r \in Rooms, RoomReceive(w, r)
  PROVE  TowerIInv'
<1>1. toRoom[w][r] \in Seq(Commands) /\ toRoom[w][r] # <<>>
  BY QueueTypes DEF RoomReceive
<1>2. PICK c \in Commands : c = Head(toRoom[w][r])
  BY <1>1
<1>3. /\ RoomCommand(r, c)
      /\ toRoom' = [toRoom EXCEPT ![w][r] = Tail(@)]
      /\ UNCHANGED <<open, usedIds, subToRoom, toClient, fed, tails, got>>
  BY Zenon, <1>2 DEF RoomReceive
<1>4. FromWorker(c, w, usedIds, open) /\ c.stream \in Streams
  <2>1. 1 \in 1 .. Len(toRoom[w][r]) /\ toRoom[w][r][1] = c
    BY SMTT(30), <1>1, <1>2
  <2>2. QED
    BY <2>1, QueueTypes DEF TowerIInv, Addressed
<1>5. CASE c.type # "tail"
  <2>1. /\ WorkerKnown'
        /\ subWorker' \in [Rooms -> [Streams -> [Subs -> Workers \cup {None}]]]
        /\ subscribers' \in [Rooms -> SUBSET (Streams \X Subs)]
        /\ UNCHANGED <<finding, toWorker>>
        /\ \A r1 \in Rooms : r1 # r => subscribers'[r1] = subscribers[r1]
        /\ \A st \in Streams, s \in Subs :
             /\ Adds(c, st, s) => <<st, s>> \in subscribers'[r]
             /\ Removes(c, st, s) => <<st, s>> \notin subscribers'[r]
             /\ ~ Adds(c, st, s) /\ ~ Removes(c, st, s) =>
                  (<<st, s>> \in subscribers'[r] <=> <<st, s>> \in subscribers[r])
    BY Zenon, <1>3, <1>4, <1>5, RoomTablesKeep
  <2>2. /\ toRoom' \in [Workers -> [Rooms -> Seq(Commands)]]
        /\ Addressed' /\ AllAgreed' /\ KnownInUse' /\ ServedInUse'
        /\ \A st \in Streams, s \in Subs : Unserved(st, s) => Unserved(st, s)'
    BY Zenon, <1>1, <1>2, <1>3, <2>1, ReceiveCommand
  <2>3. TowerTypeInv'
    BY Zenon, <1>3, <2>1, <2>2 DEF TowerIInv, TowerTypeInv
  <2>4. Answered'
    <3>1. UNCHANGED <<toClient, toWorker, got>> /\ \A st \in Streams : usedIds[st] \subseteq usedIds'[st]
      BY <1>3, <2>1
    <3>2. QED
      BY Zenon, <2>2, <3>1, SameAnswers
  <2>5. QED
    BY Zenon, <2>1, <2>2, <2>3, <2>4 DEF TowerIInv
<1>6. CASE c.type = "tail"
  <2>1. /\ UNCHANGED <<subWorker, subscribers>> /\ c.worker = w
        /\ \/ /\ toWorker' = [toWorker EXCEPT ![w] = Append(@, [stream |-> c.stream, about |-> <<"tail", None>>])]
              /\ UNCHANGED finding
           \/ finding' = finding \cup {<<c.stream, w>>} /\ UNCHANGED toWorker
           \/ UNCHANGED <<finding, toWorker>>
    BY <1>3, <1>4, <1>6 DEF RoomCommand, FromWorker, rooms
  <2>2. \A st \in Streams, s \in Subs : ~ Adds(c, st, s) /\ ~ Removes(c, st, s)
    BY SMTT(20), <1>6 DEF Adds, Removes
  <2>3. /\ toRoom' \in [Workers -> [Rooms -> Seq(Commands)]]
        /\ Addressed' /\ AllAgreed' /\ KnownInUse' /\ ServedInUse'
        /\ \A st \in Streams, s \in Subs : Unserved(st, s) => Unserved(st, s)'
    BY Zenon, <1>1, <1>2, <1>3, <2>1, <2>2, ReceiveCommand
  <2>4. WorkerKnown'
    BY Zenon, <2>1 DEF TowerIInv, WorkerKnown
  <2>5. /\ toWorker' \in [Workers -> Seq(Answers)]
        /\ \A st \in Streams, s \in Subs : Rejecting(st, s)' => Rejecting(st, s)
    <3>1. CASE toWorker' = [toWorker EXCEPT ![w] = Append(@, [stream |-> c.stream, about |-> <<"tail", None>>])]
      BY Zenon, <1>3, <1>4, <3>1, AnswerTail
    <3>2. CASE UNCHANGED toWorker
      <4>1. ASSUME NEW st \in Streams, NEW s \in Subs PROVE Rejecting(st, s)' => Rejecting(st, s)
        BY <1>3, <3>2 DEF Rejecting
      <4>2. QED
        BY <3>2, <4>1 DEF TowerIInv, TowerTypeInv
    <3>3. QED
      BY <2>1, <3>1, <3>2
  <2>6. finding' \subseteq Streams \X Workers
    BY <1>4, <2>1 DEF TowerIInv, TowerTypeInv
  <2>7. TowerTypeInv'
    BY <1>3, <2>1, <2>3, <2>5, <2>6 DEF TowerIInv, TowerTypeInv
  <2>8. Answered'
    <3>1. ASSUME NEW st \in Streams, NEW s \in Subs PROVE Delivering(st, s)' => Delivering(st, s)
      BY <1>3 DEF Delivering
    <3>2. QED
      BY <1>3, <2>3, <2>5, <3>1, NoNewAnswers
  <2>9. QED
    BY <2>3, <2>4, <2>7, <2>8 DEF TowerIInv
<1>7. QED
  BY <1>5, <1>6

LEMMA FoundLatestSeqnoKeeps ==
  ASSUME TowerIInv, NEW x \in finding, FoundLatestSeqno(x)
  PROVE  TowerIInv'
<1>1. /\ finding' = finding \ {x}
      /\ UNCHANGED <<open, usedIds, subToRoom, toRoom, subWorker, subscribers, toClient, fed, tails, got>>
      /\ \/ toWorker' = [toWorker EXCEPT ![x[2]] = Append(@, [stream |-> x[1], about |-> <<"tail", None>>])]
         \/ UNCHANGED toWorker
  BY DEF FoundLatestSeqno, rooms
<1>2. x[1] \in Streams /\ x[2] \in Workers
  BY DEF TowerIInv, TowerTypeInv
<1>3. /\ toWorker' \in [Workers -> Seq(Answers)]
      /\ \A st \in Streams, s \in Subs : Rejecting(st, s)' => Rejecting(st, s)
  <2>1. CASE toWorker' = [toWorker EXCEPT ![x[2]] = Append(@, [stream |-> x[1], about |-> <<"tail", None>>])]
    BY Zenon, <1>1, <1>2, <2>1, AnswerTail
  <2>2. CASE UNCHANGED toWorker
    <3>1. ASSUME NEW st \in Streams, NEW s \in Subs PROVE Rejecting(st, s)' => Rejecting(st, s)
      BY Zenon, <1>1, <2>2 DEF Rejecting
    <3>2. QED
      BY <2>2, <3>1 DEF TowerIInv, TowerTypeInv
  <2>3. QED
    BY <1>1, <2>1, <2>2
<1>4. TowerTypeInv'
  BY <1>1, <1>3 DEF TowerIInv, TowerTypeInv
<1>5. WorkerKnown' /\ Addressed' /\ AllAgreed' /\ KnownInUse' /\ ServedInUse'
  BY Zenon, <1>1 DEF TowerIInv, WorkerKnown, Addressed, AllAgreed, Queue, KnownInUse, ServedInUse
<1>6. ASSUME NEW st \in Streams, NEW s \in Subs
      PROVE  (Delivering(st, s)' => Delivering(st, s)) /\ (Unserved(st, s) => Unserved(st, s)')
  BY Zenon, <1>1 DEF Delivering, Unserved, Queue
<1>7. Answered'
  BY <1>1, <1>3, <1>6, NoNewAnswers
<1>8. QED
  BY <1>4, <1>5, <1>7 DEF TowerIInv

LEMMA OnTailerMessageKeeps ==
  ASSUME TowerIInv, NEW r \in Rooms, NEW recipients \in SUBSET subscribers[r], OnTailerMessage(r, recipients)
  PROVE  TowerIInv'
<1> DEFINE Served(w) == {x \in recipients : CopilotWorker(r, x) = w}
           After(w) == IF Served(w) = {} THEN toClient[r][w] ELSE Append(toClient[r][w], Served(w))
<1>1. toClient \in [Rooms -> [Workers -> Seq(Deliveries)]]
  BY Zenon DEF TowerIInv, TowerTypeInv
<1>2. /\ fed < MaxFeed /\ fed' = fed + 1
      /\ UNCHANGED <<open, usedIds, subToRoom, toRoom, subWorker, subscribers, finding, toWorker, tails, got>>
      /\ toClient' = [toClient EXCEPT ![r] = [w \in Workers |-> After(w)]]
  BY <1>1 DEF OnTailerMessage, rooms
<1>3. \A w \in Workers : Served(w) \in Deliveries /\ Served(w) \subseteq recipients
  BY Zenon DEF TowerIInv, TowerTypeInv, Deliveries
<1> HIDE DEF Served
<1>4. ASSUME NEW w \in Workers PROVE After(w) \in Seq(Deliveries)
  <2>1. toClient[r][w] \in Seq(Deliveries)
    BY <1>1
  <2>2. Append(toClient[r][w], Served(w)) \in Seq(Deliveries)
    BY <1>3, <2>1
  <2>3. QED
    BY Zenon, <2>1, <2>2
<1> HIDE DEF After
<1>5. /\ toClient' \in [Rooms -> [Workers -> Seq(Deliveries)]]
      /\ \A r1 \in Rooms, w \in Workers : toClient'[r1][w] = IF r1 = r THEN After(w) ELSE toClient[r1][w]
  BY Zenon, <1>1, <1>2, <1>4
<1>6. TowerTypeInv'
  <2>1. fed' \in 0 .. MaxFeed
    BY <1>2, FeedAssumption DEF TowerIInv, TowerTypeInv
  <2>2. QED
    BY <1>2, <1>5, <2>1 DEF TowerIInv, TowerTypeInv
<1>7. WorkerKnown' /\ Addressed' /\ AllAgreed' /\ KnownInUse' /\ ServedInUse'
  BY Zenon, <1>2 DEF TowerIInv, WorkerKnown, Addressed, AllAgreed, Queue, KnownInUse, ServedInUse
<1>8. ASSUME NEW st \in Streams, NEW s \in Subs, Delivering(st, s)'
      PROVE  Delivering(st, s) \/ <<st, s>> \in subscribers[r]
  <2>1. CASE <<"deliver", s>> \in got[st]
    BY <2>1 DEF Delivering
  <2>2. CASE \E r1 \in Rooms, w \in Workers : \E i \in 1 .. Len(toClient'[r1][w]) :
               <<st, s>> \in toClient'[r1][w][i]
    <3>1. PICK r1 \in Rooms, w \in Workers : \E i \in 1 .. Len(toClient'[r1][w]) :
                 <<st, s>> \in toClient'[r1][w][i]
      BY <2>2
    <3>2. PICK i \in 1 .. Len(toClient'[r1][w]) : <<st, s>> \in toClient'[r1][w][i]
      BY <3>1
    <3>3. toClient[r1][w] \in Seq(Deliveries)
      BY <1>1
    <3>4. toClient'[r1][w] = toClient[r1][w] \/ toClient'[r1][w] = Append(toClient[r1][w], Served(w))
      BY Zenon, <1>5 DEF After
    <3>5. \/ i \in 1 .. Len(toClient[r1][w]) /\ toClient'[r1][w][i] = toClient[r1][w][i]
          \/ toClient'[r1][w][i] = Served(w)
      BY <3>3, <3>4
    <3>6. QED
      BY Zenon, <1>3, <3>2, <3>5 DEF Delivering
  <2>3. QED
    BY Zenon, <1>2, <1>8, <2>1, <2>2 DEF Delivering
<1>9. ASSUME NEW st \in Streams, NEW s \in Subs
      PROVE  (Rejecting(st, s)' <=> Rejecting(st, s)) /\ (Unserved(st, s) <=> Unserved(st, s)')
  BY <1>2 DEF Rejecting, Unserved, Queue
<1>10. ASSUME NEW st \in Streams, NEW s \in Subs
       PROVE  /\ Delivering(st, s)' => s \in usedIds'[st]
              /\ Rejecting(st, s)' => s \in usedIds'[st] /\ ~ Delivering(st, s)' /\ Unserved(st, s)'
  <2>1. /\ <<st, s>> \in subscribers[r] => s \in usedIds[st] /\ ~ Unserved(st, s)
    BY DEF TowerIInv, ServedInUse, Unserved
  <2>2. /\ Delivering(st, s) => s \in usedIds[st]
        /\ Rejecting(st, s) => s \in usedIds[st] /\ ~ Delivering(st, s) /\ Unserved(st, s)
    BY Zenon DEF TowerIInv, Answered
  <2>3. QED
    BY Zenon, <1>2, <1>8, <1>9, <2>1, <2>2
<1>11. Answered'
  BY Zenon, <1>10 DEF Answered
<1>12. QED
  BY Zenon, <1>6, <1>7, <1>11 DEF TowerIInv

----------------------------------------------------------------------------
(* The worker of a stream sends.                                            *)

\* What copilots can be told.
Abouts == ({"deliver", "invalid"} \X Subs) \cup {<<"tail", None>>}

\* What a stream is sent is what it was sent before, and the message.
LEMMA SentFacts ==
  ASSUME TowerIInv, NEW w \in Workers, NEW m \in [stream : Streams, about : Abouts], Sent(w, m)
  PROVE  /\ got' \in [Streams -> SUBSET Abouts]
         /\ \A st \in Streams : \A x \in got'[st] : x \in got[st] \/ m = [stream |-> st, about |-> x]
<1>1. got \in [Streams -> SUBSET Abouts]
  BY DEF TowerIInv, TowerTypeInv, Abouts
<1>2. m.stream \in Streams /\ m.about \in Abouts /\ m = [stream |-> m.stream, about |-> m.about]
  OBVIOUS
<1>3. \/ got' = got
      \/ got' = [got EXCEPT ![m.stream] = @ \cup {m.about}]
  BY DEF Sent
<1>4. got' \in [Streams -> SUBSET Abouts] /\ \A st \in Streams : got'[st] \subseteq got[st] \cup {x \in {m.about} : st = m.stream}
  BY <1>1, <1>2, <1>3
<1>5. QED
  BY Zenon, <1>2, <1>4

LEMMA SendFromRoomKeeps ==
  ASSUME TowerIInv, NEW r \in Rooms, NEW w \in Workers, SendFromRoom(r, w)
  PROVE  TowerIInv'
<1>1. toClient \in [Rooms -> [Workers -> Seq(Deliveries)]] /\ toClient[r][w] \in Seq(Deliveries) /\ toClient[r][w] # <<>>
  BY SMTT(20) DEF TowerIInv, TowerTypeInv, SendFromRoom
<1>2. PICK x \in Head(toClient[r][w]) :
        /\ Sent(w, [stream |-> x[1], about |-> <<"deliver", x[2]>>])
        /\ toClient' = [toClient EXCEPT ![r][w] = Without(@, x)]
  BY Zenon DEF SendFromRoom
<1>3. UNCHANGED <<open, usedIds, subToRoom, toRoom, subWorker, subscribers, finding, toWorker, fed, tails>>
  BY Zenon DEF SendFromRoom, rooms
<1> DEFINE m == [stream |-> x[1], about |-> <<"deliver", x[2]>>]
           rest == Without(toClient[r][w], x)
<1>4. x \in Streams \X Subs /\ x = <<x[1], x[2]>> /\ m \in [stream : Streams, about : Abouts]
  BY <1>1 DEF Deliveries, Abouts
<1>5. /\ got' \in [Streams -> SUBSET Abouts]
      /\ \A st \in Streams : \A a \in got'[st] : a \in got[st] \/ m = [stream |-> st, about |-> a]
  <2> HIDE DEF m
  <2>1. Sent(w, m)
    BY <1>2 DEF m
  <2>2. QED
    BY <1>4, <2>1, SentFacts
<1>6. /\ rest \in Seq(Deliveries)
      /\ \A i \in 1 .. Len(rest) : \E j \in 1 .. Len(toClient[r][w]) : rest[i] \subseteq toClient[r][w][j]
  <2> DEFINE q == toClient[r][w]
  <2>1. q \in Seq(Deliveries) /\ q # <<>>
    BY <1>1
  <2> HIDE DEF q
  <2>2. /\ Tail(q) \in Seq(Deliveries)
        /\ \A i \in 1 .. Len(Tail(q)) : i + 1 \in 1 .. Len(q) /\ Tail(q)[i] = q[i + 1]
    BY <2>1
  <2>3. Head(q) = q[1] /\ 1 \in 1 .. Len(q) /\ Head(q) \ {x} \in Deliveries
    BY <2>1 DEF Deliveries
  <2>4. /\ [q EXCEPT ![1] = Head(q) \ {x}] \in Seq(Deliveries)
        /\ Len([q EXCEPT ![1] = Head(q) \ {x}]) = Len(q)
        /\ \A i \in 1 .. Len(q) : [q EXCEPT ![1] = Head(q) \ {x}][i] \subseteq q[i]
    BY <2>1, <2>3
  <2>5. QED
    BY <2>2, <2>4 DEF q, Without
<1>7. toClient' = [toClient EXCEPT ![r][w] = rest]
  BY <1>1, <1>2
<1>8. 1 \in 1 .. Len(toClient[r][w]) /\ x \in toClient[r][w][1]
  BY <1>1
<1> HIDE DEF rest
<1>9. /\ toClient' \in [Rooms -> [Workers -> Seq(Deliveries)]]
      /\ \A r1 \in Rooms, w1 \in Workers :
           toClient'[r1][w1] = IF r1 = r /\ w1 = w THEN rest ELSE toClient[r1][w1]
  BY Zenon, <1>1, <1>6, <1>7
<1>10. TowerTypeInv'
  BY <1>3, <1>5, <1>9 DEF TowerIInv, TowerTypeInv, Abouts
<1>11. WorkerKnown' /\ Addressed' /\ AllAgreed' /\ KnownInUse' /\ ServedInUse'
  BY Zenon, <1>3 DEF TowerIInv, WorkerKnown, Addressed, AllAgreed, Queue, KnownInUse, ServedInUse
<1>12. ASSUME NEW st \in Streams, NEW s \in Subs, Delivering(st, s)'
       PROVE  Delivering(st, s)
  <2>1. CASE <<"deliver", s>> \in got'[st]
    <3>1. CASE <<"deliver", s>> \in got[st]
      BY <3>1 DEF Delivering
    <3>2. CASE m = [stream |-> st, about |-> <<"deliver", s>>]
      <4>1. x = <<st, s>>
        BY <1>4, <3>2
      <4>2. QED
        BY Zenon, <1>8, <4>1 DEF Delivering
    <3>3. QED
      BY Zenon, <1>5, <2>1, <3>1, <3>2
  <2>2. CASE \E r1 \in Rooms, w1 \in Workers : \E i \in 1 .. Len(toClient'[r1][w1]) :
               <<st, s>> \in toClient'[r1][w1][i]
    <3>1. PICK r1 \in Rooms, w1 \in Workers : \E i \in 1 .. Len(toClient'[r1][w1]) :
                 <<st, s>> \in toClient'[r1][w1][i]
      BY Zenon, <2>2
    <3>2. PICK i \in 1 .. Len(toClient'[r1][w1]) : <<st, s>> \in toClient'[r1][w1][i]
      BY Zenon, <3>1
    <3>3. \E j \in 1 .. Len(toClient[r1][w1]) : <<st, s>> \in toClient[r1][w1][j]
      <4>1. CASE r1 = r /\ w1 = w
        <5>1. toClient'[r1][w1] = rest
          BY Zenon, <1>9, <4>1
        <5>2. PICK j \in 1 .. Len(toClient[r][w]) : rest[i] \subseteq toClient[r][w][j]
          BY Zenon, <1>6, <3>2, <5>1
        <5>3. <<st, s>> \in toClient[r][w][j]
          BY Zenon, <3>2, <5>1, <5>2
        <5>4. QED
          BY Zenon, <4>1, <5>3
      <4>2. CASE ~ (r1 = r /\ w1 = w)
        <5>1. toClient'[r1][w1] = toClient[r1][w1]
          BY Zenon, <1>9, <4>2
        <5>2. QED
          BY Zenon, <3>2, <5>1
      <4>3. QED
        BY <4>1, <4>2
    <3>4. QED
      BY Zenon, <3>3 DEF Delivering
  <2>3. QED
    BY Zenon, <1>12, <2>1, <2>2 DEF Delivering
<1>13. ASSUME NEW st \in Streams, NEW s \in Subs, Rejecting(st, s)'
       PROVE  Rejecting(st, s)
  <2>1. m # [stream |-> st, about |-> <<"invalid", s>>]
    OBVIOUS
  <2>2. <<"invalid", s>> \in got'[st] => <<"invalid", s>> \in got[st]
    BY <1>5, <2>1
  <2>3. QED
    BY Zenon, <1>3, <1>13, <2>2 DEF Rejecting
<1>14. ASSUME NEW st \in Streams, NEW s \in Subs PROVE Unserved(st, s) => Unserved(st, s)'
  BY <1>3 DEF Unserved, Queue
<1>15. Answered'
  BY Zenon, <1>3, <1>12, <1>13, <1>14, NoNewAnswers
<1>16. QED
  BY Zenon, <1>10, <1>11, <1>15 DEF TowerIInv

LEMMA SendFromQueueKeeps ==
  ASSUME TowerIInv, NEW w \in Workers, SendFromQueue(w)
  PROVE  TowerIInv'
<1>1. toWorker \in [Workers -> Seq(Answers)] /\ toWorker[w] \in Seq(Answers) /\ toWorker[w] # <<>>
  BY Zenon DEF TowerIInv, TowerTypeInv, SendFromQueue
<1>2. PICK m \in Answers : m = Head(toWorker[w])
  BY <1>1
<1>3. /\ Sent(w, m) /\ toWorker' = [toWorker EXCEPT ![w] = Tail(@)]
      /\ UNCHANGED <<open, usedIds, subToRoom, toRoom, subWorker, subscribers, toClient, finding, fed, tails>>
  BY <1>2 DEF SendFromQueue, rooms
<1>4. /\ got' \in [Streams -> SUBSET Abouts]
      /\ \A st \in Streams : \A x \in got'[st] : x \in got[st] \/ m = [stream |-> st, about |-> x]
  <2>1. m \in [stream : Streams, about : Abouts]
    BY DEF Answers, Abouts
  <2>2. QED
    BY <1>3, <2>1, SentFacts
<1>5. /\ toWorker' \in [Workers -> Seq(Answers)]
      /\ \A w1 \in Workers : toWorker'[w1] = IF w1 = w THEN Tail(toWorker[w1]) ELSE toWorker[w1]
  <2>1. Tail(toWorker[w]) \in Seq(Answers)
    BY SMTT(30), <1>1
  <2>2. QED
    BY <1>1, <1>3, <2>1
<1>6. TowerTypeInv'
  BY <1>3, <1>4, <1>5 DEF TowerIInv, TowerTypeInv, Abouts
<1>7. WorkerKnown' /\ Addressed' /\ AllAgreed' /\ KnownInUse' /\ ServedInUse'
  BY Zenon, <1>3 DEF TowerIInv, WorkerKnown, Addressed, AllAgreed, Queue, KnownInUse, ServedInUse
<1>8. ASSUME NEW w1 \in Workers, NEW i \in 1 .. Len(toWorker'[w1])
      PROVE  \E j \in 1 .. Len(toWorker[w1]) : toWorker'[w1][i] = toWorker[w1][j]
  <2>1. CASE w1 = w
    <3>1. toWorker'[w] = Tail(toWorker[w])
      BY <1>5
    <3>2. i + 1 \in 1 .. Len(toWorker[w]) /\ toWorker'[w][i] = toWorker[w][i + 1]
      BY <1>1, <2>1, <3>1
    <3>3. QED
      BY <2>1, <3>2
  <2>2. CASE w1 # w
    BY <1>5, <2>2
  <2>3. QED
    BY <2>1, <2>2
<1>9. 1 \in 1 .. Len(toWorker[w]) /\ toWorker[w][1] = m
  BY <1>1, <1>2
<1>10. ASSUME NEW st \in Streams, NEW s \in Subs, Delivering(st, s)'
       PROVE  Delivering(st, s)
  <2>1. m # [stream |-> st, about |-> <<"deliver", s>>]
    BY SMTT(20) DEF Answers
  <2>2. <<"deliver", s>> \in got'[st] => <<"deliver", s>> \in got[st]
    BY Zenon, <1>4, <2>1
  <2>3. QED
    BY Zenon, <1>3, <1>10, <2>2 DEF Delivering
<1>11. ASSUME NEW st \in Streams, NEW s \in Subs, Rejecting(st, s)'
       PROVE  Rejecting(st, s)
  <2>1. CASE <<"invalid", s>> \in got'[st]
    BY Zenon, <1>4, <1>9, <2>1 DEF Rejecting
  <2>2. CASE \E w1 \in Workers : \E i \in 1 .. Len(toWorker'[w1]) :
               toWorker'[w1][i] = [stream |-> st, about |-> <<"invalid", s>>]
    <3>1. PICK w1 \in Workers : \E i \in 1 .. Len(toWorker'[w1]) :
                 toWorker'[w1][i] = [stream |-> st, about |-> <<"invalid", s>>]
      BY Zenon, <2>2
    <3>2. \E j \in 1 .. Len(toWorker[w1]) : toWorker[w1][j] = [stream |-> st, about |-> <<"invalid", s>>]
      BY Zenon, <1>8, <3>1
    <3>3. QED
      BY Zenon, <3>2 DEF Rejecting
  <2>3. QED
    BY Zenon, <1>11, <2>1, <2>2 DEF Rejecting
<1>12. ASSUME NEW st \in Streams, NEW s \in Subs PROVE Unserved(st, s) => Unserved(st, s)'
  BY Zenon, <1>3 DEF Unserved, Queue
<1>13. Answered'
  BY SMTT(20), <1>3, <1>10, <1>11, <1>12, NoNewAnswers
<1>14. QED
  BY <1>6, <1>7, <1>13 DEF TowerIInv

----------------------------------------------------------------------------
LEMMA TowerStep == TowerIInv /\ [TowerNext]_towerVars => TowerIInv'
<1> SUFFICES ASSUME TowerIInv, [TowerNext]_towerVars PROVE TowerIInv'
  OBVIOUS
<1>1. CASE UNCHANGED towerVars
  <2>1. UNCHANGED <<open, usedIds, subToRoom, toRoom, subWorker, subscribers, toClient, finding, toWorker, fed, tails, got>>
    BY Zenon, <1>1 DEF towerVars, rooms
  <2>2. TowerTypeInv' /\ WorkerKnown' /\ Addressed' /\ AllAgreed' /\ KnownInUse' /\ ServedInUse'
    BY <2>1 DEF TowerIInv, TowerTypeInv, WorkerKnown, Addressed, AllAgreed, Queue, KnownInUse, ServedInUse
  <2>3. Answered'
    <3>1. ASSUME NEW st \in Streams, NEW s \in Subs PROVE Unserved(st, s) => Unserved(st, s)'
      BY Zenon, <2>1 DEF Unserved, Queue
    <3>2. QED
      BY Zenon, <2>1, <3>1, SameAnswers
  <2>4. QED
    BY <2>2, <2>3 DEF TowerIInv
<1>2. CASE \E st \in Streams : ProcessGoodbye(st)
  BY <1>2, ProcessGoodbyeKeeps
<1>3. CASE \E st \in Streams, s \in Subs : SubscribeInvalid(st, s)
  BY <1>3, SubscribeInvalidKeeps
<1>4. CASE \E st \in Streams, s \in Subs : ProcessUnsubscribe(st, s)
  BY <1>4, ProcessUnsubscribeKeeps
<1>5. CASE \E st \in Streams, s \in Subs, t \in Topics : ProcessSubscribe(st, s, t)
  BY <1>5, ProcessSubscribeKeeps
<1>6. CASE \E st \in Streams, t \in Topics : ProcessFindTailSeqno(st, t)
  BY <1>6, ProcessFindTailSeqnoKeeps
<1>7. CASE \E w \in Workers, r \in Rooms : RoomReceive(w, r)
  BY <1>7, RoomReceiveKeeps
<1>8. CASE \E w \in Workers, r \in Rooms : SendFromRoom(r, w)
  BY <1>8, SendFromRoomKeeps
<1>9. CASE \E w \in Workers : SendFromQueue(w)
  BY <1>9, SendFromQueueKeeps
<1>10. CASE \E x \in finding : FoundLatestSeqno(x)
  BY <1>10, FoundLatestSeqnoKeeps
<1>11. CASE \E r \in Rooms : \E recipients \in SUBSET subscribers[r] : OnTailerMessage(r, recipients)
  BY <1>11, OnTailerMessageKeeps
<1>12. QED
  BY Zenon, <1>1, <1>2, <1>3, <1>4, <1>5, <1>6, <1>7, <1>8, <1>9, <1>10, <1>11 DEF TowerNext

\* What the commands on their way say is what the tower and its rooms disagree about.
LEMMA TowerSafety == TowerIInv => TowerSafe
<1> SUFFICES ASSUME TowerIInv PROVE TowerSafe
  BY Zenon
<1>1. ASSUME NEW st \in Streams, NEW r \in Rooms, NEW i \in 1 .. Len(Queue(st, r))
      PROVE  /\ Queue(st, r)[i] \in Commands /\ FromWorker(Queue(st, r)[i], WorkerOf[st], usedIds, open)
             /\ i \in DOMAIN toRoom[WorkerOf[st]][r]
  BY SMTT(30), QueueTypes, StreamsAssumption DEF TowerIInv, Addressed, Queue
<1>2. ASSUME NEW st \in Streams, NEW s \in Subs, NEW c \in Commands, FromWorker(c, WorkerOf[st], usedIds, open)
      PROVE  /\ Adds(c, st, s) => c = Cmd("subscribe", st, s, WorkerOf[st])
             /\ Removes(c, st, s) => c \in {Cmd("unsubscribe", st, s, WorkerOf[st]), Cmd("goodbye", st, None, None)}
  BY Zenon, <1>2 DEF Adds, Removes, FromWorker, Commands, Cmd
<1>3. ASSUME NEW st \in Streams, NEW s \in Subs, NEW r \in Rooms
      PROVE  IF subToRoom[st][s] = r
               THEN <<st, s>> \in subscribers[r] \/ Pending(Cmd("subscribe", st, s, WorkerOf[st]), st, r)
               ELSE \/ <<st, s>> \notin subscribers[r]
                    \/ Pending(Cmd("unsubscribe", st, s, WorkerOf[st]), st, r)
                    \/ Pending(Cmd("goodbye", st, None, None), st, r)
  <2>1. Agreed(Queue(st, r), st, s, r, subToRoom[st][s], subscribers[r])
    BY Zenon DEF TowerIInv, AllAgreed
  <2>2. CASE subToRoom[st][s] = r /\ <<st, s>> \notin subscribers[r]
    <3>1. PICK i \in 1 .. Len(Queue(st, r)) : Adds(Queue(st, r)[i], st, s)
      BY Zenon, <2>1, <2>2 DEF Agreed
    <3>2. Queue(st, r)[i] = Cmd("subscribe", st, s, WorkerOf[st])
      BY Zenon, <1>1, <1>2, <3>1
    <3>3. QED
      BY Zenon, <1>1, <2>2, <3>2 DEF Pending, Queue
  <2>3. CASE subToRoom[st][s] # r /\ <<st, s>> \in subscribers[r]
    <3>1. PICK i \in 1 .. Len(Queue(st, r)) : Removes(Queue(st, r)[i], st, s)
      BY Zenon, <2>1, <2>3 DEF Agreed
    <3>2. Queue(st, r)[i] \in {Cmd("unsubscribe", st, s, WorkerOf[st]), Cmd("goodbye", st, None, None)}
      BY Zenon, <1>1, <1>2, <3>1
    <3>3. QED
      BY <1>1, <2>3, <3>2 DEF Pending, Queue
  <2>4. QED
    BY <2>2, <2>3
<1>4. AgreesWithRooms
  BY Zenon, <1>3 DEF AgreesWithRooms
<1>5. OnlyOwn
  <2>1. ASSUME NEW st \in Streams, NEW m \in got[st], m[2] # None
        PROVE  /\ m[2] \in usedIds[st]
               /\ m[1] = "invalid" => /\ <<"deliver", m[2]>> \notin got[st]
                                      /\ \A r \in Rooms : <<st, m[2]>> \notin subscribers[r]
    <3>1. PICK s \in Subs : m = <<"deliver", s>> \/ m = <<"invalid", s>>
      BY SMTT(20), <2>1 DEF TowerIInv, TowerTypeInv
    <3>2. m[2] = s /\ (m = <<"deliver", s>> => m[1] # "invalid")
      BY SMTT(30), <3>1
    <3>3. /\ Delivering(st, s) => s \in usedIds[st]
          /\ Rejecting(st, s) => s \in usedIds[st] /\ ~ Delivering(st, s) /\ Unserved(st, s)
      BY DEF TowerIInv, Answered
    <3>4. QED
      BY Zenon, <3>1, <3>2, <3>3 DEF Delivering, Rejecting, Unserved
  <2>2. QED
    BY Zenon, <2>1 DEF OnlyOwn
<1>6. QED
  BY <1>4, <1>5 DEF TowerIInv, TowerSafe

\* The control tower: whatever is on its way between the workers and the rooms,
\* sub_worker_ of every room names the worker of every subscriber it feeds (room.cc's
\* "Unknown worker for subscription" is never met), sub_to_room_ and the rooms disagree
\* about a subscription only while the command that settles it is queued, and a copilot
\* is sent messages only about its own subscriptions and a rejection only of one that
\* was never served.  For any workers, rooms, streams, topics and subscription ids.
THEOREM TowerAlwaysSafe == TowerSpec => []TowerSafe
<1>1. TowerInit => TowerIInv
  BY TowerInitIInv
<1>2. TowerIInv /\ [TowerNext]_towerVars => TowerIInv'
  BY TowerStep
<1>3. TowerIInv => TowerSafe
  BY TowerSafety
<1>4. QED
  BY <1>1, <1>2, <1>3, PTL DEF TowerSpec
=============================================================================
