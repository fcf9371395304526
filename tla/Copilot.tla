-------------------------------- MODULE Copilot --------------------------------
(***************************************************************************)
(* The copilot (copilot.cc): event loops that receive messages of clients  *)
(* and control towers pass each to the worker responsible for it, through  *)
(* a mesh of queues, and workers (worker.cc) answer through further ones.  *)
(* Loop and worker i share a thread, but every queue is read on its own.   *)
(* Sequence numbers are left to CopilotWorker: here a worker knows which   *)
(* subscriptions it has, upstream and downstream, and on which streams.    *)
(***************************************************************************)
EXTENDS Naturals, Sequences, FiniteSets, SequencesExt, FiniteSetsExt

CONSTANTS
  N,                          \* number of workers
  Subs, Stream, Topic,        \* client subscriptions, with the stream and the topic of each
  Loop,                       \* the event loop of each client stream
  Log,                        \* the log of each topic
  Hash, Connections,          \* of control towers, control_tower_connections
  Routes,                     \* sequence of the sets of towers that routers name
  Rollcall,                   \* rollcall_enabled
  MaxDelivers, MaxRejects, MaxLosses, MaxResubs, MaxFails   \* bounds

Workers == 0 .. N - 1
Streams == {Stream[i] : i \in Subs}
Topics == {Topic[i] : i \in Subs}

VARIABLES
  subIds,       \* per loop: sub_id_map_, subscription -> worker
  fromClients,  \* client_to_worker_queues_, [loop][worker]
  fromTowers,   \* tower_to_worker_queues_, [loop][worker]
  updates,      \* router_update_queues_, versions of the router
  errors,       \* rollcall_error_queues_, subscriptions
  worker,       \* the workers, see WorkerInit
  tower,        \* control tower streams that were opened: [open, held]
  rollcall,     \* per worker: subscriptions whose rollcall entry is not yet answered
  closed,       \* client streams that said goodbye
  asked,        \* subscriptions that clients asked for ...
  believes,     \* ... and believe to have
  version,      \* the latest router given to UpdateTowerRouter
  used          \* how often each bounded event has happened

front == <<subIds, fromClients, fromTowers, updates>>
clients == <<closed, asked, believes>>
vars == <<front, errors, worker, tower, rollcall, clients, version, used>>

\*   client     client_subscriptions_
\*   subs       the subscriptions in TopicState, whose topic is in topics_ iff it has some
\*   towers     TopicState::towers
\*   known      sub_to_topic_
\*   request    topics with an active resubscribe request
\*   checkup    topic_checkup_list_
\*   sockets    control_tower_sockets_; created counts the streams ever made
\*   next       next_sub_id_state_
\*   router, cache   control_tower_router_, control_tower_cache_
\*   to         tower_queues_, per loop
WorkerInit ==
  [client |-> {}, subs |-> {}, towers |-> {}, known |-> {}, request |-> {}, checkup |-> {},
   sockets |-> {}, created |-> 0, next |-> 0, router |-> 1, cache |-> << >>,
   to |-> [l \in Workers |-> <<>>]]

Bounds == [deliver |-> MaxDelivers, reject |-> MaxRejects, loss |-> MaxLosses,
           resub |-> MaxResubs, fail |-> MaxFails]

Init ==
  /\ subIds = [l \in Workers |-> << >>]
  /\ fromClients = [l \in Workers |-> [w \in Workers |-> <<>>]]
  /\ fromTowers = [l \in Workers |-> [w \in Workers |-> <<>>]]
  /\ updates = [w \in Workers |-> <<>>] /\ errors = [w \in Workers |-> <<>>]
  /\ worker = [w \in Workers |-> WorkerInit] /\ tower = << >>
  /\ rollcall = [w \in Workers |-> {}]
  /\ closed = {} /\ asked = {} /\ believes = {} /\ version = 1 /\ used = [e \in DOMAIN Bounds |-> 0]

Spend(e) == used[e] < Bounds[e] /\ used' = [used EXCEPT ![e] = @ + 1]

GetLogWorker(log) == log % N
GetTowerWorker(log, h) == (Hash[h] + (log % Connections)) % N
GenerateSubscriptionID(w, state) == w + state * N
SubscriptionIDWorker(id) == id % N

Put(q, l, w, cmd) == [q EXCEPT ![l][w] = Append(@, cmd)]
PutAll(q, l, cmd) == [q EXCEPT ![l] = [w \in Workers |-> Append(@[w], cmd)]]
On(i) == Loop[Stream[i]]
Owner(st) == st[1]

(***************************************************************************)
(* The event loops: messages of clients and towers arrive.                 *)
(***************************************************************************)

ProcessSubscribe(i) ==
  /\ Stream[i] \notin closed /\ i \notin asked
  /\ asked' = asked \cup {i} /\ believes' = believes \cup {i}
  /\ LET w == GetLogWorker(Log[Topic[i]])
     IN /\ subIds' = [subIds EXCEPT ![On(i)] =
                        [j \in DOMAIN @ \cup {i} |-> IF j \in DOMAIN @ THEN @[j] ELSE w]]
        /\ fromClients' = Put(fromClients, On(i), w, [kind |-> "subscribe", sub |-> i])
  /\ UNCHANGED <<fromTowers, updates, errors, worker, tower, rollcall, closed, version, used>>

WithoutSubs(f, S) == [j \in DOMAIN f \ S |-> f[j]]

\* MoveOut finds the worker; for a subscription it does not know nothing happens.  A client may
\* not yet have heard that its subscription has ended.
ProcessUnsubscribe(i) ==
  /\ i \in DOMAIN subIds[On(i)]
  /\ believes' = believes \ {i}
  /\ fromClients' = Put(fromClients, On(i), subIds[On(i)][i], [kind |-> "unsubscribe", sub |-> i])
  /\ subIds' = [subIds EXCEPT ![On(i)] = WithoutSubs(@, {i})]
  /\ UNCHANGED <<fromTowers, updates, errors, worker, tower, rollcall, closed, asked, version, used>>

\* Mutant: it takes the queue that a goodbye of a server takes.
GoodbyeOnTowerQueue(s) ==
  fromTowers' = PutAll(fromTowers, Loop[s], [kind |-> "goodbye", stream |-> s]) /\ UNCHANGED fromClients
\* Every worker is told, behind what the client sent before.
GoodbyeToWorkers(s) ==
  fromClients' = PutAll(fromClients, Loop[s], [kind |-> "goodbye", stream |-> s]) /\ UNCHANGED fromTowers

ProcessGoodbyeClient(s) ==
  /\ s \notin closed /\ closed' = closed \cup {s}
  /\ LET gone == {i \in Subs : Stream[i] = s}
     IN /\ subIds' = [subIds EXCEPT ![Loop[s]] = WithoutSubs(@, gone)]
        /\ believes' = believes \ gone
  /\ GoodbyeToWorkers(s)
  /\ UNCHANGED <<updates, errors, worker, tower, rollcall, asked, version, used>>

OpenTowers == {st \in DOMAIN tower : tower[st].open}

\* Data, gaps and tail numbers of a tower go to the worker that made the subscription.
ProcessDeliver(st) ==
  \E h \in tower[st].held :
    /\ Spend("deliver")
    /\ fromTowers' = Put(fromTowers, tower[st].loop, SubscriptionIDWorker(h.id),
                         [kind |-> "deliver", stream |-> st, id |-> h.id, topic |-> h.topic])
    /\ UNCHANGED <<subIds, fromClients, updates, errors, worker, tower, rollcall, clients, version>>

\* The tower refuses a subscription: the notice takes the queue of the clients.
ProcessInvalid(st) ==
  \E h \in tower[st].held :
    /\ Spend("reject")
    /\ tower' = [tower EXCEPT ![st].held = @ \ {h}]
    /\ fromClients' = Put(fromClients, tower[st].loop, SubscriptionIDWorker(h.id),
                          [kind |-> "invalid", stream |-> st, id |-> h.id])
    /\ UNCHANGED <<subIds, fromTowers, updates, errors, worker, rollcall, clients, version>>

ProcessGoodbyeServer(st) ==
  /\ Spend("loss")
  /\ tower' = [tower EXCEPT ![st].open = FALSE, ![st].held = {}]
  /\ fromTowers' = PutAll(fromTowers, tower[st].loop, [kind |-> "goodbye", stream |-> st])
  /\ UNCHANGED <<subIds, fromClients, updates, errors, worker, rollcall, clients, version>>

UpdateTowerRouter ==
  /\ version < Len(Routes) /\ version' = version + 1
  /\ updates' = [w \in Workers |-> Append(updates[w], version + 1)]
  /\ UNCHANGED <<subIds, fromClients, fromTowers, errors, worker, tower, rollcall, clients, used>>

\* A request of a worker leaves on its stream, which the first one opens; a stream that was
\* lost is not opened again and the request goes nowhere.
HandleSendCommand(w, l) ==
  /\ worker[w].to[l] # <<>>
  /\ worker' = [worker EXCEPT ![w].to[l] = Tail(@)]
  /\ LET cmd == Head(worker[w].to[l])
         at == IF cmd.stream \in DOMAIN tower THEN tower[cmd.stream] ELSE [open |-> TRUE, held |-> {}, loop |-> l]
         entry == [id |-> cmd.id, topic |-> cmd.topic]
         held == CASE cmd.kind = "subscribe" -> at.held \cup {entry}
                   [] cmd.kind = "unsubscribe" -> at.held \ {entry}
                   [] cmd.kind = "find" -> at.held
     IN tower' = [st \in DOMAIN tower \cup {cmd.stream} |->
                    IF st # cmd.stream THEN tower[st] ELSE [at EXCEPT !.held = IF at.open THEN held ELSE {}]]
  /\ UNCHANGED <<front, errors, rollcall, clients, version, used>>

(***************************************************************************)
(* The workers.                                                            *)
(***************************************************************************)

\* GetControlTowers answers from the cache, which holds pointers into the router.
RouterOf(r, log) == IF log \in DOMAIN r.cache THEN r.cache[log] ELSE r.router
Cached(r, log) == [r EXCEPT !.cache = [x \in DOMAIN r.cache \cup {log} |-> RouterOf(r, x)]]
GetControlTowers(r, log) == Routes[RouterOf(r, log)]

Socket(r, h, l) == {k \in r.sockets : k.host = h /\ k.loop = l}
GetControlTowerSocket(w, r, h, l) ==
  IF Socket(r, h, l) # {} THEN r
  ELSE [r EXCEPT !.sockets = @ \cup {[host |-> h, loop |-> l, stream |-> <<w, r.created + 1>>]}, !.created = @ + 1]

TowersFor(r, t) == {k \in r.towers : k.topic = t}

SendUnsubscribe(r, k) ==
  [r EXCEPT !.to[k.loop] = Append(@, [kind |-> "unsubscribe", stream |-> k.stream, id |-> k.id, topic |-> k.topic]),
            !.known = {x \in @ : x.stream # k.stream \/ x.id # k.id}]
UnsubscribeControlTowers(r, t) ==
  LET left == FoldSet(LAMBDA k, x : SendUnsubscribe(x, k), r, TowersFor(r, t))
  IN [left EXCEPT !.towers = @ \ TowersFor(r, t)]

SendSubscribe(w, r, t, h) ==
  LET l == GetTowerWorker(Log[t], h)
      k == CHOOSE x \in Socket(r, h, l) : TRUE
      id == GenerateSubscriptionID(w, r.next)
  IN [r EXCEPT !.to[l] = Append(@, [kind |-> "subscribe", stream |-> k.stream, id |-> id, topic |-> t]),
               !.known = @ \cup {[stream |-> k.stream, id |-> id, topic |-> t]},
               !.towers = @ \cup {[stream |-> k.stream, id |-> id, topic |-> t, loop |-> l]},
               !.next = @ + 1]

SendFindTail(r, t, h) ==
  LET k == CHOOSE x \in Socket(r, h, GetTowerWorker(Log[t], h)) : TRUE
  IN [r EXCEPT !.to[k.loop] = Append(@, [kind |-> "find", stream |-> k.stream, id |-> 0, topic |-> t])]

\* Whether the towers in use suit the sequence numbers of the subscribers, and whether the tail
\* has to be asked for, CopilotWorker tells; here need is "none", "resub" or "find".
UpdateTowerSubscriptions(w, r, t, need) ==
  LET hosts == GetControlTowers(r, Log[t])
      resub == Cardinality(TowersFor(r, t)) < Cardinality(hosts) \/ need = "resub"
      sockets == FoldSet(LAMBDA h, x : GetControlTowerSocket(w, x, h, GetTowerWorker(Log[t], h)),
                         Cached(r, Log[t]), hosts)
      sent == FoldSet(LAMBDA h, x : SendSubscribe(w, x, t, h), UnsubscribeControlTowers(sockets, t), hosts)
  IN IF resub THEN [sent EXCEPT !.checkup = @ \cup {t}]
     ELSE IF need = "find" THEN FoldSet(LAMBDA h, x : SendFindTail(x, t, h), sockets, hosts)
     ELSE Cached(r, Log[t])

\* RollcallWrite of a subscription; that of an unsubscription has no consequences.
RollcallWrite(w, i) == rollcall' = IF Rollcall THEN [rollcall EXCEPT ![w] = @ \cup {i}] ELSE rollcall

Added(r, i) == [r EXCEPT !.client = @ \cup {i}, !.subs = @ \cup {i}]

\* A subscription at the tail joins a tower subscription that is there, and then asks for nothing.
ProcessSubscribeAt(w, i) ==
  \/ /\ TowersFor(worker[w], Topic[i]) # {}
     /\ worker' = [worker EXCEPT ![w] = Added(@, i)] /\ UNCHANGED used
  \/ /\ worker' = [worker EXCEPT ![w] = UpdateTowerSubscriptions(w, Added(@, i), Topic[i], "none")]
     /\ UNCHANGED used
  \/ /\ Spend("resub")
     /\ \E need \in {"resub", "find"} :
          worker' = [worker EXCEPT ![w] = UpdateTowerSubscriptions(w, Added(@, i), Topic[i], need)]

Forget(r, t) == [r EXCEPT !.request = @ \ {t}, !.checkup = @ \ {t}]
HasSubs(r, t) == \E i \in r.subs : Topic[i] = t

RemoveSubscription(r, i) ==
  IF i \notin r.client THEN r
  ELSE LET t == Topic[i]
           less == [r EXCEPT !.client = @ \ {i}, !.subs = @ \ {i}]
       IN IF HasSubs(r, t) /\ ~HasSubs(less, t) THEN Forget(UnsubscribeControlTowers(less, t), t) ELSE less

\* The topic is given up with all its subscriptions; client_subscriptions_ still lists them.
Ended(r, cmd) ==
  {i \in r.subs : \E k \in r.known : k.stream = cmd.stream /\ k.id = cmd.id /\ k.topic = Topic[i]}
HandleInvalidSubscription(r, cmd) ==
  IF Ended(r, cmd) = {} THEN r
  ELSE LET t == Topic[CHOOSE i \in Ended(r, cmd) : TRUE]
       IN Forget(UnsubscribeControlTowers([r EXCEPT !.subs = @ \ Ended(r, cmd)], t), t)

RemoveAll(r, s) == FoldSet(LAMBDA i, x : RemoveSubscription(x, i), r, {i \in r.client : Stream[i] = s})

CloseControlTowerStream(r, st) ==
  LET lost == {k \in r.towers : k.stream = st}
  IN [r EXCEPT !.known = {k \in @ : k.stream # st}, !.towers = @ \ lost,
               !.request = @ \cup {k.topic : k \in lost}, !.sockets = {k \in @ : k.stream # st}]

\* The commands of the client queue (WorkerCommand) ...
ExecuteFromClient(l, w) ==
  /\ fromClients[l][w] # <<>>
  /\ fromClients' = [fromClients EXCEPT ![l][w] = Tail(@)]
  /\ LET cmd == Head(fromClients[l][w])  r == worker[w]
     IN \/ /\ cmd.kind = "subscribe" /\ ProcessSubscribeAt(w, cmd.sub)
           /\ RollcallWrite(w, cmd.sub) /\ UNCHANGED believes
        \/ /\ cmd.kind = "unsubscribe" /\ worker' = [worker EXCEPT ![w] = RemoveSubscription(r, cmd.sub)]
           /\ UNCHANGED <<rollcall, believes, used>>
        \/ /\ cmd.kind = "invalid" /\ worker' = [worker EXCEPT ![w] = HandleInvalidSubscription(r, cmd)]
           /\ believes' = believes \ Ended(r, cmd) /\ UNCHANGED <<rollcall, used>>
        \/ /\ cmd.kind = "goodbye" /\ worker' = [worker EXCEPT ![w] = RemoveAll(r, cmd.stream)]
           /\ UNCHANGED <<rollcall, believes, used>>
  /\ UNCHANGED <<subIds, fromTowers, updates, errors, tower, closed, asked, version>>

\* ... of the tower queue; data is passed to the subscribers of the topic ...
ExecuteFromTower(l, w) ==
  /\ fromTowers[l][w] # <<>>
  /\ fromTowers' = [fromTowers EXCEPT ![l][w] = Tail(@)]
  /\ LET cmd == Head(fromTowers[l][w])
     IN \/ cmd.kind = "deliver" /\ UNCHANGED worker
        \/ /\ cmd.kind = "goodbye" /\ cmd.stream \notin Streams
           /\ worker' = [worker EXCEPT ![w] = CloseControlTowerStream(@, cmd.stream)]
        \/ /\ cmd.kind = "goodbye" /\ cmd.stream \in Streams
           /\ worker' = [worker EXCEPT ![w] = RemoveAll(@, cmd.stream)]
  /\ UNCHANGED <<subIds, fromClients, updates, errors, tower, rollcall, clients, version, used>>

\* ... of the router queue ...
ProcessRouterUpdate(w) ==
  /\ updates[w] # <<>>
  /\ updates' = [updates EXCEPT ![w] = Tail(@)]
  /\ worker' = [worker EXCEPT ![w].router = Head(updates[w]), ![w].cache = << >>]
  /\ UNCHANGED <<subIds, fromClients, fromTowers, errors, tower, rollcall, clients, version, used>>

\* ... and of the queue of failed rollcall writes: the subscription ends and its client is told.
ProcessError(w) ==
  /\ errors[w] # <<>>
  /\ errors' = [errors EXCEPT ![w] = Tail(@)]
  /\ worker' = [worker EXCEPT ![w] = RemoveSubscription(@, Head(errors[w]))]
  /\ believes' = believes \ {Head(errors[w])}
  /\ UNCHANGED <<front, tower, rollcall, closed, asked, version, used>>

\* A batch of rollcall entries was written, or failed (rollcall.cc FlushBatch, publish_callback).
RollcallAnswer(w, batch) ==
  /\ batch # {} /\ rollcall' = [rollcall EXCEPT ![w] = @ \ batch]
  /\ \/ UNCHANGED <<errors, used>>
     \/ Spend("fail") /\ errors' = [errors EXCEPT ![w] = @ \o SetToSeq(batch)]
  /\ UNCHANGED <<front, worker, tower, clients, version>>

CorrectTopicTowers(r, t) ==
  \A h \in GetControlTowers(r, Log[t]) :
    \E k \in TowersFor(r, t) : k.stream \in {x.stream : x \in Socket(r, h, GetTowerWorker(Log[t], h))}

\* Requests that are due, then topics that are due for a check.
Resubscribed(w, r, due) ==
  FoldSet(LAMBDA t, x : UpdateTowerSubscriptions(w, x, t, "none"), [r EXCEPT !.request = @ \ due], due)
Checked(w, r, due) ==
  FoldSet(LAMBDA t, x : IF CorrectTopicTowers(x, t) THEN Cached(x, Log[t])
                        ELSE UpdateTowerSubscriptions(w, x, t, "resub"), r, due)
ProcessTimerTick(w) ==
  /\ \E requests \in SUBSET worker[w].request, topics \in SUBSET worker[w].checkup :
       worker' = [worker EXCEPT ![w] = Checked(w, Resubscribed(w, @, requests), topics)]
  /\ UNCHANGED <<front, errors, tower, rollcall, clients, version, used>>

Next ==
  \/ \E i \in Subs : ProcessSubscribe(i) \/ ProcessUnsubscribe(i)
  \/ \E s \in Streams : ProcessGoodbyeClient(s)
  \/ \E st \in OpenTowers : ProcessDeliver(st) \/ ProcessInvalid(st) \/ ProcessGoodbyeServer(st)
  \/ UpdateTowerRouter
  \/ \E w \in Workers :
       \/ \E l \in Workers : HandleSendCommand(w, l) \/ ExecuteFromClient(l, w) \/ ExecuteFromTower(l, w)
       \/ ProcessRouterUpdate(w) \/ ProcessError(w) \/ ProcessTimerTick(w)
       \/ \E batch \in SUBSET rollcall[w] : RollcallAnswer(w, batch)

Spec == Init /\ [][Next]_vars

\* Type invariant of the tables of the workers and of what clients asked for and believe.
TypeInv ==
  /\ asked \subseteq Subs /\ believes \subseteq asked /\ closed \subseteq Streams
  /\ \A w \in Workers : /\ worker[w].subs \subseteq worker[w].client /\ worker[w].client \subseteq asked
                        /\ worker[w].router \in DOMAIN Routes /\ rollcall[w] \subseteq asked
                        /\ worker[w].request \subseteq Topics /\ worker[w].checkup \subseteq Topics

Has(q, cmd) == cmd \in ToSet(q)
WorkerOf(i) == GetLogWorker(Log[Topic[i]])

\* A subscription that its client believes in is at its worker, or on the way there: whoever
\* ends it (a tower, a failed rollcall write) tells the client.  And none outlives its stream or
\* its unsubscription: what ends it is queued behind what made it.
ClientsInStep ==
  /\ \A i \in believes :
       \/ i \in worker[WorkerOf(i)].subs
       \/ Has(fromClients[On(i)][WorkerOf(i)], [kind |-> "subscribe", sub |-> i])
  /\ \A w \in Workers : \A i \in worker[w].client :
       /\ w = WorkerOf(i)
       /\ \/ i \in DOMAIN subIds[On(i)] /\ subIds[On(i)][i] = w
          \/ Has(fromClients[On(i)][w], [kind |-> "unsubscribe", sub |-> i])
          \/ Has(fromClients[On(i)][w], [kind |-> "goodbye", stream |-> Stream[i]])

\* A worker that counts on a tower subscription will hear from the tower: the tower holds it, is
\* about to get it, or the worker is about to learn that it is lost or refused.  The socket it is
\* on is still there (Tower::stream points to it).  A topic with subscribers has a tower or
\* a request for one.
TowersInStep ==
  \A w \in Workers : LET r == worker[w] IN
    /\ \A k \in r.towers :
         /\ [stream |-> k.stream, id |-> k.id, topic |-> k.topic] \in r.known
         /\ \E x \in r.sockets : x.stream = k.stream /\ x.loop = k.loop
         /\ \/ k.stream \in DOMAIN tower /\ [id |-> k.id, topic |-> k.topic] \in tower[k.stream].held
            \/ Has(r.to[k.loop], [kind |-> "subscribe", stream |-> k.stream, id |-> k.id, topic |-> k.topic])
            \/ Has(fromTowers[k.loop][w], [kind |-> "goodbye", stream |-> k.stream])
            \/ Has(fromClients[k.loop][w], [kind |-> "invalid", stream |-> k.stream, id |-> k.id])
    /\ \A i \in r.subs : TowersFor(r, Topic[i]) # {} \/ Topic[i] \in r.request

\* Conversely a tower holds no subscription that its worker has forgotten, unless the
\* unsubscription is on its way; and what it sends finds the worker that made the subscription.
TowersTold ==
  \A st \in DOMAIN tower : \A h \in tower[st].held :
    /\ SubscriptionIDWorker(h.id) = Owner(st)
    /\ \/ [stream |-> st, id |-> h.id, topic |-> h.topic] \in worker[Owner(st)].known
       \/ Has(worker[Owner(st)].to[tower[st].loop],
              [kind |-> "unsubscribe", stream |-> st, id |-> h.id, topic |-> h.topic])

\* Data reaches subscribers of its own topic only: an id is not reused while data is queued for it.
RightTopic ==
  \A l, w \in Workers : \A n \in DOMAIN fromTowers[l][w] :
    LET cmd == fromTowers[l][w][n]
    IN cmd.kind = "deliver" => \A k \in worker[w].known : k.stream = cmd.stream /\ k.id = cmd.id => k.topic = cmd.topic

\* No cached tower address outlives the router it points into.
CacheValid == \A w \in Workers : \A log \in DOMAIN worker[w].cache : worker[w].cache[log] = worker[w].router

\* What clients, workers and towers keep together through the queues between them.
CopilotInStep == TypeInv /\ ClientsInStep /\ TowersInStep /\ TowersTold /\ RightTopic /\ CacheValid
=============================================================================
