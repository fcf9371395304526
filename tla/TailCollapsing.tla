--------------------------- MODULE TailCollapsing ---------------------------
(***************************************************************************)
(* The client's TailCollapsingSubscriber (tail_collapsing_subscriber.cc)   *)
(* of one shard, on top of the Subscriber it wraps and below the           *)
(* MultiShardSubscriber that creates and destroys it: all subscriptions of *)
(* the application on one topic share one upstream subscription, found     *)
(* through TopicToSubscriptionMap (topic_subscription_map.cc), a hash      *)
(* table of subscription ids that keeps no topics and asks the Subscriber  *)
(* for them.                                                               *)
(***************************************************************************)
EXTENDS Naturals, Sequences, SequencesExt, FiniteSets, FiniteSetsExt, Functions

CONSTANTS
  Topics,               \* positive numbers; EmptyName is the empty one
  Hash,                 \* [Topics \cup {EmptyName} -> Nat], XXH64 of the name
  MinSize,              \* kMinSize, 16 in the code
  MaxActive,            \* max_active_subscriptions_
  ShouldNotifyHealth,   \* options_.should_notify_health
  MaxIds, MaxHealth     \* bounds: subscriptions started, changes of health

NoId == 0
EmptyName == 0

VARIABLES
  index,       \* upstream_subscriptions_
  upstream,    \* the Subscriber's subscriptions: id -> topic and the observer
  remap,       \* downstream_to_upstream_
  healthy, changes, started,
  held,        \* handles the application has not unsubscribed
  believes     \* handles the application was not told the end of, with their topics

vars == <<index, upstream, remap, healthy, changes, started, held, believes>>

----------------------------------------------------------------------------
(* TopicToSubscriptionMap *)

EmptyIndex == [vector |-> <<>>, low |-> 0, high |-> 0, count |-> 0]

Size(m) == Len(m.vector)
At(m, p) == m.vector[p + 1]
FindOptimalPosition(m, t) == Hash[t] % Size(m)
\* The positions from p on, in the order in which the loops visit them.
Probe(m, p, k) == (p + k) % Size(m)
\* get_topic_: a subscription the Subscriber does not know has no name.
TopicOf(subs, id) == IF id \in DOMAIN subs THEN subs[id].topic ELSE EmptyName

Find(m, subs, t) ==
  IF Size(m) = 0 THEN NoId
  ELSE LET start == FindOptimalPosition(m, t)
           ends == {k \in 0 .. Size(m) - 1 : \/ At(m, Probe(m, start, k)) = NoId
                                            \/ TopicOf(subs, At(m, Probe(m, start, k))) = t}
       IN IF ends = {} THEN NoId ELSE At(m, Probe(m, start, Min(ends)))

InsertInternal(m, t, id) ==
  LET start == FindOptimalPosition(m, t)
      gaps == {k \in 0 .. Size(m) - 1 : At(m, Probe(m, start, k)) \in {NoId, id}}
      p == Probe(m, start, Min(gaps))
  IN IF gaps = {} \/ At(m, p) = id THEN m
     ELSE [m EXCEPT !.vector[p + 1] = id, !.count = @ + 1]

NeedsRehash(m) == m.low > m.count \/ m.count >= m.high

\* Load factors of 0.25 and 0.5, 0.375 when the table is built.
Resized(count) ==
  LET wanted == (count * 8) \div 3
      size == IF wanted <= MinSize THEN MinSize ELSE wanted
  IN [vector |-> [p \in 1 .. size |-> NoId],
      low |-> IF wanted <= MinSize THEN 0 ELSE wanted \div 4,
      high |-> size \div 2, count |-> 0]

Rehash(m, subs) ==
  IF ~NeedsRehash(m) THEN m
  ELSE FoldLeft(LAMBDA n, id : IF id = NoId THEN n ELSE InsertInternal(n, TopicOf(subs, id), id),
                Resized(m.count), m.vector)

InsertId(m, subs, t, id) == InsertInternal(Rehash(m, subs), t, id)

\* Mutant: forgets that the range can wrap around the end of the vector.
StaysRegular(p, q, x) == p < x /\ x <= q
\* May the entry at position q, whose best position is x, stay behind a gap at p?
Stays(p, q, x) == IF p <= q THEN p < x /\ x <= q ELSE p < x \/ x <= q

\* The loop that closes the gap at p, up to the next gap.
Closed(m, subs, p) ==
  FoldLeft(LAMBDA g, k :
             LET q == (p + k) % Size(m)
                 id == g.vector[q + 1]
             IN IF g.done \/ id = NoId THEN [g EXCEPT !.done = TRUE]
                ELSE IF Stays(g.gap, q, FindOptimalPosition(m, TopicOf(subs, id))) THEN g
                ELSE [g EXCEPT !.vector[g.gap + 1] = id, !.vector[q + 1] = NoId, !.gap = q],
           [vector |-> [m.vector EXCEPT ![p + 1] = NoId], gap |-> p, done |-> FALSE],
           [k \in 1 .. Size(m) - 1 |-> k]).vector

RemoveId(m, subs, t, id) ==
  LET start == FindOptimalPosition(m, t)
      ends == {k \in 0 .. Size(m) - 1 : At(m, Probe(m, start, k)) \in {NoId, id}}
      p == Probe(m, start, Min(ends))
  IN IF ends = {} \/ At(m, p) # id THEN m
     ELSE Rehash([m EXCEPT !.vector = Closed(m, subs, p), !.count = @ - 1], subs)

----------------------------------------------------------------------------
(* An upstream subscription has the application's own observer, or a       *)
(* TailCollapsingObserver with the observers of several handles (down).    *)

Own(id, t) == [topic |-> t, collapsing |-> FALSE, known |-> FALSE, down |-> {id}]

\* Whom an update on the upstream subscription reaches (OnMessageReceived, OnDataLoss).
Recipients(u) == upstream[u].down

With(f, x, y) == [z \in DOMAIN f \cup {x} |-> IF z = x THEN y ELSE f[z]]
Without(f, S) == Restrict(f, DOMAIN f \ S)

Init ==
  /\ index = EmptyIndex /\ upstream = <<>> /\ remap = <<>>
  /\ healthy = TRUE /\ changes = 0 /\ started = 0 /\ held = {} /\ believes = <<>>

\* A subscription on a topic that has one is added to its observer ...
Share(id, u) ==
  /\ upstream' = [upstream EXCEPT ![u].collapsing = TRUE, ![u].known = TRUE, ![u].down = @ \cup {id}]
  /\ remap' = With(remap, id, u)
  /\ believes' = With(believes, id, upstream[u].topic)
  /\ UNCHANGED index

\* ... and otherwise passed on; above its limit the Subscriber tells the observer and drops it.
Start(id, t) ==
  /\ index' = InsertId(index, upstream, t, id)
  /\ IF Cardinality(DOMAIN upstream) >= MaxActive THEN UNCHANGED <<upstream, believes>>
     ELSE upstream' = With(upstream, id, Own(id, t)) /\ believes' = With(believes, id, t)
  /\ UNCHANGED remap

StartSubscription(t) ==
  /\ started < MaxIds
  /\ started' = started + 1 /\ held' = held \cup {started'}
  /\ LET u == Find(index, upstream, t)
     IN IF u \in DOMAIN upstream THEN Share(started', u) ELSE Start(started', t)
  /\ UNCHANGED <<healthy, changes>>

\* TailCollapsingObserver::OnSubscriptionStatusChange: all that is kept of u is dropped.
IndexAfterStatus(m, u) ==
  IF upstream[u].collapsing THEN RemoveId(m, upstream, upstream[u].topic, u) ELSE m
RemapAfterStatus(r, u) == IF upstream[u].collapsing THEN Without(r, upstream[u].down) ELSE r

\* Subscriber::TerminateSubscription, with the tables m and r: the observers are told.
End(u, m, r) ==
  /\ upstream' = Without(upstream, {u})
  /\ believes' = Without(believes, upstream[u].down)
  /\ IF upstream' = <<>> THEN index' = EmptyIndex /\ remap' = <<>>   \* the shard's subscriber goes
     ELSE index' = IndexAfterStatus(m, u) /\ remap' = RemapAfterStatus(r, u)

\* A handle is unsubscribed once, possibly after the server ended the subscription.
TerminateSubscription(id) ==
  /\ held' = held \ {id}
  /\ LET u == IF id \in DOMAIN remap THEN remap[id] ELSE id
         r == Without(remap, {id})
     IN CASE u \notin DOMAIN upstream ->
               /\ IF upstream = <<>> THEN index' = EmptyIndex /\ remap' = <<>>
                  ELSE remap' = r /\ UNCHANGED index
               /\ believes' = Without(believes, {id}) /\ UNCHANGED upstream
          [] u \in DOMAIN upstream /\ ~upstream[u].known ->
               End(u, RemoveId(index, upstream, upstream[u].topic, u), r)
          [] u \in DOMAIN upstream /\ upstream[u].known /\ Cardinality(upstream[u].down) > 1 ->
               /\ upstream' = [upstream EXCEPT ![u].down = @ \ {id}]
               /\ remap' = r /\ believes' = Without(believes, {id}) /\ UNCHANGED index
          [] OTHER -> End(u, index, r)
  /\ UNCHANGED <<healthy, changes, started>>

\* The server ends the subscription: the Subscriber tells its observer.
ReceiveTerminate(u) ==
  /\ upstream' = Without(upstream, {u})
  /\ believes' = Without(believes, upstream[u].down)
  /\ index' = IndexAfterStatus(index, u) /\ remap' = RemapAfterStatus(remap, u)
  /\ UNCHANGED <<healthy, changes, started, held>>

\* Subscriber::NotifyHealthy tells every observer; a TailCollapsingObserver takes any status
\* for the end of the subscription.
NotifyHealthy ==
  /\ changes < MaxHealth
  /\ changes' = changes + 1 /\ healthy' = ~healthy
  /\ IF ShouldNotifyHealth
     THEN /\ upstream' = [u \in DOMAIN upstream |-> [upstream[u] EXCEPT !.known = FALSE]]
          /\ index' = FoldSet(LAMBDA u, m : IndexAfterStatus(m, u), index, DOMAIN upstream)
          /\ remap' = FoldSet(LAMBDA u, r : RemapAfterStatus(r, u), remap, DOMAIN upstream)
     ELSE UNCHANGED <<upstream, index, remap>>
  /\ UNCHANGED <<started, held, believes>>

Next ==
  \/ \E t \in Topics : StartSubscription(t)
  \/ \E id \in held : TerminateSubscription(id)
  \/ \E u \in DOMAIN upstream : ReceiveTerminate(u)
  \/ NotifyHealthy

Spec == Init /\ [][Next]_vars

----------------------------------------------------------------------------
Entries == {p \in DOMAIN index.vector : index.vector[p] # NoId}

\* Type invariant of the table of topics, the upstream subscriptions and the handles.
TypeInv ==
  /\ index.vector \in Seq(0 .. MaxIds) /\ {index.low, index.high, index.count} \subseteq Nat
  /\ DOMAIN upstream \subseteq 1 .. MaxIds
  /\ \A u \in DOMAIN upstream : upstream[u].topic \in Topics /\ upstream[u].down \subseteq 1 .. MaxIds
  /\ DOMAIN remap \subseteq 1 .. MaxIds /\ held \subseteq 1 .. MaxIds

\* Every upstream subscription is found by its topic, however the table was rehashed and its
\* gaps were closed; two of them are therefore never on one topic (topic_subscription_map.cc,
\* "no element which is separated by a gap from its optimal position").
Indexed == \A u \in DOMAIN upstream : Find(index, upstream, upstream[u].topic) = u

\* An update of a topic reaches exactly the handles that the application subscribed to it and
\* that it neither unsubscribed nor was told the end of, each once.
Served ==
  /\ \A id \in DOMAIN believes :
       \E u \in DOMAIN upstream : id \in Recipients(u) /\ upstream[u].topic = believes[id]
  /\ \A u \in DOMAIN upstream : Recipients(u) # {} /\ Recipients(u) \subseteq DOMAIN believes
  /\ \A u, v \in DOMAIN upstream : u # v => Recipients(u) \cap Recipients(v) = {}

\* A redirected handle leads to a live, multiplexed subscription that serves it
\* (RS_ASSERT(upstream_id == downstream_id) in TerminateSubscription).
Redirected ==
  \A d \in DOMAIN remap : /\ remap[d] \in DOMAIN upstream
                          /\ upstream[remap[d]].known /\ d \in Recipients(remap[d])

\* The assertions of Rehash: the cached count is right, no id is there twice, and the table has
\* a gap for every probe to end at.
TableSound ==
  /\ index.count = Cardinality(Entries)
  /\ \A p, q \in Entries : p # q => index.vector[p] # index.vector[q]
  /\ Size(index) > 0 => index.low <= index.count /\ index.count <= index.high /\ index.high < Size(index)

\* With health notifications off, collapsing is invisible to the application.
CollapsingSafe == TypeInv /\ Indexed /\ Served /\ Redirected /\ TableSound
=============================================================================
