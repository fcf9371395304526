--------------------------- MODULE CopilotWorker ---------------------------
(***************************************************************************)
(* copilot/worker.cc for one topic: the client subscriptions with their    *)
(* cursors, the subscriptions the worker holds at the control towers on    *)
(* their behalf, the search for the tail, the resubscribe request left by  *)
(* a lost tower stream, the periodic check of the towers and the router.   *)
(*                                                                         *)
(* The control towers are the environment and keep the promise TopicFeed:  *)
(* a tower subscription is a cursor over the log, and each message covers  *)
(* it.  A message counts as sent when the worker handles it; messages of a *)
(* tower subscription that sub_to_topic_ no longer knows are dropped on    *)
(* arrival, so they need no state of their own.                            *)
(*                                                                         *)
(* Queue::Write returning FALSE means "written, but back off" (flow.h) and *)
(* the worker reads it as "not written"; MaxFull bounds how often it does. *)
(***************************************************************************)
EXTENDS Integers, Sequences, FiniteSets, FiniteSetsExt

CONSTANTS Subs,        \* client subscriptions: (stream, subscription ID)
          Owner,       \* the client stream of each
          Hosts,       \* control towers
          Routes,      \* the sets of towers a router may assign to the log
          Starts,      \* sequence numbers clients subscribe from, 0 = tail
          Topic, Gap, NoTopic,
          MaxLog,      \* bounds: entries of the log,
          MaxSubscribes, MaxRemovals, MaxGoodbyes, MaxReroutes, MaxRejects, MaxFull

VARIABLES log,         \* log of the topic: Topic for its records, Gap for others
          subs,        \* TopicState::subscriptions; the topic is in topics_ iff not empty
          cursor,      \* Subscription::seqno
          clientSubs,  \* client_subscriptions_
          up,          \* the upstream state, see UpInit
          router,      \* towers control_tower_router_ assigns to the log
          out,         \* data and gaps sent to clients by the last handler
          used         \* how often each bounded event has happened

vars == <<log, subs, cursor, clientSubs, up, router, out, used>>

Bounds == [subscribe |-> MaxSubscribes, remove |-> MaxRemovals, goodbye |-> MaxGoodbyes,
           reroute |-> MaxReroutes, reject |-> MaxRejects, full |-> MaxFull]

\* One more event e happens and n writes find a full queue.
Spend(e, n) ==
  LET now == [x \in DOMAIN used |-> used[x] + (IF x = e THEN 1 ELSE 0) + (IF x = "full" THEN n ELSE 0)]
  IN used' = now /\ \A x \in DOMAIN now : now[x] <= Bounds[x]

\* The upstream side of the topic.  A tower subscription ID is a pair of the
\* generation it was made in and its tower.
\*   towers   TopicState::towers: id, next_seqno and the kIsAtTail flag
\*   known    IDs in sub_to_topic_
\*   feed     tower subscriptions as the towers hold them, with their position
\*   finds    unanswered FindTailSeqno requests of each tower
\*   request  the active resubscribe request, at most one
\*   checkup  the topic is in topic_checkup_list_
UpInit == [towers |-> {}, known |-> {}, feed |-> {}, finds |-> [h \in Hosts |-> 0],
           request |-> {}, checkup |-> FALSE, gen |-> 0]

Init ==
  /\ log = <<>> /\ subs = {} /\ cursor = [s \in Subs |-> 0] /\ clientSubs = {}
  /\ up = UpInit /\ router \in Routes /\ out = {}
  /\ used = [e \in DOMAIN Bounds |-> 0]

Ids(F) == {f.id : f \in F}
Host(t) == t.id[2]

\* FindLowestSequenceNumber: the earliest known cursor, 0 if there is none.
Lowest(S, c) ==
  LET known == {c[s] : s \in S} \ {0} IN IF known = {} THEN 0 ELSE Min(known)

\* Mutant: a subscriber at the tail counts only if all are there.
HaveZeroOnly(S, c) == \A s \in S : c[s] = 0

HaveZero(S, c) == \E s \in S : c[s] = 0

\* SendUnsubscribe for the tower subscriptions T; the writes to towers in bad
\* return FALSE, so that their IDs stay in sub_to_topic_ for now and for ever.
SendUnsubscribe(w, T, bad) ==
  LET gone == {t.id : t \in {t \in T : Host(t) \notin bad}}
  IN [w EXCEPT !.known = @ \ gone, !.feed = {f \in @ : f.id \notin gone}]

\* Is tower subscription t of no use to subscribers that need n?
Unsuitable(t, n) == t.next > n \/ (t.next # 0 /\ n = 0) \/ (t.next = 0 /\ n # 0)

Schedule(w, n, zero) ==
  IF w.request = {} THEN [w EXCEPT !.request = {[seqno |-> n, zero |-> zero]}] ELSE w

\* SendSubscribe at n to each tower of ids; towers in bad serve the
\* subscription, but the worker does not remember it.
SendSubscribe(w, ids, n, bad) ==
  LET sent == {i \in ids : i[2] \notin bad}
  IN [w EXCEPT !.towers = {[id |-> i, next |-> n, tail |-> n = 0] : i \in sent},
               !.known = @ \cup sent,
               !.feed = @ \cup {[id |-> i, pos |-> n] : i \in ids},
               !.gen = @ + 1]

\* UpdateTowerSubscriptions(uuid, topic, seqno, zero, force).
UpdateTowers(w, seqno, zero, force, badU, badS) ==
  LET n == IF Cardinality(router) = 1 /\ zero THEN 0 ELSE seqno
      resub == \/ Cardinality(w.towers) < Cardinality(router)
               \/ \E t \in w.towers : Unsuitable(t, n)
               \/ force
      ids == {<<w.gen + 1, h>> : h \in router}
      w1 == IF resub THEN SendSubscribe(SendUnsubscribe(w, w.towers, badU), ids, n, badS) ELSE w
      w2 == IF zero /\ n # 0
              THEN [w1 EXCEPT !.finds = [h \in Hosts |-> IF h \in router THEN @[h] + 1 ELSE @[h]]]
              ELSE w1
  IN IF Cardinality(w2.towers) < Cardinality(router) THEN Schedule(w2, n, zero)
     ELSE [w2 EXCEPT !.checkup = @ \/ resub]

\* UpdateTowerSubscriptions(uuid, topic, force) for subscriptions S at c.
Refresh(w, S, c, force, badU, badS) ==
  UpdateTowers(w, Lowest(S, c), HaveZero(S, c), force, badU, badS)

\* Some writes of a handler find a full queue: those to towers (Unsubscribe
\* and Subscribe apart) and those to clients.
Writes(e, badU, badS, badC) == Spend(e, Cardinality(badU) + Cardinality(badS) + Cardinality(badC))

------------------------------------------------------------------------------

\* A client subscribes, or moves its subscription.  At the tail, a tower
\* subscription that is known to be there lends its position.
ProcessSubscribe(s, start, badU, badS) ==
  LET atTail == {t \in up.towers : t.tail /\ t.next # 0} IN
  /\ clientSubs' = clientSubs \cup {s}
  /\ subs' = subs \cup {s}
  /\ \/ /\ start = 0 /\ atTail # {}
        /\ badU = {} /\ badS = {}
        /\ \E t \in atTail :
             /\ cursor' = [cursor EXCEPT ![s] = t.next]
             /\ out' = {[sub |-> s, kind |-> "gap", prev |-> 0, seqno |-> t.next - 1]}
        /\ up' = up
     \/ /\ start # 0 \/ atTail = {}
        /\ cursor' = [cursor EXCEPT ![s] = start]
        /\ out' = {}
        /\ up' = Refresh(up, subs', cursor', FALSE, badU, badS)
  /\ Writes("subscribe", badU, badS, {})
  /\ UNCHANGED <<log, router>>

\* Mutant: the topic stays in the lists.
EraseTopicListed(bad) == [SendUnsubscribe(up, up.towers, bad) EXCEPT !.towers = {}]

\* The last subscription of the topic goes, and the topic with it.
EraseTopic(bad) ==
  [SendUnsubscribe(up, up.towers, bad) EXCEPT !.towers = {}, !.request = {}, !.checkup = FALSE]

\* RemoveSubscription for the subscriptions G, found in client_subscriptions_.
RemoveSubscriptions(G, bad) ==
  /\ clientSubs' = clientSubs \ G
  /\ subs' = subs \ G
  /\ cursor' = [s \in Subs |-> IF s \in G THEN 0 ELSE cursor[s]]
  /\ IF subs # {} /\ subs' = {} THEN up' = EraseTopic(bad) ELSE up' = up /\ bad = {}
  /\ out' = {}
  /\ UNCHANGED <<log, router>>

\* A client unsubscribes, or its entry could not be written to the rollcall.
ProcessUnsubscribe(s, bad) ==
  /\ s \in clientSubs
  /\ RemoveSubscriptions({s}, bad)
  /\ Writes("remove", bad, {}, {})

\* A client's stream closes: everything it subscribed to goes.
ProcessGoodbyeClient(c, bad) ==
  LET G == {s \in clientSubs : Owner[s] = c} IN
  /\ G # {}
  /\ RemoveSubscriptions(G, bad)
  /\ Writes("remove", bad, {}, {})

\* A tower rejects the topic: its clients are told, client_subscriptions_ is not.
HandleInvalidSubscription(f, bad) ==
  /\ f.id \in up.known /\ subs # {}
  /\ subs' = {} /\ cursor' = [s \in Subs |-> 0]
  /\ up' = [EraseTopic(bad) EXCEPT !.feed = @ \ {f}]
  /\ out' = {}
  /\ Writes("reject", bad, {}, {})
  /\ UNCHANGED <<log, clientSubs, router>>

\* Mutant: without the test for the past.
FitsPast(c, prev, seqno) == prev <= c /\ (prev = 0 <=> c = 0)

\* Does the message (prev, seqno) fit a cursor at c?
Fits(c, prev, seqno) == prev <= c /\ c <= seqno /\ (prev = 0 <=> c = 0)

AdvanceTowers(T, id, prev, seqno) ==
  {IF t.id = id /\ Fits(t.next, prev, seqno) THEN [t EXCEPT !.next = seqno + 1] ELSE t : t \in T}

\* The loop over the subscribers in ProcessData and ProcessGap; the cursors of
\* those in bad stay although the message is on its way.
SendAll(kind, prev, seqno, bad) ==
  LET fit == {s \in subs : Fits(cursor[s], prev, seqno)} IN
  /\ bad \subseteq fit
  /\ out' = {[sub |-> s, kind |-> kind, prev |-> prev, seqno |-> seqno] : s \in fit}
  /\ cursor' = [s \in Subs |-> IF s \in fit \ bad THEN seqno + 1 ELSE cursor[s]]

\* What the tower sends next for f: see TopicFeed!Covers.
Covers(m, pos) ==
  /\ m.prev <= pos /\ pos <= m.seqno
  /\ \A n \in m.prev .. m.seqno - 1 : log[n] # Topic
  /\ m.kind = (IF log[m.seqno] = Topic THEN "data" ELSE "gap")

\* A tower sends a record or a gap, and the worker handles it.
ProcessDeliver(f, m, badC) ==
  LET moved == [up EXCEPT !.feed = (@ \ {f}) \cup {[f EXCEPT !.pos = m.seqno + 1]}] IN
  /\ f.pos # 0 /\ Covers(m, f.pos)
  /\ IF f.id \in up.known /\ subs # {}
       THEN /\ up' = [moved EXCEPT !.towers = AdvanceTowers(@, f.id, m.prev, m.seqno)]
            /\ SendAll(m.kind, m.prev, m.seqno, badC)
       ELSE up' = moved /\ out' = {} /\ badC = {} /\ UNCHANGED cursor
  /\ Writes("none", {}, {}, badC)
  /\ UNCHANGED <<log, subs, clientSubs, router>>

\* A tower found the tail for a subscription made at 0, and says so with a gap
\* from 0; ProcessGap then reconsiders the towers.
ProcessTailGap(f, q, badU, badS, badC) ==
  LET moved == [up EXCEPT !.feed = (@ \ {f}) \cup {[f EXCEPT !.pos = q]}]
      w == [moved EXCEPT !.towers = AdvanceTowers(@, f.id, 0, q - 1)] IN
  /\ f.pos = 0
  /\ IF f.id \in up.known /\ subs # {}
       THEN /\ SendAll("gap", 0, q - 1, badC)
            /\ up' = Refresh(w, subs, cursor', FALSE, badU, badS)
       ELSE up' = moved /\ out' = {} /\ badU \cup badS \cup badC = {} /\ UNCHANGED cursor
  /\ Writes("none", badU, badS, badC)
  /\ UNCHANGED <<log, subs, clientSubs, router>>

\* Tower h answers a FindTailSeqno.
ProcessTailSeqno(h, q, badU, badS, badC) ==
  LET answered == [up EXCEPT !.finds[h] = @ - 1]
      zeros == {s \in subs : cursor[s] = 0}
      w == [answered EXCEPT !.towers =
              {IF Host(t) = h /\ t.next = 0 THEN [t EXCEPT !.next = q] ELSE t : t \in @}] IN
  /\ up.finds[h] > 0
  /\ badC \subseteq zeros
  /\ out' = {[sub |-> s, kind |-> "gap", prev |-> 0, seqno |-> q - 1] : s \in zeros}
  /\ cursor' = [s \in Subs |-> IF s \in zeros \ badC THEN q ELSE cursor[s]]
  /\ IF subs # {} THEN up' = Refresh(w, subs, cursor', FALSE, badU, badS)
                  ELSE up' = answered /\ badU \cup badS = {}
  /\ Writes("none", badU, badS, badC)
  /\ UNCHANGED <<log, subs, clientSubs, router>>

\* The stream to tower h is lost (CloseControlTowerStream): the topic waits
\* for the next tick to resubscribe.
ProcessGoodbyeServer(h) ==
  LET lost == {t \in up.towers : Host(t) = h}
      w == [up EXCEPT !.towers = @ \ lost, !.known = {i \in @ : i[2] # h},
                      !.feed = {f \in @ : Host(f) # h}, !.finds[h] = 0] IN
  /\ up.finds[h] > 0 \/ \E f \in up.feed : Host(f) = h
  /\ up' = IF lost = {} THEN w ELSE Schedule(w, Lowest(subs, cursor), HaveZero(subs, cursor))
  /\ out' = {}
  /\ Spend("goodbye", 0)
  /\ UNCHANGED <<log, subs, cursor, clientSubs, router>>

ProcessRouterUpdate ==
  /\ \E r \in Routes \ {router} : router' = r
  /\ out' = {}
  /\ Spend("reroute", 0)
  /\ UNCHANGED <<log, subs, cursor, clientSubs, up>>

\* Is there a subscription at every tower the router names?
CorrectTopicTowers(w) == \A h \in router : \E t \in w.towers : Host(t) = h

\* The resubscribe request first, with the sequence number it was made with;
\* then, if the topic is due, the check of its towers.
ProcessTimerTick(due, badU, badS) ==
  LET w == [up EXCEPT !.request = {}]
      resubscribed == IF up.request = {} THEN up
                      ELSE LET r == CHOOSE r \in up.request : TRUE
                           IN UpdateTowers(w, r.seqno, r.zero, FALSE, badU, badS)
  IN /\ up.request # {} \/ due
     /\ due => up.checkup
     /\ up' = IF due /\ ~CorrectTopicTowers(resubscribed)
                THEN Refresh(resubscribed, subs, cursor, TRUE, badU, badS) ELSE resubscribed
     /\ out' = {}
     /\ Writes("none", badU, badS, {})
     /\ UNCHANGED <<log, subs, cursor, clientSubs, router>>

\* The log grows.
AppendEntry ==
  /\ Len(log) < MaxLog
  /\ \E e \in {Topic, Gap} : log' = Append(log, e)
  /\ out' = {}
  /\ UNCHANGED <<subs, cursor, clientSubs, up, router, used>>

\* A tower gets to the Unsubscribe that was left in a full queue.
LateUnsubscribe(f) ==
  /\ f.id \in up.known /\ f.id \notin Ids(up.towers)
  /\ up' = [up EXCEPT !.feed = @ \ {f}]
  /\ out' = {}
  /\ UNCHANGED <<log, subs, cursor, clientSubs, router, used>>

Messages == [prev : 1 .. Len(log), seqno : 1 .. Len(log), kind : {"data", "gap"}]

\* Sets of towers and of clients whose queues are full.
SomeTowers == {B \in SUBSET Hosts : Cardinality(B) <= MaxFull}
SomeSubs == {B \in SUBSET subs : Cardinality(B) <= MaxFull}

FromTower ==
  \/ \E f \in up.feed, m \in Messages, badC \in SomeSubs : ProcessDeliver(f, m, badC)
  \/ \E f \in up.feed, q \in 1 .. Len(log) + 1, badU, badS \in SomeTowers, badC \in SomeSubs :
       ProcessTailGap(f, q, badU, badS, badC)
  \/ \E h \in Hosts, q \in 1 .. Len(log) + 1, badU, badS \in SomeTowers, badC \in SomeSubs :
       ProcessTailSeqno(h, q, badU, badS, badC)
Tick(due) == \E badU, badS \in SomeTowers : ProcessTimerTick(due, badU, badS)

Next ==
  \/ AppendEntry
  \/ \E s \in Subs, start \in Starts, badU, badS \in SomeTowers : ProcessSubscribe(s, start, badU, badS)
  \/ \E s \in Subs, bad \in SomeTowers : ProcessUnsubscribe(s, bad)
  \/ \E s \in Subs, bad \in SomeTowers : ProcessGoodbyeClient(Owner[s], bad)
  \/ \E f \in up.feed, bad \in SomeTowers : HandleInvalidSubscription(f, bad)
  \/ FromTower
  \/ \E h \in Hosts : ProcessGoodbyeServer(h)
  \/ ProcessRouterUpdate
  \/ \E due \in BOOLEAN : Tick(due)
  \/ \E f \in up.feed : LateUnsubscribe(f)

Spec == Init /\ [][Next]_vars

\* Towers keep sending what they have, answer requests for the tail, and the
\* timer keeps ticking; nobody has to subscribe, publish, fail or reroute.
Fairness == WF_vars(FromTower) /\ WF_vars(Tick(FALSE)) /\ WF_vars(Tick(TRUE))

------------------------------------------------------------------------------

\* Type invariant: cursors, tower subscriptions and their feeds, the request of the topic.
TypeInv ==
  /\ log \in Seq({Topic, Gap}) /\ Len(log) <= MaxLog
  /\ subs \subseteq Subs /\ clientSubs \subseteq Subs /\ subs \subseteq clientSubs
  /\ cursor \in [Subs -> Nat] /\ router \in Routes
  /\ \A t \in up.towers : t.id \in (1 .. up.gen) \X Hosts /\ t.next \in Nat /\ t.tail \in BOOLEAN
  /\ \A f \in up.feed : f.id \in (1 .. up.gen) \X Hosts /\ f.pos \in Nat
  /\ up.known \subseteq (1 .. up.gen) \X Hosts
  /\ up.finds \in [Hosts -> Nat] /\ Cardinality(up.request) <= 1

\* sub_to_topic_ and TopicState::towers name the same tower subscriptions, and
\* the towers hold them and no others: none leaks at a tower and none is
\* believed to exist that does not.
TowerSubsMatch == up.known = Ids(up.towers) /\ up.known = Ids(up.feed)

\* Even when queues are full: the towers the worker counts on do serve the
\* topic, and their messages are recognised.
TowersKnown == Ids(up.towers) \subseteq up.known \cap Ids(up.feed)

\* The assertion of ProcessTimerTick: a resubscribe request has a topic; and a
\* topic without subscribers holds nothing upstream.
RequestHasTopic == subs = {} => up.request = {} /\ up.towers = {} /\ ~up.checkup

\* No tower subscription has run past a subscriber: what is still to come for
\* a subscriber, comes from every tower.
NoneOvertaken ==
  \A t \in up.towers, s \in subs : t.next # 0 /\ cursor[s] # 0 => t.next <= cursor[s]

\* A subscriber at the tail has a search for the tail going on, or a request
\* that will start one.
TailSearched ==
  HaveZero(subs, cursor) =>
    \/ \E t \in up.towers : t.next = 0
    \/ \E h \in Hosts : up.finds[h] > 0
    \/ up.request # {}

\* What the handlers of the worker keep together; the agreement with the towers
\* only while no Write returned FALSE (worker.cc:834 takes it for a failure).
CopilotSafe ==
  /\ TypeInv /\ TowersKnown /\ RequestHasTopic
  /\ used.full = 0 => TowerSubsMatch /\ NoneOvertaken /\ TailSearched

\* A subscriber is sent every record from its cursor on.
SubscriberServed ==
  Fairness => \A s \in Subs, n \in 1 .. MaxLog :
    (s \in subs /\ cursor[s] <= n /\ n <= Len(log) /\ log[n] = Topic)
      ~> (s \notin subs \/ cursor[s] > n)
=============================================================================
