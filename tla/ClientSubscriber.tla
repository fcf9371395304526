-------------------------- MODULE ClientSubscriber --------------------------
(***************************************************************************)
(* client/single_shard_subscriber.cc and client/resilient_receiver.cc: the *)
(* subscriptions of an application on one shard, over the replicated map   *)
(* of SubscriptionsMap.  The receiver opens the stream to the host of the  *)
(* shard, reopens it after a backoff when it is lost, and reports bad      *)
(* health after max_silent_reconnects failures in a row; the subscriber    *)
(* counts its subscriptions, tells the observers, and keeps the            *)
(* acknowledged sequence numbers that SaveState persists.                  *)
(*                                                                         *)
(* Every action of the map that a message, a call or a timer causes        *)
(* happens here inside the handler that causes it.                         *)
(***************************************************************************)
EXTENDS SubscriptionsMap, FiniteSets

CONSTANTS Hosts, NoHost,
          MaxActive,   \* max_active_subscriptions_
          MaxSilent,   \* max_silent_reconnects_
          MaxFailures, \* bounds: failures in a row,
          MaxRoutes,   \* changes of the host of the shard,
          MaxAcks      \* acknowledgements

ASSUME LimitsAssumption == MaxActive \in Nat /\ MaxSilent \in Nat /\ MaxFailures \in Nat

VARIABLES host,      \* current_host_
          timer,     \* backoff_timer_ is set
          failures,  \* sequential_conn_failures_
          healthy,   \* currently_healthy_
          told,      \* last status each observer was told
          active,    \* num_active_subscriptions_
          acked,     \* last_acks_map_
          given,     \* records passed to each observer
          routes, ackCount

receiverVars == <<host, timer, failures, routes>>
userVars == <<active, acked, given, ackCount>>
subscriberVars == <<subscriptionVars, receiverVars, healthy, told, userVars>>

\* What the observers have been told after NotifyHealthy(h): a change of
\* health goes to every subscription of the map.
ToldHealth(h) ==
  IF h = healthy THEN told
  ELSE [i \in Ids |-> IF i \in Active THEN (IF h THEN "ok" ELSE "unhealthy") ELSE told[i]]

NotifyHealthy(h) == healthy' = h /\ told' = ToldHealth(h)

\* UpdateConnectionState(false)
ConnectionFailed ==
  /\ failures < MaxFailures /\ failures' = failures + 1
  /\ IF failures' = MaxSilent + 1 THEN NotifyHealthy(FALSE) ELSE UNCHANGED <<healthy, told>>

UserInit ==
  /\ host = NoHost /\ timer = FALSE /\ failures = 0 /\ routes = 0 /\ healthy = TRUE
  /\ told = [i \in Ids |-> "nothing"] /\ active = 0 /\ acked = [i \in Ids |-> 0]
  /\ given = [i \in Ids |-> {}] /\ ackCount = 0

SubscriberInit == MapInit /\ UserInit

------------------------------------------------------------------------------
(* Calls of the application. *)

StartSubscription(id, n) ==
  /\ active < MaxActive /\ Subscribe(id, n)
  /\ told' = [told EXCEPT ![id] = IF healthy THEN "nothing" ELSE "unhealthy"]
  /\ active' = active + 1
  /\ UNCHANGED <<receiverVars, healthy, acked, given, ackCount>>

\* The limit is reached: the observer is told and destroyed.
RejectSubscription(id) ==
  /\ active >= MaxActive /\ id \in fresh
  /\ fresh' = fresh \ {id} /\ told' = [told EXCEPT ![id] = "closed"]
  /\ out' = {}
  /\ UNCHANGED <<log, pending, synced, unsubs, expected, sink, toServer, toClient, held, pos,
                 streams, rewinds, receiverVars, healthy, active, acked, given, ackCount>>

\* An application acknowledges a record it has been given.
Acknowledge(id, n) ==
  /\ id \in Active /\ n \in given[id] /\ ackCount < MaxAcks
  /\ acked' = [acked EXCEPT ![id] = n]
  /\ ackCount' = ackCount + 1 /\ out' = {}
  /\ UNCHANGED <<log, mapVars, receiverVars, healthy, told, active, given>>

\* Mutant: the observer is not told.
ReceiveTerminateUntold(id, t) ==
  /\ told' = t /\ active' = active - 1
  /\ acked' = [acked EXCEPT ![id] = 0]
  /\ given' = [given EXCEPT ![id] = {}]

\* Subscriber::ReceiveTerminate, the observers having been told t.
ReceiveTerminate(id, t) ==
  /\ told' = [t EXCEPT ![id] = "closed"] /\ active' = active - 1
  /\ acked' = [acked EXCEPT ![id] = 0]
  /\ given' = [given EXCEPT ![id] = {}]

TerminateSubscription(id) ==
  /\ Unsubscribe(id) /\ ReceiveTerminate(id, told)
  /\ UNCHANGED <<receiverVars, healthy, ackCount>>

\* SaveState: the sequence number persisted for subscription id, 0 = tail.
Saved(id) == IF acked[id] = 0 THEN 0 ELSE acked[id] + 1

------------------------------------------------------------------------------
(* ResilientStreamReceiver. *)

\* ConnectionDropped and ConnectionCreated in one handler.
Reopened ==
  /\ streams < MaxStreams /\ sink' = TRUE /\ streams' = streams + 1
  /\ pending' = Active /\ synced' = {} /\ unsubs' = {}
  /\ toServer' = <<>> /\ toClient' = <<>> /\ held' = {} /\ pos' = [i \in Ids |-> 0]
  /\ out' = {} /\ UNCHANGED <<log, fresh, expected, rewinds>>

Dropped == IF sink THEN ConnectionDropped ELSE out' = {} /\ UNCHANGED <<log, mapVars>>

\* RefreshRouting: the shard moved to h.  The stream is opened at once; if it
\* cannot be, it is tried again after a backoff.
ConnectTo(h) ==
  /\ h # host /\ routes < MaxRoutes /\ routes' = routes + 1 /\ host' = h
  /\ \/ h = NoHost /\ Dropped /\ timer' = FALSE /\ UNCHANGED <<failures, healthy, told>>
     \/ h # NoHost /\ Reopened /\ timer' = FALSE /\ UNCHANGED <<failures, healthy, told>>
     \/ h # NoHost /\ Dropped /\ timer' = TRUE /\ ConnectionFailed
  /\ UNCHANGED userVars

\* Mutant: the stream is not reopened.
ReceiveGoodbyeOnce ==
  /\ ConnectionDropped /\ ConnectionFailed
  /\ UNCHANGED <<timer, host, routes, userVars>>

\* The stream is lost.
ReceiveGoodbye ==
  /\ ConnectionDropped /\ ConnectionFailed
  /\ timer' = TRUE
  /\ UNCHANGED <<host, routes, userVars>>

\* The backoff is over: the stream is opened, or the next backoff starts.
BackoffTimer ==
  /\ timer
  /\ \/ timer' = FALSE /\ ConnectionCreated /\ UNCHANGED <<failures, healthy, told>>
     \/ timer' = TRUE /\ ConnectionFailed /\ out' = {} /\ UNCHANGED <<log, mapVars>>
  /\ UNCHANGED <<host, routes, userVars>>

\* A message of the server: the connection is healthy, and the map handles it.
ReceiveMessage ==
  /\ failures' = 0 /\ UNCHANGED <<host, timer, routes, ackCount>>
  /\ \/ /\ ReceiveDeliver /\ NotifyHealthy(TRUE)
        /\ given' = [i \in Ids |-> given[i] \cup
                                 {m.seqno : m \in {x \in out' : x.id = i /\ x.kind = "data"}}]
        /\ UNCHANGED <<active, acked>>
     \/ /\ ReceiveUnsubscribe /\ healthy' = TRUE
        /\ LET id == Head(toClient).id
           IN IF id \in synced THEN ReceiveTerminate(id, ToldHealth(TRUE))
              ELSE told' = ToldHealth(TRUE) /\ UNCHANGED <<active, acked, given>>

ServerStep ==
  /\ \/ AppendEntry \/ ServerReceive
     \/ \E id \in Ids : ServerDeliver(id) \/ ServerFoundTail(id) \/ ServerTerminate(id)
  /\ UNCHANGED <<receiverVars, healthy, told, userVars>>

Drain(id) ==
  /\ HandlePendingSubscription(id) \/ HandlePendingUnsubscription(id)
  /\ UNCHANGED <<receiverVars, healthy, told, userVars>>

SubscriberNext ==
  \/ \E id \in Ids, n \in Starts : StartSubscription(id, n)
  \/ \E id \in Ids : RejectSubscription(id) \/ TerminateSubscription(id) \/ Drain(id)
  \/ \E id \in Ids, n \in 1 .. MaxLog : Acknowledge(id, n)
  \/ \E h \in Hosts \cup {NoHost} : ConnectTo(h)
  \/ ReceiveGoodbye \/ BackoffTimer \/ ReceiveMessage \/ ServerStep

SubscriberSpec == SubscriberInit /\ [][SubscriberNext]_subscriberVars

\* The event loop runs the sources, the callbacks of the stream and the
\* timers, and the server handles its input and looks for the tail.
SubscriberFairness ==
  /\ WF_subscriberVars(ReceiveMessage) /\ WF_subscriberVars(BackoffTimer)
  /\ WF_subscriberVars(ServerReceive /\ ServerStep)
  /\ \A id \in Ids :
       /\ WF_subscriberVars(Drain(id) /\ id \in pending)
       /\ WF_subscriberVars(Drain(id) /\ id \in unsubs)
       /\ WF_subscriberVars(ServerStep /\ (ServerFoundTail(id) \/ ServerDeliver(id)))

------------------------------------------------------------------------------
(* Properties. *)

\* Host, timer, failure count, health and the observers' status have their types.
SubscriberTypeInv ==
  /\ MapTypeInv
  /\ host \in Hosts \cup {NoHost} /\ timer \in BOOLEAN /\ failures \in 0 .. MaxFailures
  /\ healthy \in BOOLEAN /\ told \in [Ids -> {"nothing", "ok", "unhealthy", "closed"}]
  /\ active \in 0 .. MaxActive /\ acked \in [Ids -> Nat]

\* num_active_subscriptions_ counts the subscriptions of the map, whoever ends
\* them, the application or the server; it never exceeds the limit of
\* StartSubscription nor goes below zero, which would abort.
ActiveCounted == active = Cardinality(Active) /\ active \in 0 .. MaxActive

\* The receiver is never stranded: it has a stream, or a timer to open one, or
\* knows no host; and never a stream and a timer, which would open a second.
NeverStranded == /\ ~sink => (timer <=> host # NoHost)
                 /\ sink => ~timer /\ host # NoHost

\* Every open subscription has been told the present health of its shard,
\* also one started while the shard is unhealthy.
HealthTold == \A id \in Active : told[id] = "unhealthy" <=> ~healthy

\* The shard is reported unhealthy only after more than max_silent_reconnects
\* failures in a row, and from then on until a message arrives.
UnhealthyAfterFailures == ~healthy <=> failures > MaxSilent

\* An observer hears that its subscription is closed exactly when it is: the
\* application is told of every end, and nothing reaches it after that.
ClosedTold == \A id \in Ids : told[id] = "closed" <=> id \notin fresh \cup Active

\* Restoring the saved state never skips a record the application was not
\* given, nor repeats the one acknowledged last.
SavedFits ==
  \A id \in Active : acked[id] # 0 => acked[id] < Saved(id) /\ Saved(id) <= expected[id]

\* What the subscriber, the receiver and the map keep together.
SubscriberSafe ==
  /\ SubscriberTypeInv /\ ActiveCounted /\ NeverStranded /\ HealthTold
  /\ UnhealthyAfterFailures /\ ClosedTold /\ SavedFits

\* A subscription of a shard with a host is in the end served by the server or
\* closed, however often the stream was lost or could not be opened; and one
\* the application gave up is in the end forgotten by the server.
EventuallyServed ==
  SubscriberFairness =>
    \A id \in Ids :
      /\ id \in pending ~>
           (pos[id] # 0 \/ id \notin Active \/ host = NoHost \/ (~sink /\ streams = MaxStreams))
      /\ (id \in held /\ id \notin Active) ~> id \notin held
=============================================================================
