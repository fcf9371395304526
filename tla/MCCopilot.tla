----------------------------- MODULE MCCopilot -----------------------------
(***************************************************************************)
(* The copilot worker for TLC, in situations that a behaviour chooses one  *)
(* of: one tower ("one"), two ("two"), a tower stream that is lost         *)
(* ("failover"), full queues ("full"), and for liveness a tail search      *)
(* ("tail"), a lost stream ("lost") and a router that moves the log        *)
(* ("reroute").  In the other parts the whole copilot: a rollcall that     *)
(* fails ("rollcall"), two topics and a lost tower stream ("topics"),      *)
(* a topic that is refused ("refused"), a log that moves ("moved") and one *)
(* that gets a second tower ("second").                                    *)
(***************************************************************************)
EXTENDS Integers, Sequences, TLC

CONSTANTS Parts, a, b, T1, T2, Topic, Gap, NoTopic

VARIABLES part,
          log, subs, cursor, clientSubs, up, router, out, used,                             \* CopilotWorker
          subIds, fromClients, fromTowers, updates, errors, worker, tower, rollcall,        \* Copilot
          closed, asked, believes, version, spent

vars == <<log, subs, cursor, clientSubs, up, router, out, used>>
meshVars == <<subIds, fromClients, fromTowers, updates, errors, worker, tower, rollcall,
              closed, asked, believes, version, spent>>

Subs == {a, b}
Owner == [s \in Subs |-> s]
Hosts == {T1, T2}

One == INSTANCE CopilotWorker WITH
  Routes <- {{T1}}, Starts <- {0, 1, 3}, MaxLog <- 3, MaxSubscribes <- 3,
  MaxRemovals <- 1, MaxGoodbyes <- 0, MaxReroutes <- 0, MaxRejects <- 1, MaxFull <- 0
Two == INSTANCE CopilotWorker WITH
  Routes <- {{T1, T2}}, Starts <- {0, 1, 2}, MaxLog <- 2, MaxSubscribes <- 2,
  MaxRemovals <- 1, MaxGoodbyes <- 0, MaxReroutes <- 0, MaxRejects <- 0, MaxFull <- 0
Failover == INSTANCE CopilotWorker WITH
  Routes <- {{T1, T2}}, Starts <- {1, 2}, MaxLog <- 2, MaxSubscribes <- 3,
  MaxRemovals <- 1, MaxGoodbyes <- 1, MaxReroutes <- 0, MaxRejects <- 0, MaxFull <- 0
Full == INSTANCE CopilotWorker WITH
  Hosts <- {T1}, Routes <- {{T1}}, Starts <- {0, 1}, MaxLog <- 1, MaxSubscribes <- 2,
  MaxRemovals <- 1, MaxGoodbyes <- 0, MaxReroutes <- 0, MaxRejects <- 0, MaxFull <- 2
AtTail == INSTANCE CopilotWorker WITH
  Routes <- {{T1}}, Starts <- {0, 1}, MaxLog <- 2, MaxSubscribes <- 2,
  MaxRemovals <- 1, MaxGoodbyes <- 0, MaxReroutes <- 0, MaxRejects <- 0, MaxFull <- 0
Lost == INSTANCE CopilotWorker WITH
  Routes <- {{T1}}, Starts <- {1, 2}, MaxLog <- 2, MaxSubscribes <- 3,
  MaxRemovals <- 1, MaxGoodbyes <- 1, MaxReroutes <- 0, MaxRejects <- 0, MaxFull <- 0
Reroute == INSTANCE CopilotWorker WITH
  Routes <- {{T1}, {T2}, {T1, T2}}, Starts <- {0, 1}, MaxLog <- 2, MaxSubscribes <- 2,
  MaxRemovals <- 0, MaxGoodbyes <- 0, MaxReroutes <- 1, MaxRejects <- 0, MaxFull <- 0

\* What is fair, and what is due, in each of the parts for liveness.
Live == INSTANCE CopilotWorker WITH
  Routes <- {{T1}}, Starts <- {0}, MaxLog <- 2, MaxSubscribes <- 3,
  MaxRemovals <- 1, MaxGoodbyes <- 1, MaxReroutes <- 1, MaxRejects <- 1, MaxFull <- 0

\* Two workers; streams of clients are pairs whose first member is no worker.
Streams == <<<<2, 0>>, <<2, 1>>, <<2, 0>>>>
Loops == <<2, 0>> :> 0 @@ <<2, 1>> :> 1
Logs == 0 :> 0 @@ 1 :> 1
Failing == INSTANCE Copilot WITH
  N <- 2, Subs <- {1, 2}, Stream <- Streams, Topic <- <<0, 0, 1>>, Loop <- Loops, Log <- Logs,
  Hash <- <<0, 1>>, Connections <- 2, Routes <- <<{1}>>, Rollcall <- TRUE, used <- spent,
  MaxDelivers <- 0, MaxRejects <- 0, MaxLosses <- 0, MaxResubs <- 0, MaxFails <- 1
TwoTopics == INSTANCE Copilot WITH
  N <- 2, Subs <- {1, 3}, Stream <- Streams, Topic <- <<0, 0, 1>>, Loop <- Loops, Log <- Logs,
  Hash <- <<0, 1>>, Connections <- 2, Routes <- <<{1}>>, Rollcall <- FALSE, used <- spent,
  MaxDelivers <- 1, MaxRejects <- 0, MaxLosses <- 1, MaxResubs <- 0, MaxFails <- 0
Refused == INSTANCE Copilot WITH
  N <- 2, Subs <- {1, 2}, Stream <- Streams, Topic <- <<0, 0, 1>>, Loop <- Loops, Log <- Logs,
  Hash <- <<0, 1>>, Connections <- 2, Routes <- <<{1}>>, Rollcall <- FALSE, used <- spent,
  MaxDelivers <- 0, MaxRejects <- 1, MaxLosses <- 0, MaxResubs <- 1, MaxFails <- 0
Moved == INSTANCE Copilot WITH
  N <- 2, Subs <- {1}, Stream <- Streams, Topic <- <<0, 0, 1>>, Loop <- Loops, Log <- Logs,
  Hash <- <<0, 1>>, Connections <- 2, Routes <- <<{1}, {2}>>, Rollcall <- FALSE, used <- spent,
  MaxDelivers <- 0, MaxRejects <- 0, MaxLosses <- 1, MaxResubs <- 0, MaxFails <- 0
Second == INSTANCE Copilot WITH
  N <- 2, Subs <- {1}, Stream <- Streams, Topic <- <<0, 0, 1>>, Loop <- Loops, Log <- Logs,
  Hash <- <<0, 1>>, Connections <- 2, Routes <- <<{1}, {1, 2}>>, Rollcall <- FALSE, used <- spent,
  MaxDelivers <- 1, MaxRejects <- 0, MaxLosses <- 0, MaxResubs <- 1, MaxFails <- 0

AllInit ==
  /\ part \in Parts /\ Failing!Init
  /\ CASE part = "one" -> One!Init
       [] part = "two" -> Two!Init
       [] part = "failover" -> Failover!Init
       [] part = "tail" -> AtTail!Init
       [] part = "lost" -> Lost!Init
       [] part = "reroute" -> Reroute!Init
       [] OTHER -> Full!Init

WorkerNext ==
  \/ part = "one" /\ One!Next
  \/ part = "two" /\ Two!Next
  \/ part = "failover" /\ Failover!Next
  \/ part = "full" /\ Full!Next
  \/ part = "tail" /\ AtTail!Next
  \/ part = "lost" /\ Lost!Next
  \/ part = "reroute" /\ Reroute!Next
MeshNext ==
  \/ part = "rollcall" /\ Failing!Next
  \/ part = "topics" /\ TwoTopics!Next
  \/ part = "refused" /\ Refused!Next
  \/ part = "moved" /\ Moved!Next
  \/ part = "second" /\ Second!Next

AllNext ==
  /\ UNCHANGED part
  /\ \/ WorkerNext /\ UNCHANGED meshVars
     \/ MeshNext /\ UNCHANGED vars

AllSpec == AllInit /\ [][AllNext]_<<part, vars, meshVars>>

\* The tables of a worker agree with each other: tower subscriptions are known by their IDs, a
\* topic without all its towers is due for another attempt, one whose subscribers wait for the
\* tail has a search under way, and no subscriber is overtaken by the towers that serve it
\* (CopilotWorker; worker.cc UpdateTowerSubscriptions).
CopilotSafe ==
  /\ part = "one" => One!CopilotSafe
  /\ part = "two" => Two!CopilotSafe
  /\ part = "failover" => Failover!CopilotSafe
  /\ part = "full" => Full!CopilotSafe
  /\ part = "tail" => AtTail!CopilotSafe
  /\ part = "lost" => Lost!CopilotSafe
  /\ part = "reroute" => Reroute!CopilotSafe

Feed == INSTANCE TopicFeed WITH
  Topics <- {Topic}, requests <- used.subscribe,
  topic <- [s \in Subs |-> IF s \in subs THEN Topic ELSE NoTopic]

\* The worker keeps for its clients the promise the towers make to it (worker.cc:232),
\* as long as it does not take a Write that returned FALSE for a failure.
FeedSpec == Feed!Init /\ [][part # "full" => Feed!Next]_Feed!vars

\* Clients, event loops, workers and towers agree on the subscriptions there are, whatever
\* is queued between them (Copilot; copilot.cc ProcessSubscribe, ProcessGoodbye).
MeshSafe ==
  /\ part = "rollcall" => Failing!CopilotInStep
  /\ part = "topics" => TwoTopics!CopilotInStep
  /\ part = "refused" => Refused!CopilotInStep
  /\ part = "moved" => Moved!CopilotInStep
  /\ part = "second" => Second!CopilotInStep

\* A subscriber is sent every record from its cursor on: after the search for the tail,
\* the loss of a tower stream and a change of the router (worker.cc:757, 1064).
SubscriberServed == Live!SubscriberServed
=============================================================================
