------------------------------ MODULE MCClient ------------------------------
(***************************************************************************)
(* The client library for TLC, one part of it in every behaviour: the      *)
(* subscriber with its receiver and its map ("subscriber"), publishing     *)
(* ("publish"), subscription ids ("subids") and stream ids ("ids"), the    *)
(* API over the threads of the client ("limits", "saves") and collapsing   *)
(* of subscriptions on one topic ("collapsing").                           *)
(***************************************************************************)
EXTENDS ClientSubscriber

CONSTANT Parts

VARIABLES part,
          calls, commands, stream, opened, broken, sent, timeouts, results, noPilot, \* Publishing
          link, back, closures, appends, responses, records,
          seeds, subIds, allocs, loop, streamIds, earlier, mapping,                  \* Identifiers
          issued, at, meta, cmds, swap, shards, live, nulled, observer, ended, unsubbed,  \* ClientFacade
          ackedOnce, save, file, phase,
          index, upstream, remap, up, changes, started, handles, believes            \* TailCollapsing

hostVars == <<receiverVars, healthy, told, userVars>>
pubVars == <<calls, commands, stream, opened, broken, sent, timeouts, results, noPilot, link, back,
             closures, appends, responses, records>>
seedVars == <<seeds, subIds>>
allocVars == <<allocs, loop, streamIds, earlier, mapping>>
facadeVars == <<issued, at, meta, cmds, swap, shards, live, nulled, observer, ended, unsubbed,
                ackedOnce, save, file, phase>>
collapsingVars == <<index, upstream, remap, up, changes, started, handles, believes>>
restVars == <<facadeVars, collapsingVars>>
clientVars == <<subscriptionVars, hostVars, pubVars, seedVars, allocVars>>

Pub == INSTANCE Publishing WITH
  Publishes <- {1, 2, 3}, MsgId <- <<1, 2, 3>>, Callback <- {1, 2}, MaxStreams <- 2, MaxNoPilot <- 1,
  log <- records
\* Shards whose varints have one, two and three bytes; counters that shards and workers share.
SharedSlot(shard, worker) == IF shard = 0 /\ worker = 0 THEN 1 ELSE 2
Names == INSTANCE Identifiers WITH
  ByteBits <- 3, Bytes16 <- 2, Bytes32 <- 2, Bytes64 <- 3, Shards <- {0, 4, 16}, NumWorkers <- 2,
  Allocators <- {1, 2}, Slot <- SharedSlot, MaxSeed <- 8, Bits <- 3, MaxAllocs <- 4, MaxGiven <- 8
Limits == INSTANCE ClientFacade WITH
  W <- 2, Shards <- {0, 1}, MaxSubs <- 1, QueueSize <- 1, CmdSize <- 1, MaxHandles <- 2, MaxSaves <- 0,
  MaxSeqno <- 1, told <- ended, acked <- ackedOnce
SavesTwice == INSTANCE ClientFacade WITH
  W <- 2, Shards <- {0}, MaxSubs <- 3, QueueSize <- 1, CmdSize <- 1, MaxHandles <- 1, MaxSaves <- 2,
  MaxSeqno <- 1, told <- ended, acked <- ackedOnce
\* Topics whose best positions collide, with and without the wrap around the end of the table.
TopicHash == [t \in 0 .. 4 |-> <<4, 5, 5, 0, 11>>[t + 1]]
Collapsing == INSTANCE TailCollapsing WITH
  Topics <- 1 .. 4, Hash <- TopicHash, MinSize <- 6, MaxActive <- 4, ShouldNotifyHealth <- FALSE,
  MaxIds <- 4, MaxHealth <- 1, healthy <- up, held <- handles

AllInit ==
  /\ part \in Parts
  /\ SubscriberInit
  /\ Pub!Init /\ Names!SubInit /\ Names!StreamInit /\ Collapsing!Init
  /\ \/ part = "saves" /\ SavesTwice!Init
     \/ part # "saves" /\ Limits!Init

AllNext ==
  /\ UNCHANGED part
  /\ \/ part = "subscriber" /\ SubscriberNext /\ UNCHANGED <<pubVars, seedVars, allocVars, restVars>>
     \/ part = "publish" /\ Pub!Next /\ UNCHANGED <<subscriptionVars, hostVars, seedVars, allocVars, restVars>>
     \/ part = "subids" /\ Names!SubNext /\ UNCHANGED <<subscriptionVars, hostVars, pubVars, allocVars, restVars>>
     \/ part = "ids" /\ Names!StreamNext /\ UNCHANGED <<subscriptionVars, hostVars, pubVars, seedVars, restVars>>
     \/ part = "limits" /\ Limits!Next /\ UNCHANGED <<clientVars, collapsingVars>>
     \/ part = "saves" /\ SavesTwice!Next /\ UNCHANGED <<clientVars, collapsingVars>>
     \/ part = "collapsing" /\ Collapsing!Next /\ UNCHANGED <<clientVars, facadeVars>>

AllSpec == AllInit /\ [][AllNext]_<<part, clientVars, restVars>>

\* Every publish gets one answer, and success means that the pilot stored it, though answers
\* race timeouts and goodbyes (Publishing; publisher.cc).
PublishSafe == part = "publish" => Pub!PublishSafe
\* The shards and threads of a client together keep its limit, and SaveSubscriptions answers
\* once, with what every thread had (ClientFacade; multi_threaded_subscriber.cc, client.cc).
FacadeSafe == /\ part = "limits" => Limits!FacadeSafe
              /\ part = "saves" => SavesTwice!FacadeSafe
\* Downstream subscriptions of a topic share one upstream subscription and the topic map finds
\* it, through deletions that shift its table (TailCollapsing; topic_subscription_map.cc).
CollapsingSafe == part = "collapsing" => Collapsing!CollapsingSafe
\* No two allocators give out the same id until their counters wrap around
\* (Identifiers; subscription_id.cc, id_allocator.h).
IdsSafe ==
  /\ [](part = "subids" => Names!SubIdsSafe)
  /\ [](part = "ids" => Names!StreamIdsSafe)
  /\ Names!FullPeriod
=============================================================================
