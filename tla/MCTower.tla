------------------------------ MODULE MCTower ------------------------------
(***************************************************************************)
(* The control tower for TLC: the topic tailer of a room ("readers"), the  *)
(* tower with its rooms ("goodbye") and the log tailer ("restart").  A     *)
(* behaviour is about one part, the others rest in their initial state:    *)
(* TLC visits the sum of their state spaces and not the product.           *)
(***************************************************************************)
EXTENDS TopicTailer, TLC

CONSTANTS Parts, t1, t2, s1, s2, s3, s4,
          w1, w2, r1, r2, stream,   \* the tower's workers, rooms and stream
          NoLog, None

OwnStreams == [s \in Subs |-> s]
Symmetric == Permutations(Topics) \cup Permutations(Subs)

VARIABLES part,
          open, usedIds, subToRoom, toRoom, subWorker, subscribers,   \* ControlTower
          toClient, finding, toWorker, fed, tails, got,
          tailOf, trim, trims, up, pos, thread, queue, next,          \* LogTailer
          restart, ticking, starts, begun, given

towerVars == <<open, usedIds, subToRoom, toRoom, subWorker, subscribers, toClient, finding, toWorker, fed, tails, got>>
logVars == <<tailOf, trim, trims, up, pos, thread, queue, next, restart, ticking, starts, begun, given>>

Goodbye == INSTANCE ControlTower WITH
  Workers <- {w1, w2}, Rooms <- {r1, r2}, Streams <- {stream}, Subs <- {"sub", "other"},
  WorkerOf <- (stream :> w1),
  Topics <- {"a", "b", "unknown"}, RoomOf <- ("a" :> r1) @@ ("b" :> r2) @@ ("unknown" :> NoLog),
  MaxFeed <- 1, MaxTails <- 1

Restarted == INSTANCE LogTailer WITH
  Logs <- {"log"}, Threads <- {w1, w2}, Content <- <<"record", "hole", "record">>,
  QueueSize <- 1, MaxStarts <- 1, MaxTrims <- 1, Fails <- FALSE

AllInit == part \in Parts /\ Init /\ Goodbye!TowerInit /\ Restarted!LogInit

AllNext ==
  /\ UNCHANGED part
  /\ \/ part = "readers" /\ Next /\ UNCHANGED <<towerVars, logVars>>
     \/ part = "goodbye" /\ Goodbye!TowerNext /\ UNCHANGED <<vars, logVars>>
     \/ part = "restart" /\ Restarted!LogNext /\ UNCHANGED <<vars, towerVars>>

AllSpec == AllInit /\ [][AllNext]_<<part, vars, towerVars, logVars>>

\* After the goodbye of a copilot the rooms drop its subscriptions for good (tower.cc:388).
GoodbyeForgets == Goodbye!GoodbyeForgets

\* A log that is read catches up with its tail although gaps whose start was overtaken
\* are dropped, and Tick returns once it has restarted what is due (log_tailer.cc:398).
ReaderCatchesUp == Restarted!CatchesUp /\ Restarted!TickReturns
=============================================================================
