----------------------------- MODULE MCStorage -----------------------------
(***************************************************************************)
(* What stands between a control tower and the logs, for TLC: the tower    *)
(* with its rooms ("tower"), the log tailer ("log"), the buffered storage  *)
(* ("writer", "reader"), the data cache with bloom filters ("cache") and   *)
(* with two logs, a system topic that is not stored and records erased     *)
(* ("erased"), the LRU cache ("lru"), the topic tailer with its cache, two *)
(* readers ("cached") and one reader on a log with gaps ("gaps"), and the  *)
(* structures below: thread-local pointers ("pointers") and containers     *)
(* ("map", "set", "flyweights", "bytes").  A behaviour is about one part,  *)
(* the others rest in their initial state.                                 *)
(***************************************************************************)
EXTENDS ControlTower, LogTailer, TLC

CONSTANTS Parts, sa, sb, NoTopic, NoEntry, Hole, NoAck, Failed, Gap

VARIABLES part,
          sent, home, commands, queues, qage, timeouts, checked,      \* BufferedStorage
          appending, store, acks, refusals, failures, opened, overflow, consumed, opens,
          enabled, cache, block, erases,                              \* DataCache
          lruCache, held,                                             \* LRUCache
          log, tailer, reader, sub, stream_subs, pending, waiting,    \* CachedTailer
          find, tail, used, out, cached, reentry, evictions, start, heard, again,
          id, constructing, nextId, freeIds, handlers, chain, entries, call,  \* Containers
          objects, unreffed, taken, lives,
          list, index, value, readyFd, iterator, mapWrites, inserted, read,
          members, notified, changed, draining, changed_orig, additions,
          handle, ref_count, factory,
          cells, write_index, committed_index, read_index, read_index_cached,
          committed_index_cached, tx, taking, values, uncommitted, unread, gotValue

bufferedVars == <<sent, home, commands, queues, qage, timeouts, checked, appending, store, acks,
                  refusals, failures, opened, overflow, consumed, opens>>
cacheVars == <<enabled, cache, block, erases>>
lruVars == <<lruCache, held>>
tailerVars == <<log, tailer, reader, sub, stream_subs, pending, waiting, find, tail, used, out,
                cached, reentry, evictions, start, heard, again>>
pointerVars == <<id, constructing, nextId, freeIds, handlers, chain, entries, call, objects,
                 unreffed, taken, lives>>
mapVars == <<list, index, value, readyFd, iterator, mapWrites, inserted, read>>
setVars == <<members, notified, changed, draining, changed_orig, additions>>
flyweightVars == <<handle, ref_count, factory>>
bytesVars == <<cells, write_index, committed_index, read_index, read_index_cached,
               committed_index_cached, tx, taking, values, uncommitted, unread, gotValue>>
structureVars == <<pointerVars, mapVars, setVars, flyweightVars, bytesVars>>
storageVars == <<towerVars, logVars, bufferedVars, cacheVars, lruVars, tailerVars>>

TowerWorkers == ("st1" :> sa) @@ ("st2" :> sb)
TowerRooms == ("x" :> 1) @@ ("y" :> 2) @@ ("unknown" :> NoLog)
LogContent == <<"corrupt", "record">>

\* The second request fills most of a batch.
Sizes == [r \in 1..4 |-> IF r = 2 THEN 3 ELSE 1]
Writer == INSTANCE BufferedStorage WITH
  Requests <- 1..4, Logs <- {sa, sb}, MaxBatchEntries <- 3, MaxBatchBytes <- 5, SizeOf <- Sizes,
  Latency <- 1, ByteBits <- 2, MaxRefusals <- 0, MaxFailures <- 1, MaxOpens <- 0
Reader == INSTANCE BufferedStorage WITH
  Requests <- 1..3, Logs <- {sa}, MaxBatchEntries <- 3, MaxBatchBytes <- 5, SizeOf <- Sizes,
  Latency <- 1, ByteBits <- 2, MaxRefusals <- 0, MaxFailures <- 1, MaxOpens <- 2

\* Topics x and y collide in hcache_; the bits of y are covered by those of x and z.
Records(topics) == [s \in 0 .. Len(topics) - 1 |-> topics[s + 1]]
Bits == "x" :> {1, 2} @@ "y" :> {2, 3} @@ "z" :> {3, 4} @@ "sys" :> {1, 4}
Hashes == "x" :> 1 @@ "y" :> 1 @@ "z" :> 2 @@ "sys" :> 2
Cache == INSTANCE DataCache WITH
  Logs <- {sa}, TopicOf <- Records(<<"x", "y", "x", "z", "z", "y", "y", "y">>),
  Probes <- Bits, Hash <- Hashes, NotStored <- {}, BlockSize <- 2, Bloom <- TRUE,
  Capacities <- {0, 6, 8}, InitialCharge <- 1, Size <- 1, MaxErases <- 0
Erased == INSTANCE DataCache WITH
  Logs <- {sa, sb}, TopicOf <- Records(<<"x", "sys", "y", "x">>),
  Probes <- Bits, Hash <- Hashes, NotStored <- {"sys"}, BlockSize <- 2, Bloom <- FALSE,
  Capacities <- {0, 4}, InitialCharge <- 1, Size <- 1, MaxErases <- 2

LRU == INSTANCE LRUCache WITH
  Ids <- 1..4, Keys <- {sa, sb}, Charges <- {1, 2}, Capacities <- {1, 3, 4}, MaxHeld <- 3

Cached == INSTANCE CachedTailer WITH
  Topics <- {"x", "y"}, Subs <- {sa, sb}, StreamOf <- (sa :> sa) @@ (sb :> sb), NumReaders <- 2,
  MaxLag <- 1, StartCost <- 2, HasGaps <- FALSE, FindMayFail <- FALSE, Starts <- {1, 2},
  MaxLog <- 3, MaxRemovals <- 0, BlockSize <- 2, MaxEvictions <- 1
Gaps == INSTANCE CachedTailer WITH
  Topics <- {"x", "y"}, Subs <- {sa, sb}, StreamOf <- (sa :> sa) @@ (sb :> sb), NumReaders <- 1,
  MaxLag <- 1, StartCost <- 2, HasGaps <- TRUE, FindMayFail <- FALSE, Starts <- {1},
  MaxLog <- 3, MaxRemovals <- 1, BlockSize <- 2, MaxEvictions <- 1

Boxes == INSTANCE Containers WITH
  Keys <- {"k", "l", "m"}, MaxWrites <- 5, Handles <- {1, 2, 3}, Buffer <- 7,
  Types <- {<<1, 1>>, <<2, 2>>, <<4, 4>>}, MaxValues <- 5, held <- value, next <- iterator,
  Threads <- {sa, sb}, Pointers <- {1, 2}, Managed <- {1}, MaxObjects <- 2, MaxLives <- 2

Init ==
  /\ part \in Parts
  /\ TowerInit /\ LogInit /\ LRU!Init
  /\ IF part = "gaps" THEN Gaps!CachedInit ELSE Cached!CachedInit
  /\ IF part = "reader" THEN Reader!Init ELSE Writer!Init
  /\ IF part = "erased" THEN Erased!Init ELSE Cache!Init
  /\ Boxes!PointersInit /\ Boxes!MapInit /\ Boxes!SetInit /\ Boxes!FlyweightInit /\ Boxes!BytesInit

StorageNext ==
  \/ part = "tower" /\ TowerNext /\ UNCHANGED <<logVars, bufferedVars, cacheVars, lruVars, tailerVars>>
  \/ part = "log" /\ LogNext /\ UNCHANGED <<towerVars, bufferedVars, cacheVars, lruVars, tailerVars>>
  \/ part = "writer" /\ Writer!Next /\ UNCHANGED <<towerVars, logVars, cacheVars, lruVars, tailerVars>>
  \/ part = "reader" /\ Reader!Next /\ UNCHANGED <<towerVars, logVars, cacheVars, lruVars, tailerVars>>
  \/ part = "cache" /\ Cache!Next /\ UNCHANGED <<towerVars, logVars, bufferedVars, lruVars, tailerVars>>
  \/ part = "erased" /\ Erased!Next /\ UNCHANGED <<towerVars, logVars, bufferedVars, lruVars, tailerVars>>
  \/ part = "lru" /\ LRU!Next /\ UNCHANGED <<towerVars, logVars, bufferedVars, cacheVars, tailerVars>>
  \/ part = "cached" /\ Cached!CachedNext /\ UNCHANGED <<towerVars, logVars, bufferedVars, cacheVars, lruVars>>
  \/ part = "gaps" /\ Gaps!CachedNext /\ UNCHANGED <<towerVars, logVars, bufferedVars, cacheVars, lruVars>>

StructureNext ==
  \/ part = "pointers" /\ Boxes!PointersNext /\ UNCHANGED <<mapVars, setVars, flyweightVars, bytesVars>>
  \/ part = "map" /\ Boxes!MapNext /\ UNCHANGED <<pointerVars, setVars, flyweightVars, bytesVars>>
  \/ part = "set" /\ Boxes!SetNext /\ UNCHANGED <<pointerVars, mapVars, flyweightVars, bytesVars>>
  \/ part = "flyweights" /\ Boxes!FlyweightNext /\ UNCHANGED <<pointerVars, mapVars, setVars, bytesVars>>
  \/ part = "bytes" /\ Boxes!BytesNext /\ UNCHANGED <<pointerVars, mapVars, setVars, flyweightVars>>

Next ==
  /\ UNCHANGED part
  /\ \/ StorageNext /\ UNCHANGED structureVars
     \/ StructureNext /\ UNCHANGED storageVars

Spec == Init /\ [][Next]_<<part, storageVars, structureVars>>

\* A request is acknowledged with the place it is read from later, a reader gets every
\* number of its log once and in order, and no queue waits too long (buffered_storage.cc).
BufferedSafe == /\ part = "writer" => Writer!BufferedSafe
                /\ part = "reader" => Reader!BufferedSafe

\* What is kept in memory stays whole.  VisitCache passes over no record of its topic and
\* returns the first one missing, through bloom filters, collisions and evictions
\* (data_cache.cc).  No entry is freed under a handle, the list holds what can be evicted,
\* usage is exact and the capacity is exceeded only by what is held (cache.cc).
\* Subscriptions served from the cache, and readers that cross it, are sent every record
\* once, although blocks are evicted and the sink is full in between (topic_tailer.cc).
\* A thread-local pointer shows a thread its own value, which is released once
\* (thread_local.cc).  The observable containers are readable exactly when they have
\* something to read, and are read in the order of insertion (observable_map.h,
\* observable_container.h).  Flyweights count their references (ref_count_flyweight.h).  The
\* byte queue gives its reader whole values of committed transactions (heterogeneous_queue.h).
MemorySafe ==
  /\ part = "cache" => Cache!CacheSafe
  /\ part = "erased" => Erased!CacheSafe
  /\ part = "lru" => LRU!LRUSafe
  /\ part = "cached" => Cached!CachedTailerSafe
  /\ part = "gaps" => Gaps!CachedTailerSafe
  /\ part = "pointers" => Boxes!ThreadLocalSafe
  /\ part = "map" => Boxes!MapReadable /\ Boxes!Linked /\ Boxes!InsertionOrder
  /\ part = "set" => Boxes!SetReadable
  /\ part = "flyweights" => Boxes!CountedFlyweights
  /\ part = "bytes" => Boxes!BytesWhole
=============================================================================
