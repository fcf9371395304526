----------------------------- MODULE DataCache -----------------------------
(***************************************************************************)
(* The cache of log records of a control room (controltower/data_cache.cc):*)
(* blocks of BlockSize consecutive records of a log in an LRU cache, each  *)
(* with a bloom filter of its topics (util/bloom.cc) once it is full.  The *)
(* record of a sequence number never changes; the hashes of the bloom      *)
(* filter and of hcache_ are functions that may collide.                   *)
(***************************************************************************)
EXTENDS LRUOps

CONSTANTS Logs,
          TopicOf,        \* topic of the record at 0, 1, ... of every log, as a function
          NoTopic,        \* lookup of every topic
          Probes,         \* bits of the bloom filter set by a topic
          Hash,           \* the 16 bits of a topic's hash in hcache_
          NotStored,      \* topics the characteristics_ of the cache exclude
          BlockSize,      \* a power of two
          Bloom,          \* bloom_bits_per_msg_ > 0
          Capacities,     \* capacities that are set, 0 turns the cache off
          InitialCharge,  \* GetInitialCharge
          Size,           \* GetTotalSize of a message
          MaxErases       \* bound: calls of Erase

Seqnos == DOMAIN TopicOf
StoredTopics == {TopicOf[s] : s \in Seqnos}
AlignToBlockStart(s) == s - (s % BlockSize)
Key(l, s) == <<l, AlignToBlockStart(s)>>
BlockKeys == {Key(l, s) : l \in Logs, s \in Seqnos}
Unlimited == Cardinality(Seqnos) + 1

VARIABLES enabled,  \* rs_cache_ # nullptr
          cache,    \* the LRU cache; an entry is named by its key
          block,    \* the CacheEntry of every key
          erases

vars == <<enabled, cache, block, erases>>

\* slots: mcache_ (and hcache_), num: num_messages_, bloom: bloom_bits_.
NewBlock == [slots |-> {}, num |-> 0, bloom |-> {}]

Init ==
  /\ cache = NewCache(BlockKeys, Max(Capacities))
  /\ enabled = TRUE
  /\ block = [k \in BlockKeys |-> NewBlock]
  /\ erases = 0

Stored(l, s) == Find(cache, Key(l, s)) # {} /\ s \in block[Key(l, s)].slots

\* The entries an operation evicts take their blocks with them.
Settle(c, blocks) ==
  /\ cache' = c
  /\ block' = [k \in BlockKeys |-> IF k \in Live(c) THEN blocks[k] ELSE NewBlock]

\* Mutant: the filter is built from the last message only.
CreateFilterLast(slots) == Probes[TopicOf[Max(slots)]]

CreateFilter(slots) == UNION {Probes[TopicOf[s]] : s \in slots}

\* CacheEntry::StoreData of a record that is not there yet.
WithRecord(b, s) ==
  LET slots == b.slots \cup {s}
  IN  [slots |-> slots, num |-> b.num + 1,
       bloom |-> IF Bloom /\ b.num + 1 = BlockSize THEN CreateFilter(slots) ELSE b.bloom]

Added(b, s) == IF s \in b.slots THEN b ELSE WithRecord(b, s)

\* The increase in charge that CacheEntry::StoreData returns.
Growth(b, s) == IF s \in b.slots THEN 0 ELSE Size

StoreData(l, s) ==
  LET k == Key(l, s)
      old == Find(cache, k) # {}
      opened == IF old THEN Ref(cache, k) ELSE Insert(cache, k, k, InitialCharge)
      b == IF old THEN block[k] ELSE NewBlock
      charged == ChargeDelta(opened, k, Growth(b, s))
  IN  /\ enabled
      /\ TopicOf[s] \notin NotStored
      /\ Settle(Release(charged, k), [block EXCEPT ![k] = Added(b, s)])
      /\ UNCHANGED <<enabled, erases>>

\* CacheEntry::Erase: num_messages_ and the bloom filter stay as they are.
EraseRecord(l, s) ==
  LET k == Key(l, s)
  IN  /\ enabled
      /\ erases < MaxErases
      /\ Find(cache, k) # {}
      /\ Settle(Release(ChargeDelta(Ref(cache, k), k, IF Stored(l, s) THEN -Size ELSE 0), k),
                [block EXCEPT ![k].slots = @ \ {s}])
      /\ erases' = erases + 1
      /\ UNCHANGED enabled

KeyMayMatch(topic, bits) == Probes[topic] \subseteq bits

Skips(b, topic) == Bloom /\ topic # NoTopic /\ b.bloom # {} /\ ~KeyMayMatch(topic, b.bloom)

\* Where the scan of a block from s ends: the first record missing, or the block's end.
ScanEnd(b, s) ==
  LET end == AlignToBlockStart(s) + BlockSize
  IN  Min({end} \cup {i \in s..end - 1 : i \notin b.slots})

Matches(s, topic) == topic = NoTopic \/ Hash[TopicOf[s]] = Hash[topic]

\* CacheEntry::VisitEntry: the callback refuses more after room messages.
VisitEntry(b, s, topic, room) ==
  LET found == {i \in s..ScanEnd(b, s) - 1 : Matches(i, topic)}
      upto == {i \in found : Cardinality({j \in found : j <= i}) <= room}
  IN  CASE Skips(b, topic) ->
             [next |-> AlignToBlockStart(s) + BlockSize, visited |-> {}, stop |-> FALSE]
        [] ~Skips(b, topic) /\ Cardinality(found) < room ->
             [next |-> ScanEnd(b, s), visited |-> found, stop |-> FALSE]
        [] OTHER -> [next |-> Max(upto) + 1, visited |-> upto, stop |-> TRUE]

\* DataCache::VisitCache from s on: what is visited, where it ends, and the cache after.
RECURSIVE Visit(_, _, _, _, _)
Visit(c, l, s, topic, room) ==
  LET k == Key(l, s)
      r == VisitEntry(block[k], s, topic, room)
      after == Release(Ref(c, k), k)
      rest == Visit(after, l, r.next, topic, room - Cardinality(r.visited))
  IN  IF k \notin BlockKeys \/ Find(c, k) = {}
        THEN [cache |-> c, next |-> s, visited |-> {}]
        ELSE IF r.stop \/ r.next < AlignToBlockStart(s) + BlockSize
          THEN [cache |-> after, next |-> r.next, visited |-> r.visited]
          ELSE [cache |-> rest.cache, next |-> rest.next, visited |-> r.visited \cup rest.visited]

VisitCache(l, s, topic, room) ==
  /\ enabled
  /\ Settle(Visit(cache, l, s, topic, room).cache, block)
  /\ UNCHANGED <<enabled, erases>>

ClearCache ==
  /\ enabled
  /\ Settle(NewCache(BlockKeys, cache.capacity), block)
  /\ UNCHANGED <<enabled, erases>>

SetCacheCapacity(capacity) ==
  /\ enabled' = (capacity # 0)
  /\ Settle(IF enabled /\ capacity # 0 THEN SetCapacity(cache, capacity)
                                       ELSE NewCache(BlockKeys, capacity), block)
  /\ UNCHANGED erases

Next ==
  \/ \E l \in Logs, s \in Seqnos :
       \/ StoreData(l, s) \/ EraseRecord(l, s)
       \/ \E topic \in StoredTopics \cup {NoTopic}, room \in {1, Unlimited} : VisitCache(l, s, topic, room)
  \/ ClearCache
  \/ \E capacity \in Capacities : SetCacheCapacity(capacity)

Spec == Init /\ [][Next]_vars

----------------------------------------------------------------------------
\* The blocks hold values of their types, and only cached blocks have contents.
TypeInv ==
  /\ enabled \in BOOLEAN /\ erases \in 0..MaxErases
  /\ \A k \in BlockKeys : /\ block[k].slots \subseteq k[2] .. k[2] + BlockSize - 1
                          /\ block[k].num \in 0..BlockSize + MaxErases
                          /\ k \notin Live(cache) => block[k] = NewBlock

\* VisitCache loses nothing: every record of the topic between where it starts and the
\* sequence number it returns is visited, through bloom filters, hash collisions, holes,
\* evictions and a callback that stops early, and only cached records are visited.
FindsAll ==
  enabled =>
    \A l \in Logs, s \in Seqnos, topic \in StoredTopics, room \in {1, 2, Unlimited} :
      LET r == Visit(cache, l, s, topic, room)
      IN  /\ {i \in s..r.next - 1 : TopicOf[i] = topic} \subseteq r.visited
          /\ \A i \in r.visited : Stored(l, i)

\* "Returns the first sequence number that was not found in the cache" (data_cache.h:63):
\* a visit nobody stops ends at a record the cache does not hold, so the caller never
\* asks the log for what it could have read here.
StopsAtMissing ==
  enabled =>
    \A l \in Logs, s \in Seqnos, topic \in StoredTopics \cup {NoTopic} :
      LET r == Visit(cache, l, s, topic, Unlimited) IN r.next \in Seqnos => ~Stored(l, r.next)

\* StoreData and VisitCache assert that no block is pinned (data_cache.cc:349, 430): every
\* operation releases the handle it takes, and the charges of the blocks add up.
NothingPinned ==
  /\ cache.usage = cache.lruUsage
  /\ cache.usage = Charge(cache, Live(cache))
  /\ \A k \in Live(cache) : cache.entry[k].charge = InitialCharge + Size * Cardinality(block[k].slots)

\* A bloom filter excludes no topic of its block.
BloomSound == \A k \in BlockKeys : \A s \in block[k].slots : ~Skips(block[k], TopicOf[s])

\* The cache only spares reads of the log: it neither hides a record nor keeps one it
\* should have let go.
CacheSafe == TypeInv /\ FindsAll /\ StopsAtMissing /\ NothingPinned /\ BloomSound
=============================================================================
