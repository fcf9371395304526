------------------------------ MODULE LRUCache ------------------------------
(***************************************************************************)
(* The LRU cache used by several holders of handles: entries are looked up,*)
(* inserted, replaced, erased and grow while other handles are held, and   *)
(* the capacity changes.                                                   *)
(***************************************************************************)
EXTENDS LRUOps

CONSTANTS Ids,       \* entries the allocator hands out
          Keys,
          Charges,   \* charges of new entries, and increments of charges
          Capacities,
          MaxHeld    \* bound: handles held at a time

VARIABLES lruCache, \* the state of the LRUCache
          held      \* handles given out and not released, by entry

vars == <<lruCache, held>>

Init ==
  /\ lruCache = NewCache(Ids, Max(Capacities))
  /\ held = [id \in Ids |-> 0]

Held == FoldSet(LAMBDA id, sum : sum + held[id], 0, Ids)

InsertKey(key, charge) ==
  /\ Held < MaxHeld
  /\ \E id \in Ids \ Live(lruCache) :
       /\ lruCache' = Insert(lruCache, id, key, charge)
       /\ held' = [held EXCEPT ![id] = 1]

Lookup(key) ==
  /\ Held < MaxHeld
  /\ \E id \in Find(lruCache, key) :
       /\ lruCache' = Ref(lruCache, id)
       /\ held' = [held EXCEPT ![id] = @ + 1]

ReleaseHandle(id) ==
  /\ held[id] > 0
  /\ lruCache' = Release(lruCache, id)
  /\ held' = [held EXCEPT ![id] = @ - 1]

EraseKey(key) ==
  /\ lruCache' = Erase(lruCache, key)
  /\ UNCHANGED held

Grow(id, delta) ==
  /\ held[id] > 0
  /\ lruCache.entry[id].refs > 1
  /\ lruCache.entry[id].charge + delta \in Charges
  /\ lruCache' = ChargeDelta(lruCache, id, delta)
  /\ UNCHANGED held

Resize(capacity) ==
  /\ lruCache' = SetCapacity(lruCache, capacity)
  /\ UNCHANGED held

Next ==
  \/ \E key \in Keys : Lookup(key) \/ EraseKey(key) \/ \E charge \in Charges : InsertKey(key, charge)
  \/ \E id \in Ids : ReleaseHandle(id) \/ \E delta \in Charges \cup {-d : d \in Charges} : Grow(id, delta)
  \/ \E capacity \in Capacities : Resize(capacity)

Spec == Init /\ [][Next]_vars

----------------------------------------------------------------------------
\* The counters, the list and the entries of the cache hold values of their types.
TypeInv ==
  /\ lruCache.capacity \in Capacities /\ lruCache.usage \in Nat /\ lruCache.lruUsage \in Nat
  /\ lruCache.lru \in Seq(Ids) /\ DOMAIN lruCache.entry = Ids
  /\ \A id \in Live(lruCache) : /\ lruCache.entry[id].key \in Keys
                             /\ lruCache.entry[id].refs \in Nat \ {0}
                             /\ lruCache.entry[id].charge \in Charges
                             /\ lruCache.entry[id].inCache \in BOOLEAN
  /\ held \in [Ids -> Nat]

\* The three states of an LRUHandle in the comment of cache.cc:32: an entry is on the
\* LRU list, once, exactly when it is in the table and no handle to it is held.
ListedIffFree ==
  /\ \A i, j \in 1..Len(lruCache.lru) : lruCache.lru[i] = lruCache.lru[j] => i = j
  /\ ToSet(lruCache.lru) = {id \in Live(lruCache) : lruCache.entry[id].inCache /\ lruCache.entry[id].refs = 1}

\* No entry is freed under a handle: its references are the handles held and the table.
NotFreedInUse ==
  \A id \in Ids :
    /\ held[id] > 0 => id \in Live(lruCache)
    /\ id \in Live(lruCache) =>
         lruCache.entry[id].refs = held[id] + (IF lruCache.entry[id].inCache THEN 1 ELSE 0)

\* usage_ and lru_usage_ are the sums of what they count through every growth,
\* replacement and late release, so GetPinnedUsage cannot wrap (the assertion of
\* cache.cc:213) and is the charge of the entries that are off the list.
UsageExact ==
  /\ lruCache.usage = Charge(lruCache, Live(lruCache))
  /\ lruCache.lruUsage = Charge(lruCache, ToSet(lruCache.lru))

\* "The LRU list must be empty since the cache is full" (cache.cc:348): nothing that
\* could be evicted remains while the cache is over its capacity; in particular the
\* capacity is respected whenever no handle is held.
FullThenNothingToEvict ==
  /\ lruCache.usage > lruCache.capacity => lruCache.lru = <<>>
  /\ Held = 0 => lruCache.usage <= lruCache.capacity

\* A key is in the table at most once: Insert unlinks the entry it replaces.
OnePerKey == \A key \in Keys : Cardinality(Find(lruCache, key)) <= 1
\* What the holders of handles and the data cache rely on.
LRUSafe ==
  TypeInv /\ ListedIffFree /\ NotFreedInUse /\ UsageExact /\ FullThenNothingToEvict /\ OnePerKey
=============================================================================
