-------------------------------- MODULE Routing --------------------------------
(***************************************************************************)
(* How logs are assigned to control towers, and topics to logs: the ring   *)
(* of consistent_hash.h (a multimap from hashes to slots), the two routers *)
(* of util/control_tower_router.cc and the jump hash of log_router.cc.     *)
(* Hashes are numbers below Space, what the hash functions compute is left *)
(* open: Init chooses the hashes of the slots, Rehash gives the next       *)
(* replica.  A slot is added once, as the routers do, with replicas.       *)
(***************************************************************************)
EXTENDS Integers, Sequences, FiniteSets, SequencesExt

CONSTANTS
  Slots, Space, Rehash, MaxReplicas,
  PerLog,         \* control_towers_per_log_
  Weight,         \* rendezvous hash of each slot, for one log
  Draws,          \* key >> 33 of the jump hash takes values below Draws (2^31)
  MaxLogs         \* bound on the number of logs

VARIABLES
  slotHash,       \* slotHash_ of each slot
  ring,           \* ring_: entries [hash, slot] in the order of the multimap
  slotCount,      \* slotCount_
  hosts,          \* host_ids_ of a router: the slots that were added
  logs            \* count_ of the log router

vars == <<slotHash, ring, slotCount, hosts, logs>>

Hashes == 0 .. Space - 1

Init ==
  /\ slotHash \in [Slots -> Hashes] /\ ring = <<>> /\ slotCount = 0 /\ hosts = {} /\ logs = 1

\* multimap::insert puts an entry behind the ones with its hash.
Inserted(r, hash, slot) ==
  SelectSeq(r, LAMBDA e : e.hash <= hash) \o <<[hash |-> hash, slot |-> slot]>>
    \o SelectSeq(r, LAMBDA e : e.hash > hash)

RECURSIVE AddReplicas(_, _, _, _)
AddReplicas(r, hash, slot, replicas) ==
  IF replicas = 0 THEN r ELSE AddReplicas(Inserted(r, hash, slot), Rehash[hash], slot, replicas - 1)

Add(slot, replicas) ==
  /\ logs = 1 /\ slot \notin hosts /\ hosts' = hosts \cup {slot}
  /\ ring' = AddReplicas(ring, slotHash[slot], slot, replicas) /\ slotCount' = slotCount + 1
  /\ UNCHANGED <<slotHash, logs>>

Entry(hash, slot) == [hash |-> hash, slot |-> slot]

\* Mutant: only one replica is looked for.
RemoveReplica(r, hash, slot) == RemoveFirst(r, Entry(hash, slot))
\* Replica after replica, until one is not there.
RECURSIVE RemoveReplicas(_, _, _)
RemoveReplicas(r, hash, slot) ==
  IF Entry(hash, slot) \notin ToSet(r) THEN r
  ELSE RemoveReplicas(RemoveFirst(r, Entry(hash, slot)), Rehash[hash], slot)

RemoveSlot(slot) ==
  /\ slot \in hosts /\ hosts' = hosts \ {slot}
  /\ ring' = RemoveReplicas(ring, slotHash[slot], slot)
  /\ slotCount' = IF Entry(slotHash[slot], slot) \in ToSet(ring) THEN slotCount - 1 ELSE slotCount
  /\ UNCHANGED <<slotHash, logs>>

Clear ==
  /\ ring # <<>> /\ ring' = <<>> /\ slotCount' = 0 /\ hosts' = {}
  /\ UNCHANGED <<slotHash, logs>>

LowerBound(r, hash) == 1 + Cardinality({n \in DOMAIN r : r[n].hash < hash})
Wrapped(r, n) == IF n = Len(r) + 1 THEN 1 ELSE n

Get(r, hash) == r[Wrapped(r, LowerBound(r, hash))].slot

\* The do-while of MultiGet: from it on until count slots are found or it is back at initial.
RECURSIVE Walk(_, _, _, _, _)
Walk(r, it, initial, count, out) ==
  LET at == Wrapped(r, it)
      more == IF r[at].slot \in ToSet(out) THEN out ELSE Append(out, r[at].slot)
  IN IF at + 1 # initial /\ Len(more) < count THEN Walk(r, at + 1, initial, count, more) ELSE more
MultiGet(r, hash, count) == Walk(r, LowerBound(r, hash), LowerBound(r, hash), count, <<>>)

\* SlotRatio times Space: the arcs that end at the slot, in arithmetic modulo Space.
SlotRatio(r, slot) ==
  LET arc(n) == (r[n].hash - r[IF n = 1 THEN Len(r) ELSE n - 1].hash) % Space
      arcs[n \in 0 .. Len(r)] ==
        IF n = 0 THEN 0 ELSE (arcs[n - 1] + (IF r[n].slot = slot THEN arc(n) ELSE 0)) % Space
      found == \E n \in DOMAIN r : r[n].slot = slot
  IN IF arcs[Len(r)] = 0 /\ found THEN Space ELSE arcs[Len(r)]

Least(a, b) == IF a < b THEN a ELSE b

\* ConsistentHashTowerRouter::GetControlTowers; NotFound is the empty answer.
RingTowers(hash) ==
  LET count == Least(PerLog, slotCount) IN IF count = 0 THEN <<>> ELSE MultiGet(ring, hash, count)

\* RendezvousHashTowerRouter::GetControlTowers: the lowest pairs of hash and address.
Below(a, b) == Weight[a] < Weight[b] \/ (Weight[a] = Weight[b] /\ a < b)
RendezvousTowers(H) == {h \in H : Cardinality({x \in H : Below(x, h)}) < Least(PerLog, Cardinality(H))}

\* JumpConsistentHash(key, buckets), for a key whose successive values of key >> 33 are draw.
RECURSIVE JumpFrom(_, _, _, _)
JumpFrom(draw, b, n, buckets) ==
  LET j == ((b + 1) * Draws) \div (draw[n] + 1)
  IN IF j < buckets THEN JumpFrom(draw, j, n + 1, buckets) ELSE b
JumpConsistentHash(draw, buckets) == JumpFrom(draw, 0, 1, buckets)

\* A deployment with one log more: first_ stays, last_ is one higher.  It has nothing to do with the
\* ring, and is not interleaved with it.
AddLog ==
  /\ hosts = {} /\ logs < MaxLogs /\ logs' = logs + 1
  /\ UNCHANGED <<slotHash, ring, slotCount, hosts>>

Next ==
  \/ \E s \in Slots : RemoveSlot(s) \/ \E n \in 1 .. MaxReplicas : Add(s, n)
  \/ Clear \/ AddLog

Spec == Init /\ [][Next]_vars

InHosts(H, s) == SelectSeq(s, LAMBDA x : x \in H)
AllSlots(r, count, hash) == IF r = <<>> THEN <<>> ELSE MultiGet(r, hash, count)

\* Type invariant: the ring is sorted by hash and holds slots that are in it.
TypeInv ==
  /\ \A n \in DOMAIN ring : ring[n].hash \in Hashes /\ ring[n].slot \in hosts
  /\ \A n \in 2 .. Len(ring) : ring[n - 1].hash <= ring[n].hash
  /\ slotCount = Cardinality(hosts) /\ logs \in 1 .. MaxLogs

Away(hash, n) == (ring[n].hash - hash) % Space

\* Get is the slot of the next entry clockwise; MultiGet finds count different slots for every count
\* that GetControlTowers may ask for, the first of them with Get; and SlotRatio is the share of
\* hashes that Get sends to a slot, if no two replicas collide.
LookupsRight ==
  /\ ring # <<>> => \A hash \in Hashes :
       /\ \E n \in DOMAIN ring :
            /\ Get(ring, hash) = ring[n].slot
            /\ \A k \in DOMAIN ring : Away(hash, n) < Away(hash, k) \/ (Away(hash, n) = Away(hash, k) /\ n <= k)
       /\ \A count \in 1 .. slotCount : LET out == MultiGet(ring, hash, count) IN
            Len(out) = count /\ Cardinality(ToSet(out)) = count /\ out[1] = Get(ring, hash)
       /\ Len(RingTowers(hash)) = Least(PerLog, slotCount)
  /\ Cardinality({ring[n].hash : n \in DOMAIN ring}) = Len(ring) =>
       \A s \in Slots : SlotRatio(ring, s) = Cardinality({hash \in Hashes : ring # <<>> /\ Get(ring, hash) = s})

\* When slots come and go, the others keep their places: of the slots that remain, every key prefers
\* the same ones in the same order, so only keys of the slot itself move.  The rendezvous router
\* moves only what it must, too; and a new log takes topics over, but no topic moves between old logs.
MovesLittle ==
  LET both == hosts \cap hosts' IN
  /\ (hosts' # {}) => \A hash \in Hashes :
       InHosts(both, AllSlots(ring, slotCount, hash)) = InHosts(both, AllSlots(ring', slotCount', hash))
  /\ hosts \subseteq hosts' => RendezvousTowers(hosts') \cap hosts \subseteq RendezvousTowers(hosts)
  /\ hosts' \subseteq hosts => RendezvousTowers(hosts) \cap hosts' \subseteq RendezvousTowers(hosts')
  /\ logs # logs' => \A draw \in [1 .. MaxLogs -> 0 .. Draws - 1] :
       /\ JumpConsistentHash(draw, logs) < logs
       /\ JumpConsistentHash(draw, logs') \in {JumpConsistentHash(draw, logs), logs}

\* Lookups are right in every state, and a change of hosts or logs moves little.
RoutingStable == [](TypeInv /\ LookupsRight) /\ [][MovesLittle]_vars
=============================================================================
