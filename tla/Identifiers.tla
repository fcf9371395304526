---------------------------- MODULE Identifiers ----------------------------
(***************************************************************************)
(* The ids of subscriptions and of streams, and who gives them out.  The   *)
(* two allocators are independent of each other, each has its own          *)
(* variables, initial state and next-state relation.                       *)
(***************************************************************************)
EXTENDS Coding, Functions, FiniteSets

-----------------------------------------------------------------------------
(* The ids of subscriptions (util/common/subscription_id.h and .cc).  An   *)
(* id packs a shard, as a varint, and an id unique within the shard into   *)
(* the eight bytes of one integer.  SubscriptionIDAllocator::Next takes    *)
(* the next seed of one of a few atomic counters, which several shards and *)
(* worker threads share, and interleaves the workers, so that GetWorkerID  *)
(* finds the worker again from the id alone.                               *)

CONSTANTS
  Shards,       \* shard ids
  NumWorkers,   \* num_workers_
  Allocators,   \* the counters
  Slot(_, _),   \* the counter a shard and a worker hash to
  MaxSeed       \* bound on a counter

Workers == 0 .. NumWorkers - 1
NoID == 0                           \* SubscriptionID(), the invalid id

\* The varint of the shard, the fixed-width id after it, and zeros to the end of the buffer.
Buffer(shard, id) ==
  LET s == PutVarint32(shard) \o PutFixed64(id) IN
  s \o [i \in 1 .. (MaxVarint(Bytes32) + Bytes64) - Len(s) |-> 0]

Fits(buffer) == \A i \in Bytes64 + 1 .. Len(buffer) : buffer[i] = 0

ForShard(shard, id) ==
  LET buffer == Buffer(shard, id) IN
  IF Fits(buffer) THEN DecodeFixed(SubSeq(buffer, 1, Bytes64)) ELSE NoID

GetShardID(sub) == GetVarint32(PutFixed64(sub)).val

\* The encoded bytes are followed by zeros, so a whole fixed-width id can be read past the shard.
GetHierarchicalID(sub) ==
  LET buffer == PutFixed64(sub) \o [i \in 1 .. MaxVarint(Bytes32) |-> 0]
  IN  GetFixed64(GetVarint32(buffer).rest).val

\* Mutant: the workers' ids are blocks, not interleaved.
HierarchicalBlock(worker, seed) == (1 + worker + seed) % Base ^ Bytes64
Hierarchical(worker, seed) == (1 + worker + NumWorkers * seed) % Base ^ Bytes64

\* The check for overflow: the largest id of this seed fits 64 bits.
Overflows(seed) == NumWorkers * (seed + 1) >= Base ^ Bytes64

GetWorkerID(sub) == (GetHierarchicalID(sub) - 1) % NumWorkers

-----------------------------------------------------------------------------

VARIABLES
  seeds,    \* allocators_
  subIds     \* the ids handed out: [shard, worker, sub]
subIdVars == <<seeds, subIds>>

SubInit == seeds = [a \in Allocators |-> 0] /\ subIds = {}

\* The increment is atomic, the rest of Next works on the seed it returned.
NextSubID(shard, worker) ==
  LET a == Slot(shard, worker)
      seed == seeds[a]
      sub == IF Overflows(seed) THEN NoID ELSE ForShard(shard, Hierarchical(worker, seed))
  IN  /\ seed < MaxSeed
      /\ seeds' = [seeds EXCEPT ![a] = seed + 1]
      /\ subIds' = IF sub = NoID THEN subIds
                  ELSE subIds \cup {[shard |-> shard, worker |-> worker, sub |-> sub, seed |-> seed]}

SubNext == \E shard \in Shards, worker \in Workers : NextSubID(shard, worker)

-----------------------------------------------------------------------------

\* Counters stay within their bound and ids are valid 64-bit integers.
SubTypeInv ==
  /\ seeds \in [Allocators -> 0 .. MaxSeed]
  /\ \A g \in subIds : g.sub \in Uint(Bytes64) \ {NoID}

\* No two allocations yield the same id, also of shards and workers that share a counter.
Unique == \A g, h \in subIds : g.sub = h.sub => g = h

\* The shard and the worker of a subscription can be read from its id, whichever they were.
Routable == \A g \in subIds : GetShardID(g.sub) = g.shard /\ GetWorkerID(g.sub) = g.worker

\* An id that does not fit eight bytes is refused, never cut: the id within the shard is the one
\* that was allocated.
Uncut == \A g \in subIds : GetHierarchicalID(g.sub) = Hierarchical(g.worker, g.seed)

\* What an id promises to the routing of the client.
SubIdsSafe == SubTypeInv /\ Unique /\ Routable /\ Uncut

-----------------------------------------------------------------------------
(* util/id_allocator.h: allocators of ids that share one space of ids.  An *)
(* allocator has the ids next + k * step, modulo the size of the space; a  *)
(* message loop divides the allocator of all stream ids among its event    *)
(* loops and keeps the mapping from an id to its loop, and an event loop   *)
(* splits its own into one for inbound and one for outbound streams.       *)

CONSTANTS Bits,       \* width of IDType
          MaxAllocs,  \* bounds: allocators,
          MaxGiven    \* and ids streamIds out

Size == 2^Bits
IDs == 0..(Size - 1)

VARIABLES allocs,   \* the allocators: [step, next]
          loop,     \* the piece of the division each of them comes from
          streamIds,    \* ids each gave out
          earlier,  \* ids streamIds out by allocators before they were split
          mapping   \* DivisionMapping of the division: [shift, mask]

streamIdVars == <<allocs, loop, streamIds, earlier, mapping>>

\* The entire space, not divided yet
StreamInit ==
  /\ allocs = <<[step |-> 1, next |-> 0]>> /\ loop = <<0>>
  /\ streamIds = <<{}>> /\ earlier = {} /\ mapping = [step |-> 1, pieces |-> 1]

Advance(a) == [a EXCEPT !.next = (@ + a.step) % Size]

\* next_ & (step_ - 1), for a step that is a power of two
Residue(a, id) == id % a.step

IsSourceOf(a, id) == Residue(a, a.next) = Residue(a, id)

\* The number of pieces is a power of two.
NumPieces(a, minPieces) ==
  CHOOSE p \in {2^b : b \in 0..Bits} :
    p >= minPieces /\ \A q \in {2^b : b \in 0..Bits} : q >= minPieces => p <= q

\* Where piece i starts: as if the allocator was never used
FirstOfPiece(a, i) == (Residue(a, a.next) + i * a.step) % Size

Divided(a, minPieces) ==
  LET n == NumPieces(a, minPieces)
  IN [i \in 1..n |-> [step |-> a.step * n, next |-> FirstOfPiece(a, i - 1)]]

\* DivisionMapping: (id >> shift) & mask
Mapped(id) == (id \div mapping.step) % mapping.pieces

-----------------------------------------------------------------------------
\* Next
NextStreamID(i) ==
  /\ Cardinality(earlier) + Cardinality(UNION {streamIds[j] : j \in DOMAIN streamIds}) < MaxGiven
  /\ streamIds' = [streamIds EXCEPT ![i] = @ \cup {allocs[i].next}]
  /\ allocs' = [allocs EXCEPT ![i] = Advance(@)]
  /\ UNCHANGED <<loop, earlier, mapping>>

\* MsgLoop: Divide(num_workers, &stream_mapping_), of an allocator that is
\* not used any more.
Divide(minPieces) ==
  LET pieces == Divided(allocs[1], minPieces)
  IN /\ Len(allocs) = 1 /\ Len(pieces) <= MaxAllocs /\ streamIds = <<{}>> /\ earlier = {}
     /\ allocs' = pieces /\ loop' = [i \in DOMAIN pieces |-> i - 1]
     /\ streamIds' = [i \in DOMAIN pieces |-> {}]
     /\ mapping' = [step |-> allocs[1].step, pieces |-> Len(pieces)]
     /\ UNCHANGED earlier

\* Split: keeps one piece and returns the other
Split(i) ==
  LET pieces == Divided(allocs[i], 2)
  IN /\ Len(allocs) < MaxAllocs /\ allocs[i].step < Size
     /\ allocs' = Append([allocs EXCEPT ![i] = pieces[1]], pieces[Len(pieces)])
     /\ loop' = Append(loop, loop[i])
     /\ earlier' = earlier \cup streamIds[i]
     /\ streamIds' = Append([streamIds EXCEPT ![i] = {}], {})
     /\ UNCHANGED mapping

StreamNext ==
  \/ \E i \in DOMAIN allocs : NextStreamID(i) \/ Split(i)
  \/ \E k \in 1..MaxAllocs : Divide(k)

-----------------------------------------------------------------------------
\* Ids fit the type, and the step divides the space (CheckValid).
StreamTypeInv ==
  /\ allocs \in Seq([step : {2^b : b \in 0..Bits}, next : IDs])
  /\ Len(loop) = Len(allocs) /\ Len(streamIds) = Len(allocs)
  /\ \A i \in DOMAIN streamIds : streamIds[i] \subseteq IDs

\* No id is streamIds out by two allocators ("A list of disjoint allocators"), at
\* any depth of divisions and splits, past the point where ids wrap around;
\* and IsSourceOf tells whose an id is.
Disjoint ==
  \A i, j \in DOMAIN allocs : \A id \in streamIds[i] : IsSourceOf(allocs[j], id) <=> i = j

\* The mapping of the division takes an id to the loop that gave it out, also
\* after that loop split its allocator (GetStreamMapping routes by it).
MappedToLoop == \A i \in DOMAIN allocs : \A id \in streamIds[i] : Mapped(id) = loop[i]

\* An allocator repeats an id only after it gave out every id it has ("has a
\* period equal to the size of the set of allowed IDs").
FullPeriod ==
  [][\A i \in DOMAIN allocs : Len(allocs') = Len(allocs) /\ allocs'[i] # allocs[i] /\ allocs[i].next \in streamIds[i]
       => Cardinality(streamIds[i]) = Size \div allocs[i].step]_streamIdVars

\* What an allocator promises to the loops that share the ids.
StreamIdsSafe == StreamTypeInv /\ Disjoint /\ MappedToLoop
=============================================================================
