------------------------------ MODULE MPSCQueue ------------------------------
(***************************************************************************)
(* UnboundedMPSCQueue (unbounded_mpsc_queue.h): threads append commands    *)
(* under a mutex and then count them in an eventfd; the event loop reads   *)
(* the count, takes a batch under the mutex, and puts back what it did not *)
(* take.  The count and the queue are never updated together.              *)
(***************************************************************************)
EXTENDS Integers, Sequences, FiniteSets, FiniteSetTheorems, SequenceTheorems, TLAPS

CONSTANTS
  Writers,
  SoftLimit,     \* soft_limit_, for TryWriteShared only
  MaxReads,      \* kMaxReads, 32 in the code
  MaxWritten     \* bound: items written

VARIABLES
  items,         \* queue_
  count,         \* the eventfd
  unannounced,   \* writers between the append and write_event(1)
  taken,         \* the count that TryRead has read and not yet written back
  chunk,         \* items[0 .. read), still to be passed to DrainOne
  reader,        \* "idle", "read" (count read), "popped" (batch taken), "drain"
  appended, passed,
  refuses        \* may the read callback refuse more (DrainOne returns false)?

mpscVars == <<items, count, unannounced, taken, chunk, reader, appended, passed, refuses>>

ASSUME ReadsAssumption == MaxReads \in Nat \ {0}
ASSUME WrittenAssumption == MaxWritten \in Nat

MPSCInit ==
  /\ items = <<>> /\ count = 0 /\ unannounced = {} /\ taken = 0 /\ chunk = <<>>
  /\ reader = "idle" /\ appended = 0 /\ passed = <<>> /\ refuses \in BOOLEAN

\* The append under the mutex; items are numbered in the order of the appends.
EmplaceBack(w) ==
  /\ appended < MaxWritten /\ w \notin unannounced
  /\ items' = Append(items, appended + 1) /\ appended' = appended + 1
  /\ unannounced' = unannounced \cup {w}
  /\ UNCHANGED <<count, taken, chunk, reader, passed, refuses>>

WriteShared(w) == EmplaceBack(w)
\* At the soft limit nothing changes and the caller keeps the item.
TryWriteShared(w) == Len(items) < SoftLimit /\ EmplaceBack(w)

WriteEvent(w) ==
  /\ w \in unannounced
  /\ unannounced' = unannounced \ {w} /\ count' = count + 1
  /\ UNCHANGED <<items, taken, chunk, reader, appended, passed, refuses>>

\* TryRead: the eventfd is cleared by reading it ...
ReadEvent ==
  /\ reader = "idle" /\ count > 0
  /\ taken' = count /\ count' = 0 /\ reader' = "read"
  /\ UNCHANGED <<items, unannounced, chunk, appended, passed, refuses>>

\* Mutant: takes items that were appended and not yet counted.
BatchSizeUncounted(value) == IF Len(items) < MaxReads THEN Len(items) ELSE MaxReads
\* ... no more is taken than was counted, than there is, and than there is room for ...
BatchSize(value) == CHOOSE n \in {value, Len(items), MaxReads} : n <= value /\ n <= Len(items) /\ n <= MaxReads

PopFront ==
  /\ reader = "read"
  /\ LET n == BatchSize(taken)
     IN /\ chunk' = SubSeq(items, 1, n) /\ items' = SubSeq(items, n + 1, Len(items))
        /\ taken' = IF n <= taken THEN taken - n ELSE 0
  /\ reader' = "popped"
  /\ UNCHANGED <<count, unannounced, appended, passed, refuses>>

\* ... and the rest of the count is put back.
WriteBack ==
  /\ reader = "popped"
  /\ count' = count + taken /\ taken' = 0 /\ reader' = "drain"
  /\ UNCHANGED <<items, unannounced, chunk, appended, passed, refuses>>

\* Drain: a callback that refuses more ends the loop, with the rest of the batch.
DrainShared ==
  /\ reader = "drain" /\ chunk # <<>>
  /\ passed' = Append(passed, Head(chunk))
  /\ \/ chunk' = Tail(chunk)
     \/ refuses /\ chunk' = <<>>
  /\ reader' = IF chunk' = <<>> THEN "idle" ELSE "drain"
  /\ UNCHANGED <<items, count, unannounced, taken, appended, refuses>>

ReadStep == ReadEvent \/ PopFront \/ WriteBack \/ DrainShared
MPSCNext == ReadStep \/ \E w \in Writers : WriteShared(w) \/ TryWriteShared(w) \/ WriteEvent(w)

MPSCSpec == MPSCInit /\ [][MPSCNext]_mpscVars

----------------------------------------------------------------------------
\* Type invariant of the list, its announced size and the batch of the reader.
SharedTypeInv ==
  /\ items \in Seq(1 .. MaxWritten) /\ chunk \in Seq(1 .. MaxWritten) /\ passed \in Seq(1 .. MaxWritten)
  /\ {count, taken, appended} \subseteq Nat /\ unannounced \subseteq Writers
  /\ reader \in {"idle", "read", "popped", "drain"}

\* Every item in the queue is counted once: in the eventfd, in the count the reader holds, or
\* by a writer about to count it.  So a read count always finds an item
\* (RS_ASSERT(!queue_.empty())), and an idle reader never sleeps on counted items.
Counted ==
  /\ Len(items) = count + taken + Cardinality(unannounced)
  /\ reader = "read" => items # <<>>

\* Items are passed on in the order of the appends, none twice, and none is lost as long as
\* the callback takes what it is given (Drain drops the rest of the batch otherwise).
SharedInOrder ==
  /\ \A i, j \in DOMAIN passed : i < j => passed[i] < passed[j]
  /\ ~refuses => passed \o chunk \o items = [i \in 1 .. appended |-> i]

\* The count in the eventfd and the queue, updated apart, never disagree on what there is to
\* read (TryRead), and the queue is first in, first out (EmplaceBack, Drain).
SharedQueueSafe == SharedTypeInv /\ Counted /\ SharedInOrder

\* Every item that was written is passed on, if the loop keeps reading and a thread between
\* the append and the notification is not stopped there.
MPSCDelivered ==
  (/\ ~refuses
   /\ \A w \in Writers : WF_mpscVars(WriteEvent(w))
   /\ WF_mpscVars(ReadStep))
  => \A i \in 1 .. MaxWritten : (appended >= i) ~> (Len(passed) >= i)

----------------------------------------------------------------------------
(* Proof of SharedQueueSafe for any writers, batches and number of items.          *)

\* What the reader has taken from the queue and passed on or dropped.
Passed == appended - Len(items) - Len(chunk)

\* Queue, batch and what was passed on are three stretches of the order of the appends.
Stretches ==
  /\ Passed >= 0 /\ appended <= MaxWritten
  /\ \A i \in 1 .. Len(items) : items[i] = Passed + Len(chunk) + i
  /\ \A i \in 1 .. Len(chunk) : chunk[i] = Passed + i
  /\ \A i \in 1 .. Len(passed) : passed[i] \in 1 .. Passed
  /\ \A i, j \in 1 .. Len(passed) : i < j => passed[i] < passed[j]
  /\ ~refuses => Len(passed) = Passed /\ \A i \in 1 .. Len(passed) : passed[i] = i

\* What the reader holds at each of its points.
Holds ==
  /\ reader \in {"idle", "drain"} => taken = 0
  /\ reader \in {"idle", "read"} => chunk = <<>>
  /\ reader = "read" => taken > 0
  /\ reader \in {"popped", "drain"} => chunk # <<>>

\* The inductive invariant: counts, stretches and points of the reader.
MPSCInv ==
  /\ SharedTypeInv /\ Stretches /\ Holds
  /\ IsFiniteSet(unannounced) /\ Len(items) = count + taken + Cardinality(unannounced)

\* An empty queue satisfies the invariant.
LEMMA InitInv == MPSCInit => MPSCInv
<1> SUFFICES ASSUME MPSCInit PROVE MPSCInv
  OBVIOUS
<1>1. <<>> \in Seq(1 .. MaxWritten) /\ Len(<<>>) = 0
  BY EmptySeq
<1>2. SharedTypeInv
  BY <1>1, WrittenAssumption DEF MPSCInit, SharedTypeInv
<1>3. Stretches
  <2>1. Len(items) = 0 /\ Len(chunk) = 0 /\ Len(passed) = 0 /\ appended = 0
    BY <1>1, Zenon DEF MPSCInit
  <2>2. Passed = 0
    BY <2>1 DEF Passed
  <2> QED
    BY <2>1, <2>2, WrittenAssumption DEF Stretches
<1>4. Holds
  BY DEF MPSCInit, Holds
<1>5. IsFiniteSet(unannounced) /\ Cardinality(unannounced) = 0
  BY FS_EmptySet DEF MPSCInit
<1> QED
  BY <1>1, <1>2, <1>3, <1>4, <1>5 DEF MPSCInit, MPSCInv

\* A step that leaves the queue, the batch and what was passed on alone leaves the stretches.
LEMMA StretchesKept ==
  ASSUME Stretches, UNCHANGED <<items, chunk, appended, passed, refuses>> PROVE Stretches'
<1>1. Passed' = Passed
  BY DEF Passed
<1> QED
  BY <1>1 DEF Stretches

\* An append makes the queue one longer and its writer owes one count.
LEMMA AppendKeeps ==
  ASSUME MPSCInv, NEW w \in Writers, EmplaceBack(w) PROVE MPSCInv'
<1> USE DEF MPSCInv
<1>1. appended + 1 \in 1 .. MaxWritten /\ items \in Seq(1 .. MaxWritten)
  BY WrittenAssumption DEF EmplaceBack, SharedTypeInv
<1>2. /\ items' \in Seq(1 .. MaxWritten) /\ Len(items') = Len(items) + 1
      /\ \A i \in 1 .. Len(items) : items'[i] = items[i]
      /\ items'[Len(items) + 1] = appended + 1
  BY <1>1, AppendProperties DEF EmplaceBack
<1>3. Len(items) \in Nat /\ Len(chunk) \in Nat
  BY LenProperties DEF SharedTypeInv
<1>4. SharedTypeInv'
  BY <1>2 DEF EmplaceBack, SharedTypeInv
<1>5. Passed' = Passed
  BY <1>2, <1>3 DEF EmplaceBack, SharedTypeInv, Passed
<1>6. ASSUME NEW i \in 1 .. Len(items') PROVE items'[i] = Passed + Len(chunk) + i
  <2>1. CASE i = Len(items) + 1
    BY <1>2, <1>3, <2>1 DEF SharedTypeInv, Passed
  <2>2. CASE i # Len(items) + 1
    <3>1. i \in 1 .. Len(items)
      BY <1>2, <1>3, <2>2
    <3> QED
      BY <1>2, <3>1 DEF Stretches
  <2> QED
    BY <2>1, <2>2
<1>7. Stretches'
  <2>1. appended' <= MaxWritten
    BY WrittenAssumption DEF EmplaceBack, SharedTypeInv, Stretches
  <2>2. UNCHANGED <<chunk, passed, refuses>>
    BY Zenon DEF EmplaceBack
  <2> QED
    BY Zenon, <1>5, <1>6, <2>1, <2>2 DEF Stretches
<1>8. Holds'
  BY DEF EmplaceBack, Holds
<1>9. IsFiniteSet(unannounced') /\ Cardinality(unannounced') = Cardinality(unannounced) + 1
  BY FS_AddElement DEF EmplaceBack
<1>10. Cardinality(unannounced) \in Nat
  BY FS_CardinalityType
<1>11. count \in Nat /\ taken \in Nat /\ count' = count /\ taken' = taken
  BY DEF EmplaceBack, SharedTypeInv
<1>12. Len(items') = count' + taken' + Cardinality(unannounced')
  BY <1>2, <1>9, <1>10, <1>11
<1> QED
  BY <1>4, <1>7, <1>8, <1>9, <1>12

\* A writer that counts its item hands the count from itself to the eventfd.
LEMMA CountKeeps ==
  ASSUME MPSCInv, NEW w \in Writers, WriteEvent(w) PROVE MPSCInv'
<1> USE DEF MPSCInv
<1>1. IsFiniteSet(unannounced') /\ Cardinality(unannounced') = Cardinality(unannounced) - 1
  BY FS_RemoveElement DEF WriteEvent
<1>2. Cardinality(unannounced) \in Nat
  BY FS_CardinalityType
<1>3. SharedTypeInv'
  BY DEF WriteEvent, SharedTypeInv
<1>4. Stretches'
  BY StretchesKept DEF WriteEvent
<1>5. Holds'
  BY DEF WriteEvent, Holds
<1> QED
  BY <1>1, <1>2, <1>3, <1>4, <1>5 DEF WriteEvent, SharedTypeInv

\* The reader that clears the eventfd holds the count instead.
LEMMA ReadKeeps == ASSUME MPSCInv, ReadEvent PROVE MPSCInv'
<1> USE DEF MPSCInv
<1>1. SharedTypeInv'
  BY DEF ReadEvent, SharedTypeInv
<1>2. Stretches'
  BY StretchesKept DEF ReadEvent
<1>3. Holds'
  BY DEF ReadEvent, Holds
<1>4. taken = 0
  BY DEF ReadEvent, Holds
<1>5. Cardinality(unannounced) \in Nat
  BY FS_CardinalityType
<1> QED
  BY <1>1, <1>2, <1>3, <1>4, <1>5 DEF ReadEvent, SharedTypeInv

\* What is left of the count goes back to the eventfd.
LEMMA WriteBackKeeps == ASSUME MPSCInv, WriteBack PROVE MPSCInv'
<1> USE DEF MPSCInv
<1>1. SharedTypeInv'
  BY DEF WriteBack, SharedTypeInv
<1>2. Stretches'
  BY StretchesKept DEF WriteBack
<1>3. Holds'
  BY DEF WriteBack, Holds
<1>4. Cardinality(unannounced) \in Nat
  BY FS_CardinalityType
<1> QED
  BY <1>1, <1>2, <1>3, <1>4 DEF WriteBack, SharedTypeInv

\* The batch is as long as the shortest of the count, the queue and the room.
LEMMA BatchSizeIs ==
  ASSUME NEW value \in Nat, Len(items) \in Nat
  PROVE /\ BatchSize(value) \in {value, Len(items), MaxReads}
        /\ BatchSize(value) <= value /\ BatchSize(value) <= Len(items) /\ BatchSize(value) <= MaxReads
<1>1. \E n \in {value, Len(items), MaxReads} : n <= value /\ n <= Len(items) /\ n <= MaxReads
  <2>1. CASE value <= Len(items) /\ value <= MaxReads
    BY <2>1, ReadsAssumption
  <2>2. CASE Len(items) <= value /\ Len(items) <= MaxReads
    BY <2>2, ReadsAssumption
  <2>3. CASE MaxReads <= value /\ MaxReads <= Len(items)
    BY <2>3, ReadsAssumption
  <2> QED
    BY <2>1, <2>2, <2>3, ReadsAssumption
<1> QED
  BY <1>1 DEF BatchSize

\* Taking a batch cuts the queue in two stretches and takes as much from the count.
LEMMA PopKeeps == ASSUME MPSCInv, PopFront PROVE MPSCInv'
<1> USE DEF MPSCInv
<1> DEFINE n == BatchSize(taken)
<1>1. /\ Len(items) \in Nat /\ Cardinality(unannounced) \in Nat /\ taken \in Nat \ {0} /\ count \in Nat
      /\ chunk = <<>> /\ Len(chunk) = 0
  BY LenProperties, FS_CardinalityType, EmptySeq DEF PopFront, SharedTypeInv, Holds
<1>2. n \in Nat \ {0} /\ n <= taken /\ n <= Len(items)
  BY <1>1, BatchSizeIs, ReadsAssumption
<1>3. /\ chunk' = SubSeq(items, 1, n) /\ items' = SubSeq(items, n + 1, Len(items)) /\ taken' = taken - n
      /\ reader' = "popped" /\ UNCHANGED <<count, unannounced, appended, passed, refuses>>
  BY <1>2 DEF PopFront
<1> HIDE DEF n
<1>4. \A i \in 1 .. Len(items) : items[i] \in 1 .. MaxWritten
  BY ElementOfSeq DEF SharedTypeInv
<1>5. /\ chunk' \in Seq(1 .. MaxWritten) /\ Len(chunk') = n
      /\ \A i \in 1 .. n : chunk'[i] = items[i]
  <2>1. \A i \in 1 .. n : items[i] \in 1 .. MaxWritten
    BY <1>1, <1>2, <1>4
  <2>2. /\ SubSeq(items, 1, n) \in Seq(1 .. MaxWritten)
        /\ Len(SubSeq(items, 1, n)) = IF 1 <= n THEN n - 1 + 1 ELSE 0
        /\ \A i \in 1 .. n - 1 + 1 : SubSeq(items, 1, n)[i] = items[1 + i - 1]
    BY <1>2, <2>1, SubSeqProperties
  <2> QED
    BY <1>2, <1>3, <2>2
<1>6. /\ items' \in Seq(1 .. MaxWritten) /\ Len(items') = Len(items) - n
      /\ \A i \in 1 .. Len(items) - n : items'[i] = items[n + i]
  <2>1. \A i \in n + 1 .. Len(items) : items[i] \in 1 .. MaxWritten
    BY <1>1, <1>2, <1>4
  <2>2. /\ SubSeq(items, n + 1, Len(items)) \in Seq(1 .. MaxWritten)
        /\ Len(SubSeq(items, n + 1, Len(items))) = IF n + 1 <= Len(items) THEN Len(items) - (n + 1) + 1 ELSE 0
        /\ \A i \in 1 .. Len(items) - (n + 1) + 1 :
             SubSeq(items, n + 1, Len(items))[i] = items[n + 1 + i - 1]
    BY <1>1, <1>2, <2>1, SubSeqProperties
  <2>3. Len(SubSeq(items, n + 1, Len(items))) = Len(items) - n
    BY <1>1, <1>2, <2>2
  <2>4. ASSUME NEW i \in 1 .. Len(items) - n
        PROVE SubSeq(items, n + 1, Len(items))[i] = items[n + i]
    <3>1. i \in 1 .. Len(items) - (n + 1) + 1 /\ n + 1 + i - 1 = n + i
      BY <1>1, <1>2
    <3> QED
      BY <2>2, <3>1
  <2> QED
    BY <1>3, <2>2, <2>3, <2>4
<1>7. SharedTypeInv'
  <2>1. taken' \in Nat
    BY <1>1, <1>2, <1>3
  <2> QED
    BY <1>3, <1>5, <1>6, <2>1 DEF SharedTypeInv
<1>8. Passed' = Passed /\ Passed \in Int
  <2>1. Passed = appended - Len(items) - 0 /\ appended \in Nat
    BY <1>1 DEF SharedTypeInv, Passed
  <2>2. Passed' = appended - (Len(items) - n) - n
    BY <1>3, <1>5, <1>6 DEF Passed
  <2> QED
    BY <1>1, <1>2, <2>1, <2>2
<1>9. Stretches'
  <2>1. ASSUME NEW i \in 1 .. Len(chunk') PROVE chunk'[i] = Passed + i
    BY <1>1, <1>2, <1>5, <1>8 DEF Stretches
  <2>2. ASSUME NEW i \in 1 .. Len(items') PROVE items'[i] = Passed + Len(chunk') + i
    <3>1. n + i \in 1 .. Len(items)
      BY <1>1, <1>2, <1>6
    <3>2. items'[i] = Passed + 0 + (n + i)
      BY <1>1, <1>6, <3>1 DEF Stretches
    <3> QED
      BY <1>2, <1>5, <1>6, <1>8, <3>2
  <2> QED
    BY <1>3, <1>8, <2>1, <2>2 DEF Stretches
<1>10. Holds'
  BY <1>2, <1>3, <1>5, EmptySeq DEF Holds
<1>11. Cardinality(unannounced') = Cardinality(unannounced) /\ IsFiniteSet(unannounced')
  BY <1>3
<1>12. Len(items') = count' + taken' + Cardinality(unannounced')
  BY <1>1, <1>2, <1>3, <1>6, <1>11
<1> QED
  BY <1>7, <1>9, <1>10, <1>11, <1>12

\* Passing an item on moves the end of the last stretch by one, or past a batch that is dropped.
LEMMA DrainKeeps == ASSUME MPSCInv, DrainShared PROVE MPSCInv'
<1> USE DEF MPSCInv
<1>1. /\ Len(items) \in Nat /\ Len(chunk) \in Nat \ {0} /\ Len(passed) \in Nat /\ appended \in Nat
      /\ Len(<<>>) = 0 /\ <<>> \in Seq(1 .. MaxWritten)
  BY LenProperties, EmptySeq DEF DrainShared, SharedTypeInv
<1>2. Passed \in Nat
  BY <1>1 DEF Passed, Stretches
<1>3. Head(chunk) = Passed + 1 /\ Head(chunk) \in 1 .. MaxWritten
  <2>1. Head(chunk) = chunk[1]
    BY DEF DrainShared, SharedTypeInv
  <2>2. chunk[1] = Passed + 1
    BY <1>1 DEF Stretches
  <2> QED
    BY <2>1, <2>2, HeadTailProperties DEF DrainShared, SharedTypeInv
<1>4. /\ passed' \in Seq(1 .. MaxWritten) /\ Len(passed') = Len(passed) + 1
      /\ \A i \in 1 .. Len(passed) : passed'[i] = passed[i]
      /\ passed'[Len(passed) + 1] = Passed + 1
  BY <1>3, AppendProperties DEF DrainShared, SharedTypeInv
<1>5. /\ Len(Tail(chunk)) = Len(chunk) - 1 /\ Tail(chunk) \in Seq(1 .. MaxWritten)
      /\ \A i \in 1 .. Len(Tail(chunk)) : Tail(chunk)[i] = chunk[i + 1]
  BY HeadTailProperties DEF DrainShared, SharedTypeInv
<1>6. /\ chunk' \in Seq(1 .. MaxWritten) /\ Len(chunk') \in 0 .. Len(chunk) - 1
      /\ ~refuses => Len(chunk') = Len(chunk) - 1
  <2>1. CASE chunk' = Tail(chunk)
    BY <1>1, <1>5, <2>1
  <2>2. CASE refuses /\ chunk' = <<>>
    <3>1. chunk' \in Seq(1 .. MaxWritten) /\ Len(chunk') = 0
      BY <1>1, <2>2, Zenon
    <3> QED
      BY <1>1, <2>2, <3>1
  <2> QED
    BY <2>1, <2>2 DEF DrainShared
<1>7. UNCHANGED <<items, count, unannounced, taken, appended, refuses>> /\ taken = 0
  BY DEF DrainShared, Holds
<1>8. /\ Passed' \in Nat /\ Passed' >= Passed + 1 /\ Passed' + Len(chunk') = Passed + Len(chunk)
      /\ ~refuses => Passed' = Passed + 1
  <2>1. Passed' = appended - Len(items) - Len(chunk')
    BY <1>7 DEF Passed
  <2>2. Passed = appended - Len(items) - Len(chunk)
    BY DEF Passed
  <2>3. Passed' \in Nat /\ Passed' >= Passed + 1 /\ Passed' + Len(chunk') = Passed + Len(chunk)
    BY ONLY <1>1, <1>2, <1>6, <2>1, <2>2
  <2>4. ASSUME Len(chunk') = Len(chunk) - 1 PROVE Passed' = Passed + 1
    BY ONLY <1>1, <2>1, <2>2, <2>4
  <2> QED
    BY <1>6, <2>3, <2>4
<1>9. \A i \in 1 .. Len(chunk') : chunk'[i] = Passed' + i
  <2>1. CASE chunk' = <<>>
    BY <1>1, <2>1
  <2>2. CASE chunk' = Tail(chunk)
    <3> SUFFICES ASSUME NEW i \in 1 .. Len(chunk') PROVE chunk'[i] = Passed' + i
      OBVIOUS
    <3>1. Passed' = Passed + 1
      BY <1>1, <1>2, <1>5, <1>8, <2>2
    <3>2. i + 1 \in 1 .. Len(chunk)
      BY <1>1, <1>5, <2>2
    <3>3. chunk'[i] = Passed + (i + 1)
      BY <1>5, <2>2, <3>2 DEF Stretches
    <3> QED
      BY <1>2, <3>1, <3>2, <3>3
  <2> QED
    BY <2>1, <2>2 DEF DrainShared
<1>10. \A i \in 1 .. Len(items') : items'[i] = Passed' + Len(chunk') + i
  BY <1>7, <1>8 DEF Stretches
<1>11. \A i \in 1 .. Len(passed') : passed'[i] \in 1 .. Passed'
  <2> SUFFICES ASSUME NEW i \in 1 .. Len(passed') PROVE passed'[i] \in 1 .. Passed'
    OBVIOUS
  <2>1. CASE i = Len(passed) + 1
    BY <1>2, <1>4, <1>8, <2>1
  <2>2. CASE i # Len(passed) + 1
    <3>1. i \in 1 .. Len(passed)
      BY <1>1, <1>4, <2>2
    <3>2. passed'[i] \in 1 .. Passed
      BY <1>4, <3>1 DEF Stretches
    <3> QED
      BY <1>2, <1>8, <3>2
  <2> QED
    BY <2>1, <2>2
<1>12. \A i, j \in 1 .. Len(passed') : i < j => passed'[i] < passed'[j]
  <2> SUFFICES ASSUME NEW i \in 1 .. Len(passed'), NEW j \in 1 .. Len(passed'), i < j
               PROVE passed'[i] < passed'[j]
    OBVIOUS
  <2>1. i \in 1 .. Len(passed) /\ passed'[i] = passed[i]
    BY <1>1, <1>4
  <2>2. CASE j = Len(passed) + 1
    <3>1. passed'[j] = Passed + 1 /\ passed[i] \in 1 .. Passed
      BY <1>4, <2>1, <2>2 DEF Stretches
    <3> QED
      BY <1>2, <2>1, <3>1
  <2>3. CASE j # Len(passed) + 1
    <3>1. j \in 1 .. Len(passed)
      BY <1>1, <1>4, <2>3
    <3> QED
      BY <1>4, <2>1, <3>1 DEF Stretches
  <2> QED
    BY <2>2, <2>3
<1>13. ~refuses => Len(passed') = Passed' /\ \A i \in 1 .. Len(passed') : passed'[i] = i
  <2> SUFFICES ASSUME ~refuses
               PROVE Len(passed') = Passed' /\ \A i \in 1 .. Len(passed') : passed'[i] = i
    OBVIOUS
  <2>1. Len(passed) = Passed /\ \A i \in 1 .. Len(passed) : passed[i] = i
    BY DEF Stretches
  <2>2. Len(passed') = Passed'
    BY <1>4, <1>8, <2>1
  <2>3. ASSUME NEW i \in 1 .. Len(passed') PROVE passed'[i] = i
    BY <1>1, <1>4, <2>1
  <2> QED
    BY <2>2, <2>3
<1>14. Stretches'
  BY <1>7, <1>8, <1>9, <1>10, <1>11, <1>12, <1>13 DEF Stretches
<1>15. SharedTypeInv'
  BY <1>4, <1>6, <1>7 DEF DrainShared, SharedTypeInv
<1>16. Holds'
  BY <1>7 DEF DrainShared, Holds
<1> QED
  BY <1>7, <1>14, <1>15, <1>16

\* The invariant implies what SharedQueueSafe says: the three stretches are the order of the appends.
LEMMA InvSafe == ASSUME MPSCInv PROVE SharedQueueSafe
<1> USE DEF MPSCInv
<1>1. /\ Len(items) \in Nat /\ Len(chunk) \in Nat /\ Len(passed) \in Nat
      /\ DOMAIN passed = 1 .. Len(passed)
  BY LenProperties DEF SharedTypeInv
<1>2. Counted
  <2>1. Cardinality(unannounced) \in Nat
    BY FS_CardinalityType
  <2>2. ASSUME reader = "read" PROVE items # <<>>
    <3>1. Len(items) > 0
      BY <2>1, <2>2 DEF SharedTypeInv, Holds
    <3> QED
      BY <3>1, EmptySeq
  <2> QED
    BY <2>2 DEF Counted
<1>3. ASSUME ~refuses PROVE passed \o chunk \o items = [i \in 1 .. appended |-> i]
  <2> DEFINE front == passed \o chunk
             all == front \o items
  <2>1. /\ front \in Seq(1 .. MaxWritten) /\ Len(front) = Len(passed) + Len(chunk)
        /\ \A i \in 1 .. Len(passed) + Len(chunk) :
             front[i] = IF i <= Len(passed) THEN passed[i] ELSE chunk[i - Len(passed)]
    BY ConcatProperties DEF SharedTypeInv
  <2> HIDE DEF front
  <2>0. front \in Seq(1 .. MaxWritten) /\ items \in Seq(1 .. MaxWritten)
    BY <2>1 DEF SharedTypeInv
  <2>2. /\ all \in Seq(1 .. MaxWritten) /\ Len(all) = Len(front) + Len(items)
        /\ \A i \in 1 .. Len(front) + Len(items) :
             all[i] = IF i <= Len(front) THEN front[i] ELSE items[i - Len(front)]
    BY ONLY <2>0, ConcatProperties, Zenon
  <2> HIDE DEF all
  <2>3. Len(passed) = appended - Len(items) - Len(chunk) /\ Len(passed) = Passed
    BY <1>3 DEF Stretches, Passed
  <2>4. Len(all) = appended
    <3>1. Len(all) = Len(passed) + Len(chunk) + Len(items)
      BY <2>1, <2>2
    <3>2. Len(passed) = appended - Len(items) - Len(chunk)
      BY <2>3
    <3>3. Len(items) \in Nat /\ Len(chunk) \in Nat /\ appended \in Nat
      BY <1>1 DEF SharedTypeInv
    <3> HIDE DEF MPSCInv
    <3> QED
      BY <3>1, <3>2, <3>3
  <2>5. ASSUME NEW i \in 1 .. appended PROVE all[i] = i
    <3>1. CASE i <= Len(passed)
      <4>1. all[i] = passed[i]
        BY <1>1, <2>1, <2>2, <2>4, <3>1
      <4> QED
        BY <1>1, <1>3, <3>1, <4>1 DEF Stretches
    <3>2. CASE i > Len(passed) /\ i <= Len(front)
      <4>1. all[i] = chunk[i - Len(passed)] /\ i - Len(passed) \in 1 .. Len(chunk)
        BY <1>1, <2>1, <2>2, <2>4, <3>2
      <4> QED
        BY <1>1, <2>3, <4>1 DEF Stretches
    <3>3. CASE i > Len(front)
      <4>1. all[i] = items[i - Len(front)] /\ i - Len(front) \in 1 .. Len(items)
        BY <1>1, <2>1, <2>2, <2>4, <3>3
      <4> QED
        <5>1. items[i - Len(front)] = Passed + Len(chunk) + (i - Len(front))
          BY <4>1 DEF Stretches
        <5>2. Len(front) = Passed + Len(chunk)
          BY <2>1, <2>3
        <5> QED
          BY <1>1, <2>3, <4>1, <5>1, <5>2
    <3> QED
      BY <1>1, <2>1, <3>1, <3>2, <3>3
  <2>6. all \in [1 .. appended -> 1 .. MaxWritten]
    BY <2>2, <2>4, LenProperties
  <2>7. all = [i \in 1 .. appended |-> i]
    BY <2>5, <2>6
  <2> QED
    BY <2>7 DEF all, front
<1>4. SharedInOrder
  BY <1>1, <1>3 DEF SharedInOrder, Stretches
<1> QED
  BY <1>2, <1>4 DEF SharedQueueSafe

\* The count and the queue never disagree and the queue is first in, first out
\* (TryRead, Write, Drain), for any set of writers, batch size and number of items.
THEOREM QueueOfManyWriters == MPSCSpec => []SharedQueueSafe
<1>1. MPSCInit => MPSCInv
  BY InitInv
<1>2. MPSCInv /\ [MPSCNext]_mpscVars => MPSCInv'
  <2> SUFFICES ASSUME MPSCInv, [MPSCNext]_mpscVars PROVE MPSCInv'
    OBVIOUS
  <2>1. CASE ReadEvent
    BY <2>1, ReadKeeps
  <2>2. CASE PopFront
    BY <2>2, PopKeeps
  <2>3. CASE WriteBack
    BY <2>3, WriteBackKeeps
  <2>4. CASE DrainShared
    BY <2>4, DrainKeeps
  <2>5. ASSUME NEW w \in Writers, EmplaceBack(w) PROVE MPSCInv'
    BY <2>5, AppendKeeps
  <2>6. ASSUME NEW w \in Writers, WriteEvent(w) PROVE MPSCInv'
    BY <2>6, CountKeeps
  <2>7. CASE UNCHANGED mpscVars
    <3>1. SharedTypeInv' /\ Holds'
      BY <2>7 DEF mpscVars, MPSCInv, SharedTypeInv, Holds
    <3>2. Stretches'
      BY <2>7, StretchesKept DEF mpscVars, MPSCInv
    <3> QED
      BY <2>7, <3>1, <3>2 DEF mpscVars, MPSCInv
  <2> QED
    BY <2>1, <2>2, <2>3, <2>4, <2>5, <2>6, <2>7 DEF MPSCNext, ReadStep, WriteShared, TryWriteShared
<1>3. MPSCInv => SharedQueueSafe
  BY InvSafe
<1> QED
  BY <1>1, <1>2, <1>3, PTL DEF MPSCSpec

=============================================================================
