----------------------------- MODULE Containers -----------------------------
(***************************************************************************)
(* The containers the components share: the map that an event loop drains  *)
(* (messages/observable_map.h, on the linked map of                        *)
(* util/common/linked_map.h), the set that it drains (observable_set.h and *)
(* observable_container.h), the factory of shared values                   *)
(* (ref_count_flyweight.h), the byte queue between two threads             *)
(* (heterogeneous_queue.h) and thread-local pointers (thread_local.cc).    *)
(* The five are independent of each other, each has its own variables,     *)
(* initial state and next-state relation.                                  *)
(***************************************************************************)
EXTENDS Integers, Sequences, FiniteSets
LOCAL S == INSTANCE SequencesExt

CONSTANTS
  Keys,             \* keys of the map and members of the set
  MaxWrites,        \* bound: writes to the map, additions to the set
  Handles,          \* the flyweights
  Buffer,           \* the size the byte queue is asked for
  Types,            \* the size and the alignment of the values written, <<size, align>>
  MaxValues,        \* bound: values written to the byte queue
  Threads, Pointers,
  Managed,          \* the ThreadLocalPtrs made with a handler
  MaxObjects,       \* bound: objects ever stored
  MaxLives          \* bound: how often a thread starts and a ThreadLocalPtr is made

-----------------------------------------------------------------------------
(* ObservableMap.  Drain erases an element, keeps the iterator of the next *)
(* one, and calls the reader, which may write to the map again (a reader   *)
(* that backs off puts its subscription back) or refuse more.  The user's  *)
(* callbacks do not remove.                                                *)

VARIABLES list,          \* list_: keys in the order they are read
          index,         \* index_: the keys it finds
          held,          \* the value of every key in the list, the number of its last write
          readyFd,       \* the counter of read_ready_fd_
          next,          \* the iterator of Drain: NotDraining, End, or the key it refers to
          mapWrites,     \* number of writes so far
          inserted,      \* for each key, the write that inserted it
          read           \* the last element read: the writes that inserted it and gave its value

mapVars == <<list, index, held, readyFd, next, mapWrites, inserted, read>>

NotDraining == "not draining"
End == "end"

MapInit ==
  /\ list = <<>> /\ index = {} /\ held = [k \in Keys |-> 0] /\ readyFd = 0
  /\ next = NotDraining /\ mapWrites = 0 /\ inserted = [k \in Keys |-> 0]
  /\ read = <<0, 0>>

\* LinkedBase: emplace_back puts a node at the end of the list, and takes it out again when
\* its key is in the index already; erase takes the key out of both.
emplace_back(l, ix, k) == IF k \in ix THEN l ELSE Append(l, k)
erase(l, k) == SelectSeq(l, LAMBDA x : x # k)
FindNext(l, k) == IF k = S!Last(l) THEN End ELSE l[2]

\* The first insertion makes the descriptor readable.
Announced(l, fd) == fd + IF l = <<>> THEN 1 ELSE 0

\* Write, to a map with list l and index ix: inserts the key or updates its value.
Write(l, ix, k) ==
  /\ mapWrites < MaxWrites /\ mapWrites' = mapWrites + 1
  /\ list' = emplace_back(l, ix, k) /\ index' = ix \cup {k}
  /\ held' = [held EXCEPT ![k] = mapWrites + 1]
  /\ inserted' = IF k \in ix THEN inserted ELSE [inserted EXCEPT ![k] = mapWrites + 1]

WriteOutside(k) ==
  /\ next = NotDraining /\ Write(list, index, k)
  /\ readyFd' = Announced(list, readyFd)
  /\ UNCHANGED <<next, read>>

\* Remove: the last key takes the readiness with it.
RemoveKey(k) ==
  /\ next = NotDraining /\ k \in index
  /\ list' = erase(list, k) /\ index' = index \ {k}
  /\ readyFd' = IF list' = <<>> THEN 0 ELSE readyFd
  /\ UNCHANGED <<held, next, mapWrites, inserted, read>>

\* The loop calls Drain while the descriptor is readable.
DrainMap ==
  /\ next = NotDraining /\ readyFd > 0 /\ list # <<>>
  /\ next' = Head(list)
  /\ UNCHANGED <<list, index, held, readyFd, mapWrites, inserted, read>>

\* One turn of the loop in Drain: the element is erased and given to the reader, which writes
\* a key or nothing, and accepts more or not.
DrainMapOne ==
  /\ next \in Keys
  /\ read' = <<inserted[next], held[next]>>
  /\ LET l == erase(list, next)
         ix == index \ {next} IN
     \E more \in BOOLEAN, writes \in BOOLEAN :
       /\ \/ ~writes /\ list' = l /\ index' = ix /\ UNCHANGED <<held, mapWrites, inserted>>
          \/ writes /\ \E k \in Keys : Write(l, ix, k)
       /\ next' = IF more /\ FindNext(list, next) # End THEN FindNext(list, next) ELSE NotDraining
       /\ readyFd' = IF next' = NotDraining /\ list' = <<>> THEN 0
                     ELSE IF writes THEN Announced(l, readyFd) ELSE readyFd

MapNext == DrainMap \/ DrainMapOne \/ \E k \in Keys : WriteOutside(k) \/ RemoveKey(k)

\* Reads of the event descriptor find a value (the assertions of Drain and Remove), and a map
\* with something to read is readable, an empty one is not.
MapReadable == (list # <<>>) = (readyFd > 0)

\* The index finds exactly the keys of the list, each of them once.
Linked == Cardinality(S!ToSet(list)) = Len(list) /\ index = S!ToSet(list)

\* Keys are read in the order they were inserted in, whatever was written to them since, and
\* with the last value written.
InsertionOrder ==
  /\ \A i \in 1 .. Len(list) : held[list[i]] >= inserted[list[i]]
  /\ \A i, j \in 1 .. Len(list) : i < j => inserted[list[i]] < inserted[list[j]]
  /\ \A i \in 1 .. Len(list) : read[1] < inserted[list[i]]

-----------------------------------------------------------------------------
(* ObservableSet, an ObservableContainer of an unordered set.  The reader  *)
(* may change the set in any way; Drain then stops, for its iterator may   *)
(* be invalid, and leaves the rest to the next event.                      *)

VARIABLES members,       \* container_
          notified,      \* read_ready_ is notified
          changed,       \* changed_
          draining,      \* where Drain is: "no", "loop", "end"
          changed_orig,  \* its local copy of changed_
          additions      \* number of additions so far

setVars == <<members, notified, changed, draining, changed_orig, additions>>

SetInit ==
  /\ members = {} /\ notified = FALSE /\ changed = FALSE
  /\ draining = "no" /\ changed_orig = FALSE /\ additions = 0

AdjustReadability == notified' = (members' # {})

\* Modify, with the set the functor leaves.
Modify(new) == changed' = TRUE /\ members' = new /\ AdjustReadability

\* Add, Remove and Clear; the last two do not touch a set without the key, or an empty one.
Add(set, k) == additions < MaxWrites /\ additions' = additions + 1 /\ Modify(set \cup {k})
RemoveMember(set, k) == k \in set /\ Modify(set \ {k}) /\ UNCHANGED additions
Clear(set) == set # {} /\ Modify({}) /\ UNCHANGED additions

Change(set) == Clear(set) \/ \E k \in Keys : Add(set, k) \/ RemoveMember(set, k)

ChangeOutside == draining = "no" /\ Change(members) /\ UNCHANGED <<draining, changed_orig>>

DrainSet ==
  /\ draining = "no" /\ notified
  /\ draining' = "loop" /\ changed_orig' = changed /\ changed' = FALSE
  /\ UNCHANGED <<members, notified, additions>>

\* One turn of the loop of Drain: some member is taken out and read; the reader may change the
\* set, and may refuse more.
DrainSetOne ==
  /\ draining = "loop" /\ ~changed
  /\ \E k \in members :
       \/ Change(members \ {k})
       \/ members' = members \ {k} /\ UNCHANGED <<notified, changed, additions>>
  /\ draining' \in {"loop", "end"}
  /\ UNCHANGED changed_orig

DrainSetEnds ==
  /\ draining = "end" \/ (draining = "loop" /\ (changed \/ members = {}))
  /\ draining' = "no" /\ changed' = changed_orig
  /\ UNCHANGED <<members, changed_orig, additions>> /\ AdjustReadability

SetNext == ChangeOutside \/ DrainSet \/ DrainSetOne \/ DrainSetEnds

\* Between two calls a set is readable exactly when it has a member: what a reader refused, or
\* what it added while it was called, is read later, and an empty set wakes nobody.
SetReadable == draining = "no" => notified = (members # {})

-----------------------------------------------------------------------------
(* The flyweights: handles on values that exist once each, for as long as  *)
(* a handle refers to them.  The map of the values outlives the factory    *)
(* while a value is left in it.  A flyweight is not assigned to itself.    *)

VARIABLES handle,        \* object_info_ of each flyweight, its value, or NoObject
          ref_count,     \* ref_count_ of the values in the map
          factory        \* the factory exists

flyweightVars == <<handle, ref_count, factory>>
NoObject == "none"

FlyweightInit ==
  handle = [h \in Handles |-> NoObject] /\ ref_count = [k \in {} |-> 0] /\ factory = TRUE

AddRef(rc, k) == IF k = NoObject THEN rc
                 ELSE [x \in DOMAIN rc \cup {k} |-> IF x # k THEN rc[x]
                                                    ELSE IF k \in DOMAIN rc THEN rc[k] + 1 ELSE 1]
\* The last reference erases the value.
Release(rc, k) == IF k = NoObject THEN rc
                  ELSE IF rc[k] = 1 THEN [x \in DOMAIN rc \ {k} |-> rc[x]] ELSE [rc EXCEPT ![k] = @ - 1]

\* GetFlyweight finds the value or makes it; the result is moved into h.
GetFlyweight(h, k) ==
  /\ factory
  /\ ref_count' = Release(AddRef(ref_count, k), handle[h])
  /\ handle' = [handle EXCEPT ![h] = k]
  /\ UNCHANGED factory

\* Copy assignment releases what h refers to before it takes the other's reference.
Assign(h, g) ==
  /\ h # g
  /\ ref_count' = AddRef(Release(ref_count, handle[h]), handle[g])
  /\ handle' = [handle EXCEPT ![h] = handle[g]]
  /\ UNCHANGED factory

Move(h, g) ==
  /\ h # g
  /\ ref_count' = Release(ref_count, handle[h])
  /\ handle' = [handle EXCEPT ![h] = handle[g], ![g] = NoObject]
  /\ UNCHANGED factory

DestroyHandle(h) ==
  /\ ref_count' = Release(ref_count, handle[h])
  /\ handle' = [handle EXCEPT ![h] = NoObject]
  /\ UNCHANGED factory

DestroyFactory == factory /\ factory' = FALSE /\ UNCHANGED <<handle, ref_count>>

FlyweightNext ==
  \/ \E h \in Handles : DestroyHandle(h) \/ \E k \in Keys : GetFlyweight(h, k)
  \/ \E h, g \in Handles : Assign(h, g) \/ Move(h, g)
  \/ DestroyFactory

\* A value is in the map while flyweights refer to it, with their number as its count: Get
\* never follows a pointer to an erased value, and the map empties when the last one goes.
CountedFlyweights ==
  /\ DOMAIN ref_count = {handle[h] : h \in Handles} \ {NoObject}
  /\ \A k \in DOMAIN ref_count : ref_count[k] = Cardinality({h \in Handles : handle[h] = k})

-----------------------------------------------------------------------------
(* HeterogeneousQueue: one thread writes values of several types into a    *)
(* ring of bytes, alone or several in a transaction, another one reads     *)
(* them and knows, from what it has read before, which type is next.       *)

VARIABLES cells,            \* buffer_: for each byte the value it belongs to, 0 for none
          write_index, committed_index, read_index,
          read_index_cached, committed_index_cached,
          tx,               \* the transaction: whether it has writes, success_, rollback_index_
          taking,           \* read_index_ once the value just taken out is gone, or NotTaking
          values,           \* number of values written so far
          uncommitted,      \* the values of the transaction, with their types
          unread,           \* the committed values that are not read, with their types
          gotValue          \* what the last read found in the bytes, and what it should find

bytesVars == <<cells, write_index, committed_index, read_index, read_index_cached,
               committed_index_cached, tx, taking, values, uncommitted, unread, gotValue>>
writerVars == <<write_index, committed_index, read_index_cached, tx, values, uncommitted>>

NotTaking == -1

\* The constructor rounds the size up to a power of two.
buffer_size == CHOOSE n \in {2 ^ i : i \in 0 .. Buffer} : n >= Buffer /\ n < 2 * Buffer

BytesInit ==
  /\ cells = [c \in 0 .. buffer_size - 1 |-> 0]
  /\ write_index = 0 /\ committed_index = 0 /\ read_index = 0
  /\ read_index_cached = 0 /\ committed_index_cached = 0
  /\ tx = [writes |-> FALSE, success |-> TRUE, rollback |-> 0] /\ taking = NotTaking
  /\ values = 0 /\ uncommitted = <<>> /\ unread = <<>> /\ gotValue = <<{0}, 0>>

Align(i, align) == ((i + align - 1) \div align) * align

\* Where a value of a type goes: aligned, and not across the end of the buffer.
AdjustIndex(i, type) ==
  LET aligned == Align(i, type[2])
      last == aligned + type[1] - 1 IN
  IF last \div buffer_size # aligned \div buffer_size THEN Align(aligned, buffer_size) ELSE aligned

Bytes(first, type) == {i % buffer_size : i \in first .. first + type[1] - 1}
Place(type) == AdjustIndex(write_index, type)
AfterPlace(type) == Place(type) + type[1]

\* read_index_cached_ after the check for space: read again only when there seems to be none.
ReadIndexSeen(type) ==
  IF AfterPlace(type) >= read_index_cached + buffer_size THEN read_index ELSE read_index_cached
HasSpace(type) == AfterPlace(type) < ReadIndexSeen(type) + buffer_size

\* WriteUncommitted, when there is space.
WriteUncommitted(type) ==
  /\ cells' = [c \in DOMAIN cells |-> IF c \in Bytes(Place(type), type) THEN values + 1 ELSE cells[c]]
  /\ write_index' = AfterPlace(type)

\* Write of a single value: all or nothing.
WriteOne(type) ==
  /\ ~tx.writes /\ values < MaxValues /\ values' = values + 1
  /\ read_index_cached' = ReadIndexSeen(type)
  /\ IF HasSpace(type)
       THEN /\ WriteUncommitted(type) /\ committed_index' = AfterPlace(type)
            /\ unread' = Append(unread, <<type, values + 1>>)
       ELSE UNCHANGED <<cells, write_index, committed_index, unread>>
  /\ UNCHANGED <<read_index, committed_index_cached, tx, taking, uncommitted, gotValue>>

\* Transaction::Write; after a write that failed the others do nothing.
TransactionWrite(type) ==
  /\ values < MaxValues /\ values' = values + 1
  /\ LET fits == tx.success /\ HasSpace(type) IN
       /\ tx' = [writes |-> TRUE, success |-> fits,
                 rollback |-> IF tx.writes THEN tx.rollback ELSE write_index]
       /\ read_index_cached' = IF tx.success THEN ReadIndexSeen(type) ELSE read_index_cached
       /\ IF fits THEN WriteUncommitted(type) /\ uncommitted' = Append(uncommitted, <<type, values + 1>>)
                  ELSE UNCHANGED <<cells, write_index, uncommitted>>
  /\ UNCHANGED <<committed_index, read_index, committed_index_cached, taking, unread, gotValue>>

\* Commit shows all the writes, or takes them all back.
Commit ==
  /\ tx.writes
  /\ tx' = [writes |-> FALSE, success |-> TRUE, rollback |-> IF tx.success THEN write_index ELSE tx.rollback]
  /\ IF tx.success THEN committed_index' = write_index /\ unread' = unread \o uncommitted /\ UNCHANGED write_index
                   ELSE write_index' = tx.rollback /\ UNCHANGED <<committed_index, unread>>
  /\ uncommitted' = <<>>
  /\ UNCHANGED <<cells, read_index, read_index_cached, committed_index_cached, taking, values, gotValue>>

CommittedSeen == IF read_index = committed_index_cached THEN committed_index ELSE committed_index_cached

\* Read takes the value out of its bytes and destroys it, or finds the queue empty, ...
ReadValue ==
  /\ taking = NotTaking
  /\ committed_index_cached' = CommittedSeen
  /\ IF read_index = CommittedSeen
       THEN UNCHANGED <<cells, taking, unread, gotValue>>
       ELSE LET type == Head(unread)[1]
                first == AdjustIndex(read_index, type) IN
            /\ gotValue' = <<{cells[c] : c \in Bytes(first, type)}, Head(unread)[2]>>
            /\ cells' = [c \in DOMAIN cells |-> IF c \in Bytes(first, type) THEN 0 ELSE cells[c]]
            /\ taking' = first + type[1] /\ unread' = Tail(unread)
  /\ UNCHANGED <<writerVars, read_index>>

\* ... and then gives the space back.
ReadDone ==
  /\ taking # NotTaking /\ read_index' = taking /\ taking' = NotTaking
  /\ UNCHANGED <<writerVars, cells, committed_index_cached, unread, gotValue>>

BytesNext ==
  \/ \E type \in Types : WriteOne(type) \/ TransactionWrite(type)
  \/ Commit \/ ReadValue \/ ReadDone

\* The reader finds each committed value whole, in the order written, with nothing of a
\* transaction that is open or rolled back; it sees the queue as empty only when it is or when
\* a commit is too recent; and nothing is written over a value before it is read.
BytesWhole ==
  /\ gotValue[1] = {gotValue[2]}
  /\ \A i \in 1 .. Len(unread) : Cardinality({c \in DOMAIN cells : cells[c] = unread[i][2]}) = unread[i][1][1]
  /\ tx.success => \A i \in 1 .. Len(uncommitted) :
       Cardinality({c \in DOMAIN cells : cells[c] = uncommitted[i][2]}) = uncommitted[i][1][1]
  /\ unread = <<>> <=> committed_index = IF taking = NotTaking THEN read_index ELSE taking

-----------------------------------------------------------------------------
(* ThreadLocalPtr.  Every one has a number, every thread a vector of       *)
(* pointers indexed by these numbers, and a number is used again once its  *)
(* ThreadLocalPtr is destroyed.  A pointer still stored is released        *)
(* through the handler of its ThreadLocalPtr, when the thread ends or when *)
(* the ThreadLocalPtr is destroyed, whichever is first.  A critical        *)
(* section of the one mutex is one step; what a thread does to its own     *)
(* vector without the mutex is another.                                    *)

VARIABLES id,              \* id_ of each ThreadLocalPtr, NoId for one that does not exist
          constructing,    \* ThreadLocalPtrs that have their number but not yet their handler
          nextId, freeIds, \* next_instance_id_, free_instance_ids_
          handlers,        \* the keys of handler_map_ that have a handler
          chain,           \* the threads whose ThreadData is linked behind head_
          entries,         \* the vector of each thread, Null where nothing is stored
          call,            \* the call each thread is in: operation, pointer, new and expected object
          objects,         \* for each object, the thread and the pointer it was stored for
          unreffed,        \* how often the handler ran on each object
          taken,           \* objects that went back to the caller
          lives            \* how often each thread ended and each ThreadLocalPtr was made

threadLocalVars == <<id, constructing, nextId, freeIds, handlers, chain, entries, call,
                     objects, unreffed, taken, lives>>
meta == <<id, constructing, nextId, freeIds, handlers>>

NoId == -1
Null == 0
Idle == <<"idle">>
Stored(t, p) == IF id[p] # NoId /\ id[p] < Len(entries[t]) THEN entries[t][id[p] + 1] ELSE Null

\* The StaticMeta singleton before anything is made.
PointersInit ==
  /\ id = [p \in Pointers |-> NoId] /\ constructing = {}
  /\ nextId = 0 /\ freeIds = <<>> /\ handlers = {}
  /\ chain = <<>> /\ entries = [t \in Threads |-> <<>>]
  /\ call = [t \in Threads |-> Idle]
  /\ objects = <<>> /\ unreffed = [o \in 1 .. MaxObjects |-> 0] /\ taken = {}
  /\ lives = [x \in Threads \cup Pointers |-> 0]

\* A released number is used again, the last one first.
GetId == IF freeIds = <<>> THEN nextId ELSE S!Last(freeIds)

Construct(p) ==
  /\ id[p] = NoId /\ lives[p] < MaxLives
  /\ id' = [id EXCEPT ![p] = GetId]
  /\ IF freeIds = <<>> THEN nextId' = nextId + 1 /\ UNCHANGED freeIds
                       ELSE freeIds' = S!Front(freeIds) /\ UNCHANGED nextId
  /\ constructing' = constructing \cup ({p} \cap Managed)
  /\ lives' = [lives EXCEPT ![p] = @ + 1]
  /\ UNCHANGED <<handlers, chain, entries, call, objects, unreffed, taken>>

\* The constructor's second critical section.
SetHandler(p) ==
  /\ p \in constructing
  /\ constructing' = constructing \ {p}
  /\ handlers' = handlers \cup {id[p]}
  /\ UNCHANGED <<id, nextId, freeIds, chain, entries, call, objects, unreffed, taken, lives>>

\* The vectors once the values stored under a number are taken out of all threads' data.
ReclaimId(i) ==
  [t \in Threads |-> IF t \in S!ToSet(chain) /\ i < Len(entries[t])
                       THEN [entries[t] EXCEPT ![i + 1] = Null] ELSE entries[t]]

\* Runs the handler on these objects.
Unref(gone) == unreffed' = [o \in 1 .. MaxObjects |-> unreffed[o] + IF o \in gone THEN 1 ELSE 0]

\* The destructor; nobody may be in a call on the object that is destroyed.
Destroy(p) ==
  /\ id[p] # NoId /\ p \notin constructing
  /\ \A t \in Threads : call[t] # Idle => call[t][2] # p
  /\ Unref(IF id[p] \in handlers
             THEN {Stored(t, p) : t \in S!ToSet(chain)} \ {Null} ELSE {})
  /\ entries' = ReclaimId(id[p])
  /\ handlers' = handlers \ {id[p]}
  /\ freeIds' = Append(freeIds, id[p])
  /\ id' = [id EXCEPT ![p] = NoId]
  /\ UNCHANGED <<constructing, nextId, chain, call, objects, taken, lives>>

\* A thread that calls for the first time adds its data to the chain.
GetThreadLocal(t) == chain' = IF t \in S!ToSet(chain) THEN chain ELSE Append(chain, t)

NewObject(t, p, op, expected) ==
  /\ Len(objects) < MaxObjects
  /\ objects' = Append(objects, [thread |-> t, threadLife |-> lives[t],
                                 pointer |-> p, pointerLife |-> lives[p]])
  /\ call' = [call EXCEPT ![t] = <<op, p, Len(objects) + 1, expected>>]
  /\ UNCHANGED <<meta, entries, unreffed, taken, lives>>

Usable(t, p) == id[p] # NoId /\ p \notin constructing /\ call[t] = Idle

\* ThreadLocalObject::GetThreadLocal, when nothing is stored yet: the object is made, to be stored.
GetCreates(t, p) ==
  /\ Usable(t, p) /\ Stored(t, p) = Null
  /\ GetThreadLocal(t) /\ NewObject(t, p, "reset", Null)

\* Swap, and CompareAndSwap with the value that was read or with one that is outdated.
Swap(t, p) == Usable(t, p) /\ GetThreadLocal(t) /\ NewObject(t, p, "swap", Null)

CompareAndSwap(t, p, expected) ==
  Usable(t, p) /\ GetThreadLocal(t) /\ NewObject(t, p, "cas", expected)

\* The vector grows under the mutex, which is what ReclaimId holds when it reads it.
Resize(t) ==
  /\ call[t] # Idle
  /\ LET i == id[call[t][2]] IN
       /\ i >= Len(entries[t])
       /\ entries' = [entries EXCEPT ![t] = [n \in 1 .. i + 1 |->
                                               IF n <= Len(@) THEN @[n] ELSE Null]]
  /\ UNCHANGED <<meta, chain, call, objects, unreffed, taken, lives>>

\* The store, exchange or compare-exchange that ends the call, without the mutex.
Store(t) ==
  /\ call[t] # Idle
  /\ LET op == call[t][1]
         i == id[call[t][2]] + 1
         o == call[t][3]
         fits == op # "cas" \/ entries[t][i] = call[t][4] IN
       /\ i <= Len(entries[t])
       /\ entries' = [entries EXCEPT ![t][i] = IF fits THEN o ELSE @]
       /\ taken' = IF op = "reset" THEN taken
                   ELSE taken \cup (({IF fits THEN entries[t][i] ELSE o}) \ {Null})
  /\ call' = [call EXCEPT ![t] = Idle]
  /\ UNCHANGED <<meta, chain, objects, unreffed, lives>>

\* The thread ends: its data leaves the chain, and what is still stored is released.
OnThreadExit(t) ==
  /\ call[t] = Idle /\ t \in S!ToSet(chain) /\ lives[t] < MaxLives
  /\ chain' = SelectSeq(chain, LAMBDA u : u # t)
  /\ Unref({entries[t][n] : n \in {m \in 1 .. Len(entries[t]) : m - 1 \in handlers}} \ {Null})
  /\ entries' = [entries EXCEPT ![t] = <<>>]
  /\ lives' = [lives EXCEPT ![t] = @ + 1]
  /\ UNCHANGED <<meta, call, objects, taken>>

PointersNext ==
  \/ \E p \in Pointers : Construct(p) \/ SetHandler(p) \/ Destroy(p)
  \/ \E t \in Threads : Resize(t) \/ Store(t) \/ OnThreadExit(t)
  \/ \E t \in Threads, p \in Pointers :
       GetCreates(t, p) \/ Swap(t, p) \/ \E e \in {Null, Stored(t, p)} : CompareAndSwap(t, p, e)

\* Type invariant of the numbers, the handlers and the entries of the threads.
PointersTypeInv ==
  /\ id \in [Pointers -> NoId .. nextId - 1] /\ constructing \subseteq Pointers
  /\ handlers \subseteq 0 .. nextId - 1
  /\ \A t \in Threads : S!ToSet(entries[t]) \subseteq Null .. Len(objects)

Live == {p \in Pointers : id[p] # NoId}

\* The numbers of living ThreadLocalPtrs differ, and the others wait in the free list.
NumbersApart ==
  /\ \A p, q \in Live : id[p] = id[q] => p = q
  /\ S!ToSet(freeIds) = (0 .. nextId - 1) \ {id[p] : p \in Live}
  /\ Cardinality(S!ToSet(freeIds)) = Len(freeIds)

\* A thread finds under a number what it stored itself, for the ThreadLocalPtr that has the
\* number now, never what an earlier thread or an earlier owner of the number left.
OwnEntries ==
  \A t \in Threads, n \in 1 .. nextId :
    n <= Len(entries[t]) /\ entries[t][n] # Null =>
      LET o == objects[entries[t][n]] IN
        o.thread = t /\ o.threadLife = lives[t] /\ id[o.pointer] = n - 1 /\ o.pointerLife = lives[o.pointer]

Ended(o) == objects[o].threadLife < lives[objects[o].thread]
            \/ objects[o].pointerLife < lives[objects[o].pointer] \/ id[objects[o].pointer] = NoId

\* The handler runs once on every object that is still stored when its thread or its
\* ThreadLocalPtr ends, and on no other (OnThreadExit, ReclaimId).
ReleasedOnce ==
  \A o \in 1 .. Len(objects) :
    unreffed[o] = IF objects[o].pointer \in Managed /\ o \notin taken /\ Ended(o) THEN 1 ELSE 0

\* What threads can rely on when ThreadLocalPtrs and threads come and go.
ThreadLocalSafe == PointersTypeInv /\ NumbersApart /\ OwnEntries /\ ReleasedOnce
=============================================================================
