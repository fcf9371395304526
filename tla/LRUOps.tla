------------------------------- MODULE LRUOps -------------------------------
(***************************************************************************)
(* The operations of the LRU cache (util/cache.cc) as functions of its     *)
(* state.  An entry is counted in refs once by the hash table and once by  *)
(* every handle given out; it is on the LRU list, oldest first, when only  *)
(* the table refers to it.  The hash table is what Find computes.          *)
(***************************************************************************)
EXTENDS Integers, Sequences, FiniteSetsExt, SequencesExt

CONSTANT NoEntry

NewCache(Ids, capacity) ==
  [capacity |-> capacity, usage |-> 0, lruUsage |-> 0, lru |-> <<>>,
   entry |-> [id \in Ids |-> NoEntry]]

Live(c) == {id \in DOMAIN c.entry : c.entry[id] # NoEntry}

\* HandleTable::Lookup: the entries of the table that have the key.
Find(c, key) == {id \in Live(c) : c.entry[id].inCache /\ c.entry[id].key = key}

Charge(c, ids) == FoldSet(LAMBDA id, sum : sum + c.entry[id].charge, 0, ids)

LRU_Remove(c, id) ==
  [c EXCEPT !.lru = SelectSeq(@, LAMBDA e : e # id), !.lruUsage = @ - c.entry[id].charge]

LRU_Append(c, id) ==
  [c EXCEPT !.lru = Append(@, id), !.lruUsage = @ + c.entry[id].charge]

Free(c, ids) == [c EXCEPT !.entry = [id \in DOMAIN @ |-> IF id \in ids THEN NoEntry ELSE @[id]]]

\* How many of the oldest entries of the list must go to make room for charge.
Victims(c, charge) ==
  LET enough == {n \in 0..Len(c.lru) :
                   c.usage + charge - Charge(c, ToSet(SubSeq(c.lru, 1, n))) <= c.capacity}
  IN  IF enough = {} THEN Len(c.lru) ELSE Min(enough)

EvictFromLRU(c, charge) ==
  LET n == Victims(c, charge)
      victims == ToSet(SubSeq(c.lru, 1, n))
      size == Charge(c, victims)
  IN  Free([c EXCEPT !.lru = SubSeq(@, n + 1, Len(@)), !.usage = @ - size, !.lruUsage = @ - size],
           victims)

SetCapacity(c, capacity) == EvictFromLRU([c EXCEPT !.capacity = capacity], 0)

\* A handle to the entry is given out.
Ref(c, id) ==
  LET taken == IF c.entry[id].refs = 1 THEN LRU_Remove(c, id) ELSE c
  IN  [taken EXCEPT !.entry[id].refs = @ + 1]

Release(c, id) ==
  LET e == c.entry[id]
  IN  CASE e.refs = 1 ->
             Free([c EXCEPT !.usage = @ - e.charge], {id})
        [] e.refs = 2 /\ e.inCache /\ c.usage > c.capacity ->
             Free([c EXCEPT !.usage = @ - e.charge], {id})
        [] e.refs = 2 /\ e.inCache /\ c.usage <= c.capacity ->
             LRU_Append([c EXCEPT !.entry[id].refs = 1], id)
        [] OTHER -> [c EXCEPT !.entry[id].refs = @ - 1]

\* The table lets go of an entry: Erase, and the entry an Insert replaces.
Unlink(c, id) ==
  LET e == c.entry[id]
  IN  IF e.refs = 1
        THEN Free([LRU_Remove(c, id) EXCEPT !.usage = @ - e.charge], {id})
        ELSE [c EXCEPT !.entry[id] = [e EXCEPT !.refs = @ - 1, !.inCache = FALSE]]

\* Insert under a fresh entry id, whose handle is given out.
Insert(c, id, key, charge) ==
  LET room == EvictFromLRU(c, charge)
      old == Find(room, key)
      in == [room EXCEPT !.usage = @ + charge,
               !.entry[id] = [key |-> key, charge |-> charge, refs |-> 2, inCache |-> TRUE]]
  IN  IF old = {} THEN in ELSE Unlink(in, CHOOSE o \in old : TRUE)

Erase(c, key) ==
  LET found == Find(c, key)
  IN  IF found = {} THEN c ELSE Unlink(c, CHOOSE id \in found : TRUE)

ChargeDelta(c, id, delta) ==
  [EvictFromLRU(c, delta) EXCEPT !.usage = @ + delta, !.entry[id].charge = @ + delta]
=============================================================================
