---------------------------- MODULE CachedTailer ----------------------------
(***************************************************************************)
(* The TopicTailer of a room with its data cache on.  A new subscription   *)
(* is first served from the cache (DeliverFromCache) and given to a reader *)
(* where the cache ends; a reader that meets cached records is paused,     *)
(* queued in reentry_cache_readers_, moved through them                    *)
(* (AdvanceReaderFromCache) and merged or restarted behind them.  Both end *)
(* early when the sink is full and are taken up again later.               *)
(*                                                                         *)
(* The cache is the set of the records it holds: what DataCache promises   *)
(* of VisitCache (FindsAll, StopsAtMissing) is what is used here.  Records *)
(* may be evicted, or not be stored, at any time.  A reader is paused when *)
(* its log is open and its tailer is not.                                  *)
(***************************************************************************)
EXTENDS TopicTailer

CONSTANTS BlockSize,     \* records are evicted by blocks
          MaxEvictions   \* bound: blocks evicted and caches cleared

VARIABLES cached,        \* data_cache_: the sequence numbers it holds
          reentry,       \* reentry_cache_readers_
          evictions,
          start,         \* first sequence number a subscription asked for
          heard,         \* sequence numbers of the records a subscription was sent
          again          \* has a subscription been sent a record twice?

cacheVars == <<cached, reentry, evictions>>
heardVars == <<start, heard, again>>
allVars == <<vars, cacheVars, heardVars>>

LOCAL S == INSTANCE SequencesExt

IsReading(r) == tailer[r] # 0
HasEntry(n) == n \in cached

\* The first sequence number from n on that is not in the cache.
CacheEnd(n) == CHOOSE e \in n .. Len(log) + 1 + n : e \notin cached /\ n .. e - 1 \subseteq cached

\* What VisitCache hands to its callback between n and the end it returns: every record when the
\* topic is unknown, else those of the topic and some that only share its hash.
VisitCache(n, topic, collide) ==
  {i \in n .. CacheEnd(n) - 1 : topic = NoTopic \/ log[i] = topic \/ i \in collide}

Data(s, prev, n) == [sub |-> s, kind |-> "data", prev |-> prev, seqno |-> n]
GapTo(s, prev, n) == [sub |-> s, kind |-> "gap", prev |-> prev, seqno |-> n]

\* The records of a set in the order of the log.
InOrder(N) == S!SetToSortSeq(N, <)

Recipients(subs, t, from, to) ==
  {s \in Subs : subs[s] # 0 /\ stream_subs[s] = t /\ from <= subs[s] /\ subs[s] <= to}

Hear(msgs) ==
  /\ out' = msgs
  /\ heard' = [s \in Subs |-> heard[s] \cup {m.seqno : m \in {x \in msgs : x.sub = s /\ x.kind = "data"}}]
  /\ again' = (again \/ \E m \in msgs : m.kind = "data" /\ m.seqno \in heard[m.sub])
  /\ UNCHANGED start

-----------------------------------------------------------------------------
(* A reader that moves through the cache.                                  *)

\* The topic of AdvanceReaderFromCache: the only one subscribed on this log, if there is one.
LookupTopic(T) == IF \E t \in T : T = {t} THEN CHOOSE t \in T : TRUE ELSE NoTopic

\* The callback of AdvanceReaderFromCache for the record at n.
OnMessageCache(acc, n) ==
  LET t == log[n]
      prev == acc.ls.topics[t]
      got == IF prev # 0 THEN Recipients(acc.subs, t, prev, n) ELSE {}
  IN  [ls |-> ProcessRecord(acc.ls, n, t),
       subs |-> [s \in Subs |-> IF s \in got THEN n + 1 ELSE acc.subs[s]],
       msgs |-> acc.msgs \cup {Data(s, prev, n) : s \in got}]

Advanced(r, N) ==
  S!FoldLeft(OnMessageCache, [ls |-> reader[r], subs |-> sub, msgs |-> {}], InOrder(N))

\* SendCacheRecord for a reader taken from the queue.  The sink is full after the write of the
\* record at stop, or takes all of them (stop = 0).
SendCacheRecord(r, stop, collide) ==
  LET found == VisitCache(reader[r].last_read + 1, LookupTopic(TopicsOf(sub)), collide)
      after == Advanced(r, IF stop = 0 THEN found ELSE {n \in found : n <= stop})
  IN  /\ r \in reentry
      /\ IF ~IsLogOpen(reader[r])
         THEN /\ stop = 0
              /\ reentry' = reentry \ {r} /\ Hear({})
              /\ UNCHANGED <<reader, tailer, sub>>
         ELSE /\ stop # 0 => stop \in found /\ \E m \in after.msgs : m.seqno = stop
              /\ sub' = after.subs
              /\ Hear(after.msgs)
              /\ IF stop # 0
                 THEN /\ reader' = [reader EXCEPT ![r] = after.ls]
                      /\ tailer' = [tailer EXCEPT ![r] = 0]
                      /\ reentry' = reentry
                 ELSE /\ AttemptReaderMerges(r, after.ls)
                      /\ reentry' = reentry \ {r}
      /\ UNCHANGED <<log, stream_subs, pending, used, findVars, tail, cached, evictions>>

\* StoreData of the record that was received; it may not be kept.
StoreData(n) == cached' \in {cached, cached \cup {n}}

\* SendLogRecord when the record behind is in the cache: the reader is paused and queued.
SendLogRecordThenPause(r) ==
  LET n == tailer[r]
      t == log[n]
      prev == reader[r].topics[t]
      ls == ProcessRecord(reader[r], n, t)
      B == IF prev # 0 THEN Bumped(ls, n) ELSE {}
      got == IF prev # 0 THEN VisitSubscribers(t, prev, n) ELSE {}
      bumped == UNION {VisitSubscribers(b, ls.topics[b], n) : b \in B}
  IN  /\ n # 0 /\ n <= Len(log) /\ t # Gap /\ HasEntry(n + 1)
      /\ sub' = [s \in Subs |-> IF s \in got \cup bumped THEN n + 1 ELSE sub[s]]
      /\ Hear({Data(s, prev, n) : s \in got}
                \cup {GapTo(s, ls.topics[stream_subs[s]], n) : s \in bumped})
      /\ tail' = TailAfter(n)
      /\ StoreData(n)
      /\ reader' = [reader EXCEPT ![r] = IF prev # 0 THEN BumpLaggingSubscriptions(ls, n) ELSE ls]
      /\ tailer' = [tailer EXCEPT ![r] = 0]
      /\ reentry' = reentry \cup {r}
      /\ UNCHANGED <<log, stream_subs, pending, used, findVars, evictions>>

\* SendLogRecord otherwise.
SendLogRecord(r) ==
  /\ tailer[r] # 0 /\ ~HasEntry(tailer[r] + 1)
  /\ ReceiveLogRecord(r)
  /\ Hear(out')
  /\ StoreData(tailer[r])
  /\ UNCHANGED <<reentry, evictions>>

\* SendGapRecord; gaps are not stored.
SendGap(r, to, order) ==
  /\ SendGapRecord(r, to, order)
  /\ Hear(out')
  /\ UNCHANGED cacheVars

-----------------------------------------------------------------------------
(* A subscription that is served from the cache.                           *)

\* The messages DeliverFromCache sends for the records of N from seqno on, each from where the one
\* before it ended.
Chain(s, seqno, N) ==
  {Data(s, IF {m \in N : m < n} = {} THEN seqno ELSE S!Max({m \in N : m < n}) + 1, n) : n \in N}
Delivered(seqno, N) == IF N = {} THEN seqno ELSE S!Max(N) + 1

ClosingGap(s, delivered, end) == IF end > delivered THEN {GapTo(s, delivered, end - 1)} ELSE {}

\* ProcessPendingSubscription when the sink is full after the record at stop: queued again.
RetryFromCache(s, stop) ==
  LET N == {n \in VisitCache(pending[s], stream_subs[s], {}) : n <= stop}
  IN  /\ pending[s] # 0 /\ stream_subs[s] # NoTopic
      /\ stop \in N
      /\ pending' = [pending EXCEPT ![s] = stop + 1]
      /\ Hear(Chain(s, pending[s], N))
      /\ UNCHANGED <<log, tailer, reader, sub, stream_subs, used, findVars, tail, cacheVars>>

\* ProcessPendingSubscription otherwise: a reader goes on where the cache ends.
DeliverFromCache(s) ==
  LET t == stream_subs[s]
      N == VisitCache(pending[s], t, {})
      seqno == CacheEnd(pending[s])
      r == ReaderForNewSubscription(t, seqno)
      started == StartReading(reader[r], t, seqno)
  IN  /\ pending[s] # 0 /\ t # NoTopic
      /\ Hear(Chain(s, pending[s], N) \cup ClosingGap(s, Delivered(pending[s], N), seqno))
      /\ reader' = [reader EXCEPT ![r] = started.state]
      /\ tailer' = IF r # Virtual /\ started.start THEN [tailer EXCEPT ![r] = seqno] ELSE tailer
      /\ sub' = [sub EXCEPT ![s] = seqno]
      /\ pending' = [pending EXCEPT ![s] = 0]
      /\ UNCHANGED <<log, stream_subs, used, findVars, tail, cacheVars>>

-----------------------------------------------------------------------------
\* A block leaves the cache to make room for another.
Evict(b) ==
  /\ evictions < MaxEvictions
  /\ \E n \in cached : n \div BlockSize = b
  /\ cached' = {n \in cached : n \div BlockSize # b}
  /\ evictions' = evictions + 1
  /\ out' = {}
  /\ UNCHANGED <<log, tailer, reader, subVars, findVars, tail, reentry, heardVars>>

\* ClearCache, and SetCacheCapacity(0).
ClearCache ==
  /\ evictions < MaxEvictions /\ cached # {}
  /\ cached' = {}
  /\ evictions' = evictions + 1
  /\ out' = {}
  /\ UNCHANGED <<log, tailer, reader, subVars, findVars, tail, reentry, heardVars>>

AddAt(s, t, seqno) ==
  /\ AddSubscriber(s, t, seqno)
  /\ start' = [start EXCEPT ![s] = seqno]
  /\ UNCHANGED <<cacheVars, heard, again>>

CachedInit ==
  /\ Init
  /\ cached = {} /\ reentry = {} /\ evictions = 0
  /\ start = [s \in Subs |-> 0] /\ heard = [s \in Subs |-> {}] /\ again = FALSE

CachedNext ==
  \/ \E e \in Entries : AppendEntry(e) /\ UNCHANGED <<cacheVars, heardVars>>
  \/ \E s \in Subs, t \in Topics, seqno \in Starts : AddAt(s, t, seqno)
  \/ \E s \in Subs : RemoveSubscriber(s) /\ UNCHANGED <<cacheVars, heardVars>>
  \/ \E s \in Subs : DeliverFromCache(s) \/ \E stop \in cached : RetryFromCache(s, stop)
  \/ \E r \in Readers : SendLogRecordThenPause(r) \/ SendLogRecord(r)
  \/ \E r \in Readers, order \in TopicOrders : \E to \in tailer[r] .. Len(log) : SendGap(r, to, order)
  \/ \E r \in Readers, stop \in {0} \cup cached, collide \in SUBSET cached :
       SendCacheRecord(r, stop, collide)
  \/ \E n \in cached : Evict(n \div BlockSize)
  \/ ClearCache

CachedSpec == CachedInit /\ [][CachedNext]_allVars

-----------------------------------------------------------------------------
\* Type invariant of what the cache adds.
CachedTypeInv ==
  /\ TypeInv
  /\ cached \subseteq 1 .. Len(log) /\ reentry \subseteq Readers
  /\ evictions \in 0 .. MaxEvictions /\ again \in BOOLEAN

\* Whether its records come from the cache, from a reader in the cache or from the log, a
\* subscription is sent every record of its topic once, and none it did not ask for, up to where
\* the room believes it to be (topic_tailer.cc:1506, 1014, 879).
EveryRecordOnce ==
  /\ ~again
  /\ \A s \in Subs : stream_subs[s] # NoTopic =>
       heard[s] = {n \in start[s] .. Cursor[s] - 1 : n <= Len(log) /\ log[n] = stream_subs[s]}

\* What one step sends to a subscription follows on: every message starts where the one before it
\* ended, and the last one ends where the subscription is now.
Contiguous ==
  \A m \in out :
    /\ m.prev <= m.seqno
    /\ \/ Cursor[m.sub] = m.seqno + 1
       \/ \E next \in out : next.sub = m.sub /\ next.prev = m.seqno + 1 /\ next.seqno > m.seqno

\* A reader of an open log is read for or waits in the queue: a pause is always ended
\* (RestartReading, topic_tailer.cc:1131).
PausedIsQueued ==
  \A r \in Readers : IsLogOpen(reader[r]) /\ ~IsReading(r) => r \in reentry

\* Subscriptions lose nothing to the cache and the readers stay what they are without it.
CachedTailerSafe ==
  /\ CachedTypeInv /\ EveryRecordOnce /\ Contiguous /\ PausedIsQueued
  /\ TopicsServed /\ ReadersInSync
=============================================================================
