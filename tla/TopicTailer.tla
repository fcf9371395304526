---------------------------- MODULE TopicTailer ----------------------------
(***************************************************************************)
(* The TopicTailer of a control tower room, for one log.  A room shares a  *)
(* few log readers among all the subscriptions of the log: a reader tracks *)
(* the next expected sequence number of every topic it serves, readers     *)
(* that meet are merged, and subscriptions behind all readers wait on a    *)
(* virtual reader that takes over a reader freed by a merge.               *)
(*                                                                         *)
(* Logs are independent in the code (every map is keyed by LogID), so one  *)
(* log is modelled.  The data cache is off, as in the default options      *)
(* (cache_size = 0): DeliverFromCache and HasEntry then do nothing.        *)
(* Reader 0 is pending_reader_, readers 1..NumReaders are log_readers_ in  *)
(* vector order.  Sequence number 0 stands for "none" as in the code.      *)
(***************************************************************************)
EXTENDS Integers, FiniteSets, Sequences

CONSTANTS Topics, Subs,      \* topics of the log; copilot subscription ids
          StreamOf,          \* the copilot stream of a subscription id
          NumReaders,        \* readers_per_room
          MaxLag,            \* max_subscription_lag
          StartCost,         \* kSubscriptionCostStart
          Gap, NoTopic,      \* model values: a gap entry; no topic
          HasGaps,           \* may the log contain gaps?
          FindMayFail,       \* may FindLatestSeqno fail?
          Starts,            \* bound: sequence numbers copilots start at, 0 = tail
          MaxLog,            \* bound: entries appended to the log
          MaxRemovals        \* bound: subscriptions removed

ASSUME ReadersAssumption == NumReaders \in Nat \ {0}
ASSUME CostAssumption == MaxLag \in Nat /\ StartCost \in Nat
ASSUME BoundAssumption == MaxLog \in Nat /\ MaxRemovals \in Nat /\ Starts \subseteq Nat
ASSUME SubsAssumption == IsFiniteSet(Subs)
ASSUME NamesAssumption == Gap \notin Topics /\ NoTopic \notin Topics

VARIABLES log,          \* the log in storage: a topic or Gap per seqno [external]
          tailer,       \* LogTailer: next seqno each reader gets, 0 = not open
          reader,       \* LogReader::log_state_ of this log, per reader
          sub,          \* topic_map_: seqno a subscription expects, 0 = absent
          stream_subs,  \* stream_subscriptions_: topic of a subscription
          pending,      \* cache_readers_: seqno of a queued subscription, 0 = none
          waiting,      \* pending_find_time_response_ of this log
          find,         \* the FindLatestSeqno request of this log
          tail,         \* tail_seqno_cached_, 0 = no estimate
          used,         \* subscription ids copilots have used so far
          out           \* messages passed to on_message_ in the last step

subVars == <<sub, stream_subs, pending, used>>
findVars == <<waiting, find>>
vars == <<log, tailer, reader, subVars, findVars, tail, out>>

Readers == 1 .. NumReaders
Virtual == 0
Entries == Topics \cup (IF HasGaps THEN {Gap} ELSE {})
TopicOrders ==        \* the orders in which a hash map may list the topics
  {o \in SUBSET (Topics \X Topics) :
     \A t, u \in Topics : /\ t = u => <<t, u>> \notin o
                          /\ t # u => (<<t, u>> \in o <=> <<u, t>> \notin o)
                          /\ \A v \in Topics : <<t, u>> \in o /\ <<u, v>> \in o
                                                  => <<t, v>> \in o}
Messages == [sub : Subs, kind : {"data", "gap"}, prev : Nat, seqno : Nat]

-----------------------------------------------------------------------------
(***************************************************************************)
(* LogReader, on the state ls of one log.  topics[t] is next_seqno of t (0 *)
(* when t is not tracked), before is the order of the LinkedMap.           *)
(***************************************************************************)
LogStates == [topics : [Topics -> Nat],
              before : SUBSET (Topics \X Topics),
              last_read : Nat]

Closed == [topics |-> [t \in Topics |-> 0], before |-> {}, last_read |-> 0]

Tracked(ls) == {t \in Topics : ls.topics[t] # 0}
IsLogOpen(ls) == Tracked(ls) # {}

Drop(before, S) == {p \in before : p[1] \notin S /\ p[2] \notin S}
MoveToBack(ls, t) == Drop(ls.before, {t}) \cup ((Tracked(ls) \ {t}) \X {t})
MoveToFront(ls, t) == Drop(ls.before, {t}) \cup ({t} \X (Tracked(ls) \ {t}))

ProcessRecord(ls, seqno, t) ==
  IF ls.topics[t] # 0
  THEN [topics |-> [ls.topics EXCEPT ![t] = seqno + 1],
        before |-> MoveToBack(ls, t),
        last_read |-> seqno]
  ELSE [ls EXCEPT !.last_read = seqno]

\* ProcessGap on every topic of topic_map_ (S), then ProcessBenignGap or
\* FlushHistory: both leave last_read at the end of the gap.  topic_map_ is a
\* hash map, so the order in which the topics move to the back is arbitrary.
ProcessGaps(ls, to, S, order) ==
  LET T == Tracked(ls) \cap S
  IN  [topics |-> [t \in Topics |-> IF t \in T THEN to + 1 ELSE ls.topics[t]],
       before |-> Drop(ls.before, T) \cup ((Tracked(ls) \ T) \X T)
                    \cup {p \in order : p[1] \in T /\ p[2] \in T},
       last_read |-> to]

Lagging(ls, t, seqno) == ls.topics[t] + MaxLag < seqno
Bumped(ls, seqno) ==
  {t \in Tracked(ls) : /\ Lagging(ls, t, seqno)
                       /\ \A p \in ls.before : p[2] = t => Lagging(ls, p[1], seqno)}
BumpLaggingSubscriptions(ls, seqno) ==
  LET B == Bumped(ls, seqno)
  IN  [topics |-> [t \in Topics |-> IF t \in B THEN seqno + 1 ELSE ls.topics[t]],
       before |-> {p \in ls.before : p[1] \in B => p[2] \in B}
                    \cup ((Tracked(ls) \ B) \X B),
       last_read |-> ls.last_read]

\* Mutants of StartReading: the reader is not rewound for an older
\* subscription; the position is off by one.
StartReadingNoRewind(ls, t, seqno) ==
  [state |-> [topics |-> [ls.topics EXCEPT ![t] = seqno],
              before |-> MoveToFront(ls, t),
              last_read |-> IF IsLogOpen(ls) THEN ls.last_read ELSE seqno - 1],
   start |-> ~ IsLogOpen(ls)]
StartReadingOffByOne(ls, t, seqno) ==
  [StartReadingNoRewind(ls, t, seqno) EXCEPT !.state.last_read = seqno]

\* The new log state and whether the LogTailer is (re)started at seqno.
StartReading(ls, t, seqno) ==
  LET first_open == ~ IsLogOpen(ls)
      known == ls.topics[t] # 0
      reseek == /\ known => seqno < ls.topics[t]
                /\ ~ first_open => seqno <= ls.last_read
      next_seqno == IF known /\ ls.topics[t] < seqno THEN ls.topics[t] ELSE seqno
  IN  [state |-> [topics |-> [ls.topics EXCEPT ![t] = next_seqno],
                  before |-> MoveToFront(ls, t),
                  last_read |-> IF reseek THEN seqno - 1 ELSE ls.last_read],
       start |-> reseek]

\* Mutant: topics are forgotten only when the last one goes.
StopReadingLate(ls, S) == IF Tracked(ls) \subseteq S THEN Closed ELSE ls

\* StopReading for every topic of S.
StopReading(ls, S) ==
  IF Tracked(ls) \subseteq S THEN Closed
  ELSE [ls EXCEPT !.topics = [t \in Topics |-> IF t \in S THEN 0 ELSE @[t]],
                  !.before = Drop(@, S)]

\* SubscriptionCost; the readers that would have to rewind are no candidates.
MustRewind(ls, t, seqno) ==
  /\ IsLogOpen(ls)
  /\ ls.last_read >= seqno
  /\ ls.topics[t] = 0 \/ seqno < ls.topics[t]
SubscriptionCost(ls, t, seqno) ==
  IF ~ IsLogOpen(ls) THEN StartCost
  ELSE IF ls.last_read < seqno THEN seqno - ls.last_read ELSE 0

\* Mutant: merges into a reader that is further ahead.
CanMergeAhead(src, dest) ==
  IsLogOpen(src) /\ IsLogOpen(dest) /\ src.last_read <= dest.last_read

CanMergeInto(src, dest) ==
  IsLogOpen(src) /\ IsLogOpen(dest) /\ src.last_read = dest.last_read

MergeInto(src, dest) ==
  LET new == Tracked(src) \ Tracked(dest)
      lower(t) == src.topics[t] # 0 /\ src.topics[t] < dest.topics[t]
  IN  [topics |-> [t \in Topics |-> IF t \in new \/ lower(t)
                                   THEN src.topics[t] ELSE dest.topics[t]],
       before |-> dest.before \cup (Tracked(dest) \X new)
                    \cup {p \in src.before : p[1] \in new /\ p[2] \in new},
       last_read |-> dest.last_read]

ComputeStartSeqno(ls) ==
  CHOOSE n \in {ls.topics[t] : t \in Tracked(ls)} :
    \A t \in Tracked(ls) : n <= ls.topics[t]

-----------------------------------------------------------------------------
(***************************************************************************)
(* TopicTailer.                                                            *)
(***************************************************************************)
TopicsOf(cursor) == {stream_subs[s] : s \in {x \in Subs : cursor[x] # 0}}

\* TopicManager::VisitSubscribers
VisitSubscribers(t, from, to) ==
  {s \in Subs : sub[s] # 0 /\ stream_subs[s] = t /\ from <= sub[s] /\ sub[s] <= to}

ReaderForNewSubscription(t, seqno) ==
  LET fit == {r \in Readers : ~ MustRewind(reader[r], t, seqno)}
      cost(r) == SubscriptionCost(reader[r], t, seqno)
  IN  IF NumReaders = 1 THEN 1
      ELSE IF fit = {} THEN Virtual
      ELSE CHOOSE r \in fit :
             \A x \in fit : cost(r) < cost(x) \/ (cost(r) = cost(x) /\ r <= x)

\* AttemptReaderMerges(src) once src has moved to state ls: the readers and
\* the tailer positions after it, StealLogSubscriptions included.
MergeTargets(src, ls) == {d \in Readers \ {src} : CanMergeInto(ls, reader[d])}
AttemptReaderMerges(src, ls) ==
  LET dests == MergeTargets(src, ls)
      dest == CHOOSE d \in dests : \A x \in dests : d <= x
      steal == IsLogOpen(reader[Virtual])
  IN  IF dests = {}
      THEN /\ reader' = [reader EXCEPT ![src] = ls]
           /\ tailer' = [tailer EXCEPT ![src] = ls.last_read + 1]
      ELSE /\ reader' = [reader EXCEPT ![dest] = MergeInto(ls, @),
                                       ![src] = reader[Virtual],
                                       ![Virtual] = Closed]
           /\ tailer' = [tailer EXCEPT
                           ![src] = IF steal THEN ComputeStartSeqno(reader[Virtual])
                                    ELSE 0]

TailAfter(to) == IF tail # 0 /\ tail <= to THEN to + 1 ELSE tail

\* SendLogRecord / ReceiveLogRecord: reader r is handed the record at the
\* position of its tailer.
ReceiveLogRecord(r) ==
  LET n == tailer[r]
      t == log[n]
      prev == reader[r].topics[t]
      ls == ProcessRecord(reader[r], n, t)
      B == IF prev # 0 THEN Bumped(ls, n) ELSE {}
      got == IF prev # 0 THEN VisitSubscribers(t, prev, n) ELSE {}
      bumped == UNION {VisitSubscribers(b, ls.topics[b], n) : b \in B}
  IN  /\ n # 0 /\ n <= Len(log) /\ t # Gap
      /\ sub' = [s \in Subs |-> IF s \in got \cup bumped THEN n + 1 ELSE sub[s]]
      /\ out' = {[sub |-> s, kind |-> "data", prev |-> prev, seqno |-> n] : s \in got}
           \cup {[sub |-> s, kind |-> "gap", prev |-> ls.topics[stream_subs[s]],
                  seqno |-> n] : s \in bumped}
      /\ tail' = TailAfter(n)
      /\ AttemptReaderMerges(r, IF prev # 0 THEN BumpLaggingSubscriptions(ls, n) ELSE ls)
      /\ UNCHANGED <<log, stream_subs, pending, used, findVars>>

\* SendGapRecord: storage reports the gap from the tailer's position up to to.
SendGapRecord(r, to, order) ==
  LET T == TopicsOf(sub)
      prev(t) == reader[r].topics[t]
      got == UNION {VisitSubscribers(t, prev(t), to) : t \in T}
  IN  /\ tailer[r] # 0 /\ \A n \in tailer[r] .. to : log[n] = Gap
      /\ sub' = [s \in Subs |-> IF s \in got THEN to + 1 ELSE sub[s]]
      /\ out' = {[sub |-> s, kind |-> "gap", prev |-> prev(stream_subs[s]),
                  seqno |-> to] : s \in got}
      /\ tail' = IF T = {} THEN tail ELSE TailAfter(to)
      /\ AttemptReaderMerges(r, ProcessGaps(reader[r], to, T, order))
      /\ UNCHANGED <<log, stream_subs, pending, used, findVars>>

\* AddSubscriber at a non-zero seqno: queued on the copilot worker's map.
AddSubscriber(s, t, start) ==
  /\ s \notin used
  /\ used' = used \cup {s}
  /\ stream_subs' = [stream_subs EXCEPT ![s] = t]
  /\ pending' = [pending EXCEPT ![s] = start]
  /\ out' = {}
  /\ UNCHANGED <<log, tailer, reader, sub, findVars, tail>>

TailGap(s, seqno) == [sub |-> s, kind |-> "gap", prev |-> 0, seqno |-> seqno - 1]

\* AddSubscriber at 0 with an estimate of the tail: AddTailSubscriber.
AddTailSubscriber(s, t) ==
  /\ s \notin used /\ tail # 0
  /\ used' = used \cup {s}
  /\ stream_subs' = [stream_subs EXCEPT ![s] = t]
  /\ pending' = [pending EXCEPT ![s] = tail]
  /\ out' = {TailGap(s, tail)}
  /\ UNCHANGED <<log, tailer, reader, sub, findVars, tail>>

\* SendFindLatestSeqnoRequest; a request storage refuses is never sent again.
SendFindLatestSeqnoRequest ==
  \E st \in {"sent"} \cup (IF FindMayFail THEN {"idle"} ELSE {}) :
    find' = [st |-> st, seqno |-> 0]

\* AddSubscriber at 0 with no estimate: wait for the (shared) request.
AddSubscriberAtUnknownTail(s, t) ==
  /\ s \notin used /\ tail = 0
  /\ used' = used \cup {s}
  /\ stream_subs' = [stream_subs EXCEPT ![s] = t]
  /\ waiting' = waiting \cup {s}
  /\ IF waiting = {} THEN SendFindLatestSeqnoRequest ELSE UNCHANGED find
  /\ out' = {}
  /\ UNCHANGED <<log, tailer, reader, sub, pending, tail>>

ProcessFindLatestSeqnoResponse ==
  /\ find.st = "ok"
  /\ LET live == {s \in waiting : stream_subs[s] # NoTopic}
     IN  /\ pending' = [s \in Subs |-> IF s \in live THEN find.seqno ELSE pending[s]]
         /\ out' = {TailGap(s, find.seqno) : s \in live}
  /\ waiting' = {}
  /\ find' = [st |-> "idle", seqno |-> 0]
  /\ tail' = IF tail < find.seqno THEN find.seqno ELSE tail
  /\ UNCHANGED <<log, tailer, reader, sub, stream_subs, used>>

\* A failed request is retried.
RetryFindLatestSeqno ==
  /\ find.st = "failed"
  /\ SendFindLatestSeqnoRequest
  /\ out' = {}
  /\ UNCHANGED <<log, tailer, reader, subVars, waiting, tail>>

\* The room drains a queued subscription: ProcessPendingSubscription.
ProcessPendingSubscription(s) ==
  LET t == stream_subs[s]
      seqno == pending[s]
      r == ReaderForNewSubscription(t, seqno)
      started == StartReading(reader[r], t, seqno)
  IN  /\ seqno # 0 /\ t # NoTopic
      /\ reader' = [reader EXCEPT ![r] = started.state]
      /\ tailer' = IF r # Virtual /\ started.start
                   THEN [tailer EXCEPT ![r] = seqno] ELSE tailer
      /\ sub' = [sub EXCEPT ![s] = seqno]
      /\ pending' = [pending EXCEPT ![s] = 0]
      /\ out' = {}
      /\ UNCHANGED <<log, stream_subs, used, findVars, tail>>

\* RemoveSubscriberInternal for the subscriptions of S: topics nobody
\* subscribes to any more leave the readers, and once no reader has the log
\* open the tail estimate is dropped.
RemoveSubscriberInternal(S) ==
  LET left == [s \in Subs |-> IF s \in S THEN 0 ELSE sub[s]]
      gone == {stream_subs[s] : s \in S} \ TopicsOf(left)
  IN  /\ S # {}
      /\ Cardinality({s \in used : stream_subs[s] = NoTopic} \cup S) <= MaxRemovals
      /\ sub' = left
      /\ stream_subs' = [s \in Subs |-> IF s \in S THEN NoTopic ELSE stream_subs[s]]
      /\ pending' = [s \in Subs |-> IF s \in S THEN 0 ELSE pending[s]]
      /\ reader' = [r \in DOMAIN reader |-> StopReading(reader[r], gone)]
      /\ tailer' = [r \in Readers |-> IF IsLogOpen(reader'[r]) THEN tailer[r] ELSE 0]
      /\ tail' = IF gone # {} /\ \A r \in DOMAIN reader : ~ IsLogOpen(reader'[r])
                 THEN 0 ELSE tail
      /\ out' = {}
      /\ UNCHANGED <<log, used, findVars>>

\* RemoveSubscriber(id): unknown subscriptions are refused.
RemoveSubscriber(s) == stream_subs[s] # NoTopic /\ RemoveSubscriberInternal({s})

\* RemoveSubscriber(stream_id): every subscription of a copilot stream.
RemoveStream(id) ==
  RemoveSubscriberInternal({s \in Subs : StreamOf[s] = id /\ stream_subs[s] # NoTopic})

-----------------------------------------------------------------------------
(***************************************************************************)
(* Storage [external]: the log grows, and requests are answered with the   *)
(* sequence number after the last entry, or with a failure.                *)
(***************************************************************************)
AppendEntry(e) ==
  /\ Len(log) < MaxLog
  /\ log' = Append(log, e)
  /\ out' = {}
  /\ UNCHANGED <<tailer, reader, subVars, findVars, tail>>

AnswerFind ==
  /\ find.st = "sent"
  /\ find' = [st |-> "ok", seqno |-> Len(log) + 1]
  /\ out' = {}
  /\ UNCHANGED <<log, tailer, reader, subVars, waiting, tail>>

FailFind ==
  /\ FindMayFail
  /\ find.st = "sent"
  /\ find' = [st |-> "failed", seqno |-> 0]
  /\ out' = {}
  /\ UNCHANGED <<log, tailer, reader, subVars, waiting, tail>>

-----------------------------------------------------------------------------
Init ==
  /\ log = <<>>
  /\ tailer = [r \in Readers |-> 0]
  /\ reader = [r \in Readers \cup {Virtual} |-> Closed]
  /\ sub = [s \in Subs |-> 0]
  /\ stream_subs = [s \in Subs |-> NoTopic]
  /\ pending = [s \in Subs |-> 0]
  /\ waiting = {}
  /\ find = [st |-> "idle", seqno |-> 0]
  /\ tail = 0
  /\ used = {}
  /\ out = {}

\* One event of the room thread.
Deliver(r) ==
  \/ ReceiveLogRecord(r)
  \/ \E to \in tailer[r] .. Len(log), order \in TopicOrders :
       SendGapRecord(r, to, order)

Subscribe(s, t) ==
  \/ \E start \in Starts \ {0} : AddSubscriber(s, t, start)
  \/ 0 \in Starts /\ AddTailSubscriber(s, t)
  \/ 0 \in Starts /\ AddSubscriberAtUnknownTail(s, t)

Next ==
  \/ \E e \in Entries : AppendEntry(e)
  \/ AnswerFind
  \/ FailFind
  \/ \E s \in Subs, t \in Topics : Subscribe(s, t)
  \/ \E s \in Subs : RemoveSubscriber(s) \/ ProcessPendingSubscription(s)
  \/ \E s \in Subs : RemoveStream(StreamOf[s])
  \/ ProcessFindLatestSeqnoResponse
  \/ RetryFindLatestSeqno
  \/ \E r \in Readers : Deliver(r)

Spec == Init /\ [][Next]_vars

\* Event loops drain their sources and storage answers what it accepted.
Fairness ==
  /\ WF_vars(AnswerFind) /\ WF_vars(ProcessFindLatestSeqnoResponse)
  /\ WF_vars(RetryFindLatestSeqno)
  /\ \A s \in Subs : WF_vars(ProcessPendingSubscription(s))
  /\ \A r \in Readers : WF_vars(Deliver(r))

-----------------------------------------------------------------------------
(***************************************************************************)
(* Properties.                                                             *)
(***************************************************************************)

\* Type invariant of the room's state for one log.
TypeInv ==
  /\ log \in Seq(Topics \cup {Gap})
  /\ tailer \in [Readers -> Nat]
  /\ reader \in [Readers \cup {Virtual} -> LogStates]
  /\ sub \in [Subs -> Nat]
  /\ stream_subs \in [Subs -> Topics \cup {NoTopic}]
  /\ pending \in [Subs -> Nat]
  /\ waiting \in SUBSET Subs
  /\ find \in [st : {"idle", "sent", "ok", "failed"}, seqno : Nat]
  /\ tail \in Nat
  /\ used \in SUBSET Subs
  /\ out \in SUBSET Messages

\* A topic is tracked by a reader (real or virtual) exactly when it has a
\* subscriber in topic_map_: through merges, steals, rewinds and removals no
\* subscription is left without a reader and no reader is kept open for
\* nobody (topic_tailer.cc:828 "which will never be closed").
TopicsServed == UNION {Tracked(reader[r]) : r \in DOMAIN reader} = TopicsOf(sub)

\* The LogTailer has the log open for a reader exactly when the reader
\* tracks topics of it, so StopReading is never missed or doubled.
TailerOpen == \A r \in Readers : tailer[r] # 0 <=> IsLogOpen(reader[r])

\* The next entry the LogTailer hands to a reader is the one the reader
\* expects: RS_ASSERT at topic_tailer.cc:893 and :355.
TailerInSync == \A r \in Readers : tailer[r] # 0 => tailer[r] = reader[r].last_read + 1

\* What a reader claims to know about a topic is true: between next_seqno
\* of a topic and the reader's position the log has no record of it.
KnowsHistory ==
  \A r \in Readers, t \in Topics :
    reader[r].topics[t] # 0 =>
      \A n \in reader[r].topics[t] .. reader[r].last_read :
        n <= Len(log) => log[n] # t

\* The tail estimate never runs ahead of the log: a subscription at 0 that
\* is told to start there skips no record still to be written.
TailNotAhead == tail <= Len(log) + 1 /\ find.seqno <= Len(log) + 1

\* Readers, subscriptions and the tail estimate fit together.
TailerSafe == TypeInv /\ TopicsServed /\ TailerOpen /\ TailNotAhead

\* Readers are where they claim to be and know what they claim to know.
ReadersInSync == TailerInSync /\ KnowsHistory

\* The position of a subscription, which may still be pending.
Cursor == [s \in Subs |-> IF pending[s] # 0 THEN pending[s] ELSE sub[s]]
Feed == INSTANCE TopicFeed WITH topic <- stream_subs, cursor <- Cursor, requests <- 0

\* The room keeps the promise of TopicFeed: whatever readers serve a
\* subscription, its messages follow one another and skip no record.
FeedSpec == Feed!Spec

\* Nothing is left to send on subscription s.
CaughtUp(s) ==
  \/ stream_subs[s] = NoTopic
  \/ sub[s] # 0 /\ \A n \in sub[s] .. Len(log) : log[n] # stream_subs[s]

\* Every subscription that is not removed is brought up to the end of the
\* log, however often the reader is rewound for another one meanwhile.
EverySubscriptionServed == Fairness => \A s \in Subs : s \in used ~> CaughtUp(s)
=============================================================================
