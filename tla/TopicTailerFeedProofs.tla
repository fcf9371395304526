----------------------- MODULE TopicTailerFeedProofs -----------------------
(***************************************************************************)
(* The topic tailer implements TopicFeed, where a gap is reported only to  *)
(* topics its reader tracks: one reader per room, or a log without gaps    *)
(* (and no unsubscriptions).  SendGapRecord of one of several readers also *)
(* visits topics that only other readers track (run tower_gap).            *)
(***************************************************************************)
EXTENDS TopicTailerSyncProofs

GapsReachAll == NumReaders = 1 \/ (MaxRemovals = 0 /\ ~ HasGaps)

\* A log that has no gaps never gets one.
LogInv == \A n \in 1 .. Len(log) : log[n] \in Entries

RoomInv == IndInv /\ SyncInv /\ LogInv

\* RoomInv is inductive.
LEMMA RoomInvHolds ==
  ASSUME NoStaleVirtual
  PROVE  /\ Init => RoomInv
         /\ RoomInv /\ [Next]_vars => RoomInv'
<1>1. Init => LogInv
  <2> SUFFICES ASSUME Init PROVE LogInv
    OBVIOUS
  <2>1. Len(log) = 0
    BY DEF Init
  <2>2. QED
    BY <2>1 DEF LogInv
<1>2. IndInv /\ LogInv /\ [Next]_vars => LogInv'
  <2> SUFFICES ASSUME IndInv, LogInv, [Next]_vars PROVE LogInv'
    OBVIOUS
  <2>1. CASE \E e \in Entries : AppendEntry(e)
    <3>1. PICK e \in Entries : log' = Append(log, e)
      BY <2>1 DEF AppendEntry
    <3>2. log \in Seq(Topics \cup {Gap}) /\ e \in Topics \cup {Gap} /\ Len(log) \in Nat
      BY DEF IndInv, TypeInv, Entries
    <3>3. Len(log') = Len(log) + 1 /\ log'[Len(log) + 1] = e /\ \A n \in 1 .. Len(log) : log'[n] = log[n]
      BY <3>1, <3>2
    <3>4. \A n \in 1 .. Len(log') : n \in 1 .. Len(log) \/ n = Len(log) + 1
      BY <3>2, <3>3
    <3>5. QED
      BY <3>3, <3>4 DEF LogInv, Entries
  <2>2. CASE UNCHANGED log
    BY <2>2 DEF LogInv, Entries
  <2>3. QED
    BY <2>1, <2>2 DEF Next, AnswerFind, FailFind, Subscribe, AddSubscriber, AddTailSubscriber,
          AddSubscriberAtUnknownTail, RemoveSubscriber, RemoveStream, RemoveSubscriberInternal,
          ProcessPendingSubscription, ProcessFindLatestSeqnoResponse, RetryFindLatestSeqno,
          Deliver, ReceiveLogRecord, SendGapRecord, vars
<1>3. QED
  BY <1>1, <1>2, InitIndInv, InitSync, NextIndInv, NextSync DEF RoomInv

\* What the cursor of a subscription is, and that it is a number.
LEMMA CursorFacts ==
  ASSUME IndInv
  PROVE  /\ Cursor \in [Subs -> Nat]
         /\ \A s \in Subs : sub[s] # 0 => Cursor[s] = sub[s]
         /\ \A s \in Subs : Cursor[s] = IF pending[s] # 0 THEN pending[s] ELSE sub[s]
BY DEF IndInv, TypeInv, SubsInv, Cursor

\* A step that sends nothing and moves no subscription is one of TopicFeed.
LEMMA QuietFeed ==
  ASSUME IndInv, IndInv', UNCHANGED <<log, stream_subs>>, out' = {},
         \A s \in Subs : Cursor'[s] = Cursor[s]
  PROVE  Feed!Advance
<1>1. Cursor' \in [Subs -> Nat]
  BY DEF IndInv, TypeInv, Cursor
<1>2. \A s \in Subs : Feed!Sent(s) = {}
  BY DEF Feed!Sent
<1>3. QED
  BY <1>1, <1>2 DEF Feed!Advance

\* A new subscription is one for TopicFeed, told its start if that is the tail
\* (TopicTailer::AddSubscriber).
LEMMA SubscribeFeed ==
  ASSUME IndInv, NEW s \in Subs, NEW t \in Topics, Subscribe(s, t)
  PROVE  Feed!Subscribe(s)
<1>1. /\ s \notin used
      /\ stream_subs' = [stream_subs EXCEPT ![s] = t]
      /\ UNCHANGED <<log, sub, tail>>
  BY DEF Subscribe, AddSubscriber, AddTailSubscriber, AddSubscriberAtUnknownTail
<1>2. stream_subs[s] = NoTopic /\ sub[s] = 0 /\ pending[s] = 0
  BY <1>1 DEF IndInv, SubsInv
<1>3. PICK n \in Nat :
        /\ pending' = [pending EXCEPT ![s] = n]
        /\ \/ out' = {}
           \/ /\ 0 < n /\ n <= Len(log) + 1
              /\ out' = {[sub |-> s, kind |-> "gap", prev |-> 0, seqno |-> n - 1]}
  <2>1. ASSUME NEW start \in Starts \ {0}, AddSubscriber(s, t, start)
        PROVE  start \in Nat /\ pending' = [pending EXCEPT ![s] = start] /\ out' = {}
    BY <2>1, BoundAssumption DEF AddSubscriber
  <2>2. CASE AddTailSubscriber(s, t)
    <3>1. /\ tail \in Nat /\ 0 < tail /\ tail <= Len(log) + 1
          /\ pending' = [pending EXCEPT ![s] = tail]
          /\ out' = {[sub |-> s, kind |-> "gap", prev |-> 0, seqno |-> tail - 1]}
      BY <2>2 DEF AddTailSubscriber, TailGap, IndInv, TypeInv, TailNotAhead
    <3>2. QED
      BY <3>1
  <2>3. CASE AddSubscriberAtUnknownTail(s, t)
    <3>1. pending' = [pending EXCEPT ![s] = 0] /\ out' = {}
      BY <1>2, <2>3 DEF AddSubscriberAtUnknownTail, IndInv, TypeInv
    <3>2. QED
      BY <3>1
  <2>4. QED
    BY <2>1, <2>2, <2>3 DEF Subscribe
<1>4. Cursor' = [Cursor EXCEPT ![s] = n] /\ Cursor'[s] = n
  BY <1>1, <1>2, <1>3 DEF Cursor, IndInv, TypeInv
<1>5. QED
  BY <1>1, <1>2, <1>3, <1>4 DEF Feed!Subscribe

\* Subscriptions that waited for the tail are told where it is
\* (TopicTailer::ProcessFindLatestSeqnoResponse).
LEMMA FoundTailFeed ==
  ASSUME IndInv, ProcessFindLatestSeqnoResponse
  PROVE  Feed!FoundTail
<1> DEFINE live == {s \in waiting : stream_subs[s] # NoTopic}
           q == find.seqno
<1>1. /\ q \in 1 .. Len(log) + 1
      /\ pending' = [s \in Subs |-> IF s \in live THEN q ELSE pending[s]]
      /\ out' = {TailGap(s, q) : s \in live}
      /\ UNCHANGED <<log, sub, stream_subs>>
  BY DEF ProcessFindLatestSeqnoResponse, IndInv, TypeInv, FindInv, TailNotAhead
<1>2. live \in SUBSET {s \in Subs : stream_subs[s] # NoTopic /\ Cursor[s] = 0}
  BY DEF IndInv, TypeInv, SubsInv, Cursor
<1> HIDE DEF live, q
<1>3. Cursor' = [s \in Subs |-> IF s \in live THEN q ELSE Cursor[s]]
  <2>1. q # 0 /\ live \subseteq Subs
    BY <1>1, <1>2
  <2>2. QED
    BY <1>1, <2>1 DEF Cursor
<1>4. out' = {[sub |-> s, kind |-> "gap", prev |-> 0, seqno |-> q - 1] : s \in live}
  BY <1>1 DEF TailGap
<1>5. QED
  BY <1>1, <1>2, <1>3, <1>4 DEF Feed!FoundTail

\* Unsubscribing (TopicTailer::RemoveSubscriberInternal).
LEMMA RemoveFeed ==
  ASSUME IndInv, NEW S \in SUBSET Subs, RemoveSubscriberInternal(S)
  PROVE  Feed!Unsubscribe
<1>1. /\ sub' = [s \in Subs |-> IF s \in S THEN 0 ELSE sub[s]]
      /\ stream_subs' = [s \in Subs |-> IF s \in S THEN NoTopic ELSE stream_subs[s]]
      /\ pending' = [s \in Subs |-> IF s \in S THEN 0 ELSE pending[s]]
      /\ out' = {} /\ UNCHANGED log
  BY DEF RemoveSubscriberInternal
<1>2. Cursor' = [s \in Subs |-> IF s \in S THEN 0 ELSE Cursor[s]]
  BY <1>1 DEF Cursor
<1>3. QED
  BY <1>1, <1>2 DEF Feed!Unsubscribe

\* A step that moves the subscriptions of S past n, each by the message msg(s)
\* that covers its cursor.
LEMMA AdvanceFeed ==
  ASSUME IndInv, NEW S \in SUBSET Subs, NEW n \in Nat, NEW msg,
         \A s \in S : /\ sub[s] # 0 /\ stream_subs[s] # NoTopic
                      /\ msg[s].sub = s /\ msg[s].seqno = n
                      /\ Feed!Covers(msg[s], sub[s], stream_subs[s]),
         out' = {msg[s] : s \in S},
         sub' = [s \in Subs |-> IF s \in S THEN n + 1 ELSE sub[s]],
         UNCHANGED <<log, stream_subs, pending>>
  PROVE  Feed!Advance
<1>1. \A s \in Subs : Cursor'[s] = IF s \in S THEN n + 1 ELSE Cursor[s]
  BY DEF IndInv, TypeInv, SubsInv, Cursor
<1>2. \A s \in S : Cursor[s] = sub[s]
  BY CursorFacts
<1>3. Cursor' \in [Subs -> Nat]
  BY DEF IndInv, TypeInv, Cursor
<1>4. ASSUME NEW s \in Subs
      PROVE  \/ Feed!Sent(s) = {} /\ Cursor'[s] = Cursor[s]
             \/ /\ stream_subs[s] # NoTopic
                /\ \E m \in out' : /\ Feed!Sent(s) = {m}
                                   /\ Feed!Covers(m, Cursor[s], stream_subs[s])
                                   /\ Cursor'[s] = m.seqno + 1
  <2>1. CASE s \in S
    <3>1. Feed!Sent(s) = {msg[s]} /\ msg[s] \in out'
      BY <2>1 DEF Feed!Sent
    <3>2. Cursor'[s] = msg[s].seqno + 1 /\ Feed!Covers(msg[s], Cursor[s], stream_subs[s])
      BY <1>1, <1>2, <2>1
    <3>3. QED
      BY <2>1, <3>1, <3>2
  <2>2. CASE s \notin S
    <3>1. Feed!Sent(s) = {}
      BY <2>2 DEF Feed!Sent
    <3>2. QED
      BY <1>1, <2>2, <3>1
  <2>3. QED
    BY <2>1, <2>2
<1>5. QED
  BY <1>3, <1>4 DEF Feed!Advance

\* The messages of a record: the record to the subscribers of its topic, and a
\* gap to those of topics that lag (TopicTailer::ReceiveLogRecord).
LEMMA RecordFeed ==
  ASSUME IndInv, SyncInv, NEW r \in Readers, ReceiveLogRecord(r)
  PROVE  Feed!Advance
<1> DEFINE n == tailer[r]
           t == log[n]
           rd == reader[r]
           prev == rd.topics[t]
           ls == ProcessRecord(rd, n, t)
           B == IF prev # 0 THEN Bumped(ls, n) ELSE {}
           got == IF prev # 0 THEN VisitSubscribers(t, prev, n) ELSE {}
           bumped == UNION {VisitSubscribers(b, ls.topics[b], n) : b \in B}
           data(s) == [sub |-> s, kind |-> "data", prev |-> prev, seqno |-> n]
           gap(s) == [sub |-> s, kind |-> "gap", prev |-> ls.topics[stream_subs[s]], seqno |-> n]
           msg == [s \in got \cup bumped |-> IF s \in got THEN data(s) ELSE gap(s)]
<1>1. /\ n # 0 /\ n <= Len(log) /\ t # Gap
      /\ sub' = [s \in Subs |-> IF s \in got \cup bumped THEN n + 1 ELSE sub[s]]
      /\ out' = {data(s) : s \in got} \cup {gap(s) : s \in bumped}
      /\ UNCHANGED <<log, stream_subs, pending>>
  BY DEF ReceiveLogRecord
<1>2. /\ n \in Nat /\ n = rd.last_read + 1 /\ Len(log) \in Nat /\ log \in Seq(Topics \cup {Gap})
      /\ rd \in LogStates /\ TrueHistory(rd)
  BY <1>1 DEF IndInv, TypeInv, SyncInv, TailerInSync, AllReaders
<1>3. t \in Topics
  <2>1. n # 0 /\ n <= Len(log) /\ t # Gap
    BY DEF ReceiveLogRecord
  <2>2. n \in 1 .. Len(log)
    BY <1>2, <2>1
  <2>3. QED
    BY <1>2, <2>1, <2>2
<1>4. /\ rd.topics \in [Topics -> Nat] /\ rd.last_read \in Nat /\ MaxLag \in Nat
  BY <1>2, CostAssumption DEF LogStates
<1>5. /\ prev # 0 => ls.topics[t] = n + 1
      /\ \A b \in Topics \ {t} : ls.topics[b] = rd.topics[b]
  BY <1>2, <1>3, <1>4 DEF ProcessRecord
<1>6. \A b \in B : b \in Topics \ {t} /\ rd.topics[b] # 0 /\ ls.topics[b] = rd.topics[b]
  <2> SUFFICES ASSUME NEW b \in B PROVE b \in Topics \ {t} /\ rd.topics[b] # 0
    BY <1>5
  <2>1. prev # 0 /\ b \in Topics /\ ls.topics[b] # 0 /\ ls.topics[b] + MaxLag < n
    BY DEF Bumped, Tracked, Lagging
  <2>2. b # t
    <3>1. ~ (n + 1 + MaxLag < n)
      BY <1>2, <1>4
    <3>2. QED
      BY <1>5, <2>1, <3>1
  <2>3. QED
    BY <1>5, <2>1, <2>2
<1> HIDE DEF n, t, rd, ls, B
<1>7. /\ \A s \in got : /\ s \in Subs /\ sub[s] # 0 /\ stream_subs[s] = t /\ prev # 0
                        /\ prev <= sub[s] /\ sub[s] <= n
      /\ \A s \in bumped : /\ s \in Subs /\ sub[s] # 0 /\ stream_subs[s] \in B
                           /\ ls.topics[stream_subs[s]] <= sub[s] /\ sub[s] <= n
  BY DEF VisitSubscribers
<1>8. \A s \in bumped : s \notin got
  BY <1>6, <1>7
<1>9. \A u \in Topics : rd.topics[u] # 0 => \A k \in rd.topics[u] .. n - 1 : log[k] # u
  <2> SUFFICES ASSUME NEW u \in Topics, rd.topics[u] # 0, NEW k \in rd.topics[u] .. n - 1
               PROVE  log[k] # u
    OBVIOUS
  <2>1. rd.topics[u] \in Nat /\ n - 1 = rd.last_read
    BY <1>2, <1>4
  <2>2. rd.topics[u] <= rd.last_read
    BY <1>4, <2>1
  <2>3. QED
    BY <1>2, <2>1, <2>2 DEF TrueHistory
<1> HIDE DEF got, bumped
<1>10. ASSUME NEW s \in got PROVE Feed!Covers(data(s), sub[s], stream_subs[s])
  <2>1. stream_subs[s] = t /\ prev # 0 /\ prev <= sub[s] /\ sub[s] <= n
    BY <1>7
  <2>2. \A k \in prev .. n - 1 : log[k] # t
    BY <1>3, <1>9, <2>1
  <2>3. log[n] = t
    BY DEF t
  <2>4. QED
    BY <1>1, <2>1, <2>2, <2>3 DEF Feed!Covers
<1>11. ASSUME NEW s \in bumped PROVE Feed!Covers(gap(s), sub[s], stream_subs[s])
  <2> DEFINE b == stream_subs[s]
  <2>1. b \in Topics \ {t} /\ rd.topics[b] # 0 /\ ls.topics[b] = rd.topics[b]
    BY <1>6, <1>7
  <2>2. rd.topics[b] <= sub[s] /\ sub[s] <= n
    BY <1>7, <2>1
  <2>3. \A k \in rd.topics[b] .. n - 1 : log[k] # b
    BY <1>9, <2>1
  <2>4. log[n] = t
    BY DEF t
  <2> HIDE DEF b
  <2>5. gap(s).prev = rd.topics[b] /\ gap(s).seqno = n /\ gap(s).kind = "gap"
    BY <2>1 DEF b
  <2>6. Feed!Covers(gap(s), sub[s], b)
    BY <1>1, <2>1, <2>2, <2>3, <2>4, <2>5 DEF Feed!Covers
  <2>7. QED
    BY <2>6 DEF b
<1>12. \A s \in got \cup bumped : /\ sub[s] # 0 /\ stream_subs[s] # NoTopic
                                  /\ msg[s].sub = s /\ msg[s].seqno = n
                                  /\ Feed!Covers(msg[s], sub[s], stream_subs[s])
  <2> SUFFICES ASSUME NEW s \in got \cup bumped
               PROVE  /\ sub[s] # 0 /\ stream_subs[s] # NoTopic
                      /\ msg[s].sub = s /\ msg[s].seqno = n
                      /\ Feed!Covers(msg[s], sub[s], stream_subs[s])
    OBVIOUS
  <2>1. sub[s] # 0 /\ stream_subs[s] \in Topics
    BY <1>3, <1>6, <1>7
  <2>2. CASE s \in got
    <3>1. msg[s] = data(s)
      BY <2>2
    <3>2. QED
      BY <1>10, <2>1, <2>2, <3>1, NamesAssumption
  <2>3. CASE s \in bumped
    <3>1. msg[s] = gap(s)
      BY <1>8, <2>3
    <3>2. QED
      BY <1>11, <2>1, <2>3, <3>1, NamesAssumption
  <2>4. QED
    BY <2>2, <2>3
<1>13. out' = {msg[s] : s \in got \cup bumped}
  <2>1. \A s \in got : msg[s] = data(s)
    OBVIOUS
  <2>2. \A s \in bumped : msg[s] = gap(s)
    BY <1>8
  <2> HIDE DEF msg, data, gap
  <2>3. QED
    BY <1>1, <2>1, <2>2
<1>14. got \cup bumped \in SUBSET Subs
  BY <1>7
<1> HIDE DEF msg, data, gap
<1>15. QED
  BY <1>1, <1>2, <1>12, <1>13, <1>14, AdvanceFeed

\* The messages of a gap: one to every subscription it covers
\* (TopicTailer::SendGapRecord).
LEMMA GapFeed ==
  ASSUME GapsReachAll, RoomInv, NEW r \in Readers, NEW to \in tailer[r] .. Len(log),
         NEW order \in TopicOrders, SendGapRecord(r, to, order)
  PROVE  Feed!Advance
<1> DEFINE T == TopicsOf(sub)
           rd == reader[r]
           got == UNION {VisitSubscribers(t, rd.topics[t], to) : t \in T}
           gap(s) == [sub |-> s, kind |-> "gap", prev |-> rd.topics[stream_subs[s]], seqno |-> to]
           msg == [s \in got |-> gap(s)]
<1>1. /\ tailer[r] # 0 /\ \A n \in tailer[r] .. to : log[n] = Gap
      /\ sub' = [s \in Subs |-> IF s \in got THEN to + 1 ELSE sub[s]]
      /\ out' = {gap(s) : s \in got}
      /\ UNCHANGED <<log, stream_subs, pending>>
  BY DEF SendGapRecord
<1>2. IndInv /\ SyncInv /\ LogInv
  BY DEF RoomInv
<1>3. /\ tailer[r] \in Nat /\ tailer[r] = rd.last_read + 1 /\ Len(log) \in Nat
      /\ rd \in LogStates /\ TrueHistory(rd)
  BY <1>1, <1>2 DEF IndInv, TypeInv, SyncInv, TailerInSync, AllReaders
<1>4. to \in Nat /\ tailer[r] <= to /\ to <= Len(log) /\ rd.topics \in [Topics -> Nat] /\ rd.last_read \in Nat
  BY <1>3 DEF LogStates
<1>5. NumReaders = 1
  <2>1. log[to] = Gap /\ to \in 1 .. Len(log)
    BY <1>1, <1>3, <1>4
  <2>2. Gap \in Entries
    BY <1>2, <2>1 DEF LogInv
  <2>3. HasGaps
    BY <2>2, NamesAssumption DEF Entries
  <2>4. QED
    BY <2>3 DEF GapsReachAll
<1>6. \A s \in Subs : sub[s] # 0 => stream_subs[s] \in Topics /\ rd.topics[stream_subs[s]] # 0
  <2> SUFFICES ASSUME NEW s \in Subs, sub[s] # 0
               PROVE  stream_subs[s] \in Topics /\ rd.topics[stream_subs[s]] # 0
    OBVIOUS
  <2>1. stream_subs[s] \in Topics
    BY <1>2 DEF IndInv, TypeInv, SubsInv
  <2>2. PICK x \in AllReaders : stream_subs[s] \in Tracked(reader[x])
    BY <1>2, <2>1 DEF IndInv, Served, Subscribed, IsTracked
  <2>3. x # Virtual
    BY <1>2, <1>5, <2>2 DEF SyncInv, VirtualInv, IsLogOpen
  <2>4. x = r
    BY <1>5, <2>3, ReaderNumbers DEF AllReaders
  <2>5. QED
    BY <2>1, <2>2, <2>4 DEF Tracked
<1> HIDE DEF T, rd
<1>7. \A s \in got : s \in Subs /\ sub[s] # 0 /\ rd.topics[stream_subs[s]] <= sub[s] /\ sub[s] <= to
  BY DEF VisitSubscribers
<1> HIDE DEF got
<1>8. ASSUME NEW s \in got PROVE Feed!Covers(gap(s), sub[s], stream_subs[s])
  <2> DEFINE u == stream_subs[s]
  <2>1. u \in Topics /\ rd.topics[u] # 0 /\ rd.topics[u] \in Nat /\ rd.topics[u] <= sub[s] /\ sub[s] <= to
    BY <1>4, <1>6, <1>7
  <2>2. u # Gap /\ log[to] = Gap
    BY <1>1, <1>3, <1>4, <2>1, NamesAssumption
  <2>3. ASSUME NEW k \in rd.topics[u] .. to - 1 PROVE log[k] # u
    <3>1. CASE k <= rd.last_read
      <4>1. rd.topics[u] <= rd.last_read /\ k \in rd.topics[u] .. rd.last_read
        BY <1>4, <2>1, <3>1
      <4>2. QED
        BY <1>3, <2>1, <4>1 DEF TrueHistory
    <3>2. CASE ~ (k <= rd.last_read)
      <4>1. k \in tailer[r] .. to
        BY <1>3, <1>4, <2>1, <3>2
      <4>2. QED
        BY <1>1, <2>2, <4>1
    <3>3. QED
      BY <3>1, <3>2
  <2> HIDE DEF u
  <2>4. gap(s).prev = rd.topics[u] /\ gap(s).seqno = to /\ gap(s).kind = "gap"
    BY DEF u
  <2>5. Feed!Covers(gap(s), sub[s], u)
    BY <1>4, <2>1, <2>2, <2>3, <2>4 DEF Feed!Covers
  <2>6. QED
    BY <2>5 DEF u
<1>9. \A s \in got : /\ sub[s] # 0 /\ stream_subs[s] # NoTopic
                     /\ msg[s].sub = s /\ msg[s].seqno = to
                     /\ Feed!Covers(msg[s], sub[s], stream_subs[s])
  BY <1>6, <1>7, <1>8, NamesAssumption
<1>10. out' = {msg[s] : s \in got}
  <2>1. \A s \in got : msg[s] = gap(s)
    OBVIOUS
  <2> HIDE DEF msg, gap
  <2>2. QED
    BY <1>1, <2>1
<1>11. got \in SUBSET Subs
  BY <1>7
<1> HIDE DEF msg, gap
<1>12. QED
  BY <1>1, <1>2, <1>4, <1>9, <1>10, <1>11, AdvanceFeed

\* Every step of the room is a step of TopicFeed, or changes nothing of it.
LEMMA NextFeed ==
  ASSUME GapsReachAll, RoomInv, RoomInv', [Next]_vars
  PROVE  [Feed!Next]_(Feed!vars)
<1>0. IndInv /\ IndInv' /\ SyncInv
  BY DEF RoomInv
<1>1. CASE \E e \in Entries : AppendEntry(e)
  <2>1. PICK e \in Topics \cup {Gap} : log' = Append(log, e)
    BY <1>1 DEF AppendEntry, Entries
  <2>2. out' = {} /\ UNCHANGED <<sub, stream_subs, pending>>
    BY <1>1 DEF AppendEntry, subVars
  <2>3. Feed!AppendEntry
    BY <2>1, <2>2 DEF Feed!AppendEntry, Cursor
  <2>4. QED
    BY <2>3 DEF Feed!Next
<1>2. CASE AnswerFind \/ FailFind \/ RetryFindLatestSeqno
  <2>1. out' = {} /\ UNCHANGED <<log, sub, stream_subs, pending>>
    BY <1>2 DEF AnswerFind, FailFind, RetryFindLatestSeqno, subVars
  <2>2. \A s \in Subs : Cursor'[s] = Cursor[s]
    BY <2>1 DEF Cursor
  <2>3. QED
    BY <1>0, <2>1, <2>2, QuietFeed DEF Feed!Next
<1>3. ASSUME NEW s \in Subs, ProcessPendingSubscription(s) PROVE Feed!Advance
  <2>1. /\ out' = {} /\ UNCHANGED <<log, stream_subs>>
        /\ sub' = [sub EXCEPT ![s] = pending[s]] /\ pending' = [pending EXCEPT ![s] = 0]
        /\ pending[s] # 0
    BY <1>3 DEF ProcessPendingSubscription
  <2>2. \A x \in Subs : Cursor'[x] = Cursor[x]
    BY <1>0, <2>1 DEF Cursor, IndInv, TypeInv
  <2>3. QED
    BY <1>0, <2>1, <2>2, QuietFeed
<1>4. CASE \E s \in Subs, t \in Topics : Subscribe(s, t)
  BY <1>0, <1>4, SubscribeFeed DEF Feed!Next
<1>5. CASE ProcessFindLatestSeqnoResponse
  BY <1>0, <1>5, FoundTailFeed DEF Feed!Next
<1>6. ASSUME NEW s \in Subs, RemoveSubscriber(s) \/ RemoveStream(StreamOf[s]) PROVE Feed!Unsubscribe
  BY <1>0, <1>6, RemoveFeed DEF RemoveSubscriber, RemoveStream
<1>7. CASE \E r \in Readers : Deliver(r)
  BY <1>0, <1>7, RecordFeed, GapFeed DEF Deliver, Feed!Next
<1>8. CASE UNCHANGED vars
  BY <1>8 DEF vars, subVars, Feed!vars, Cursor
<1>9. QED
  BY <1>1, <1>2, <1>3, <1>4, <1>5, <1>6, <1>7, <1>8 DEF Next, Feed!Next

\* Whatever readers serve a subscription, it is a cursor over the log that moves
\* only with a message that covers it, and no record of its topic is skipped: the
\* room keeps the promise of TopicFeed (topic_tailer.cc), with one reader and any
\* log, or with any number of readers, no gaps and no unsubscriptions.
THEOREM RoomImplementsFeed ==
  ASSUME GapsReachAll
  PROVE  Spec => FeedSpec
<1>1. NoStaleVirtual
  BY DEF GapsReachAll, NoStaleVirtual
<1>2. Init => Feed!Init
  BY DEF Init, Feed!Init, Cursor
<1>3. RoomInv /\ RoomInv' /\ [Next]_vars => [Feed!Next]_(Feed!vars)
  BY NextFeed
<1>4. Init => RoomInv
  BY <1>1, RoomInvHolds
<1>5. RoomInv /\ [Next]_vars => RoomInv'
  BY <1>1, RoomInvHolds
<1>6. QED
  BY <1>2, <1>3, <1>4, <1>5, PTL DEF Spec, FeedSpec, Feed!Spec
=============================================================================
