----------------------- MODULE TopicTailerSyncProofs -----------------------
(***************************************************************************)
(* The readers of the topic tailer are where they claim to be, for every   *)
(* number of readers.  The hazard at topic_tailer.cc:667 (an               *)
(* unsubscription leaves last_read of the virtual reader behind its        *)
(* topics) is excluded: one reader per room, or no unsubscriptions.        *)
(***************************************************************************)
EXTENDS TopicTailerProofs, FiniteSetTheorems

NoStaleVirtual == NumReaders = 1 \/ MaxRemovals = 0

\* What a log state claims about a topic it has read past is true; it has not
\* read past the end of the log.
TrueHistory(ls) ==
  \A t \in Topics : ls.topics[t] # 0 /\ ls.topics[t] <= ls.last_read =>
    /\ ls.last_read <= Len(log)
    /\ \A n \in ls.topics[t] .. ls.last_read : log[n] # t

\* A log state that has read nothing: its first topic is next.
AtStart(ls) ==
  /\ \A t \in Tracked(ls) : ls.last_read < ls.topics[t]
  /\ \E t \in Tracked(ls) : ls.topics[t] = ls.last_read + 1

VirtualInv == IsLogOpen(reader[Virtual]) => NumReaders # 1 /\ AtStart(reader[Virtual])

SyncInv == TailerInSync /\ VirtualInv /\ \A r \in AllReaders : TrueHistory(reader[r])

\* A reader that starts a topic keeps its history true; it is rewound exactly
\* when the LogTailer is (LogReader::StartReading).
LEMMA StartReadingSync ==
  ASSUME NEW ls \in LogStates, NEW n \in Nat \ {0}, NEW t \in Topics, Len(log) \in Nat,
         TrueHistory(ls)
  PROVE  /\ TrueHistory(StartReading(ls, t, n).state)
         /\ StartReading(ls, t, n).state.last_read =
              IF StartReading(ls, t, n).start THEN n - 1 ELSE ls.last_read
         /\ (IsLogOpen(ls) => AtStart(ls)) => AtStart(StartReading(ls, t, n).state)
<1> DEFINE known == ls.topics[t] # 0
           reseek == /\ known => n < ls.topics[t]
                     /\ IsLogOpen(ls) => n <= ls.last_read
           next == IF known /\ ls.topics[t] < n THEN ls.topics[t] ELSE n
           st == StartReading(ls, t, n).state
<1>1. /\ st.topics = [ls.topics EXCEPT ![t] = next]
      /\ st.last_read = IF reseek THEN n - 1 ELSE ls.last_read
      /\ StartReading(ls, t, n).start = reseek
  BY DEF StartReading
<1>2. /\ ls.topics \in [Topics -> Nat] /\ ls.last_read \in Nat /\ next \in Nat \ {0}
      /\ known => IsLogOpen(ls)
  BY DEF LogStates, IsLogOpen, Tracked
<1> HIDE DEF st, next, known, reseek
<1>3. TrueHistory(st)
  <2> SUFFICES ASSUME NEW u \in Topics, st.topics[u] # 0, st.topics[u] <= st.last_read
               PROVE  /\ st.last_read <= Len(log)
                      /\ \A k \in st.topics[u] .. st.last_read : log[k] # u
    BY DEF TrueHistory
  <2>1. st.last_read <= ls.last_read \/ ~ IsLogOpen(ls)
    BY <1>1, <1>2 DEF reseek
  <2>2. ls.topics[u] # 0 /\ ls.topics[u] <= st.topics[u] /\ IsLogOpen(ls)
    <3>1. CASE u = t
      <4>1. st.topics[u] = next
        BY <1>1, <1>2, <3>1
      <4>2. known /\ ls.topics[t] <= n
        BY <1>1, <1>2, <4>1 DEF reseek, next, known
      <4>3. next = ls.topics[t]
        BY <1>2, <4>2 DEF next
      <4>4. QED
        BY <1>2, <3>1, <4>1, <4>2, <4>3 DEF known
    <3>2. CASE u # t
      BY <1>1, <1>2, <3>2 DEF IsLogOpen, Tracked
    <3>3. QED
      BY <3>1, <3>2
  <2>3. /\ ls.topics[u] \in Nat /\ st.topics[u] \in Nat /\ st.last_read \in Int /\ ls.last_read \in Nat
    BY <1>1, <1>2
  <2>4. ls.topics[u] <= ls.last_read /\ st.last_read <= ls.last_read
    BY <2>1, <2>2, <2>3
  <2>5. ls.last_read <= Len(log) /\ \A k \in ls.topics[u] .. ls.last_read : log[k] # u
    BY <2>2, <2>4 DEF TrueHistory
  <2>6. QED
    BY <2>2, <2>3, <2>4, <2>5
<1>4. ASSUME IsLogOpen(ls) => AtStart(ls) PROVE AtStart(st)
  <2>1. \A u \in Topics : u \in Tracked(st) <=> u \in Tracked(ls) \/ u = t
    BY <1>1, <1>2 DEF Tracked
  <2>2. CASE ~ IsLogOpen(ls)
    <3>1. Tracked(ls) = {} /\ ~ known /\ reseek /\ Tracked(st) = {t}
      BY <1>2, <2>1, <2>2 DEF IsLogOpen, Tracked, known, reseek
    <3>2. st.topics[t] = n /\ st.last_read = n - 1
      BY <1>1, <1>2, <3>1 DEF next
    <3>3. QED
      BY <3>1, <3>2 DEF AtStart
  <2>3. CASE IsLogOpen(ls) /\ reseek
    <3>1. st.topics[t] = n /\ st.last_read = n - 1 /\ n <= ls.last_read
      BY <1>1, <1>2, <2>3 DEF reseek, known, next
    <3>2. ASSUME NEW u \in Tracked(st) PROVE n - 1 < st.topics[u]
      <4>1. CASE u = t
        BY <3>1, <4>1
      <4>2. CASE u # t
        <5>1. u \in Topics /\ u \in Tracked(ls)
          BY <2>1, <4>2 DEF Tracked
        <5>2. st.topics[u] = ls.topics[u] /\ ls.last_read < ls.topics[u] /\ ls.topics[u] \in Nat
          BY <1>1, <1>2, <1>4, <2>3, <4>2, <5>1 DEF AtStart
        <5>3. QED
          BY <1>2, <3>1, <5>2
      <4>3. QED
        BY <4>1, <4>2
    <3>3. QED
      BY <2>1, <3>1, <3>2 DEF AtStart
  <2>4. CASE IsLogOpen(ls) /\ ~ reseek
    <3>1. PICK u \in Tracked(ls) : ls.topics[u] = ls.last_read + 1
      BY <1>4, <2>4 DEF AtStart
    <3>2. st.last_read = ls.last_read
      BY <1>1, <2>4
    <3>3. known => ls.last_read < ls.topics[t]
      BY <1>4, <2>4 DEF AtStart, Tracked, known
    <3>4. ls.last_read < next /\ (known /\ ls.topics[t] = ls.last_read + 1 => next = ls.topics[t])
      BY <1>2, <2>4, <3>3 DEF next, known, reseek
    <3>5. ASSUME NEW x \in Tracked(st) PROVE ls.last_read < st.topics[x]
      <4>1. CASE x = t
        BY <1>1, <1>2, <3>4, <4>1
      <4>2. CASE x # t
        BY <1>1, <1>2, <1>4, <2>1, <2>4, <4>2 DEF AtStart, Tracked
      <4>3. QED
        BY <4>1, <4>2
    <3>6. u \in Tracked(st) /\ st.topics[u] = ls.last_read + 1
      BY <1>1, <1>2, <2>1, <3>1, <3>4 DEF Tracked, known
    <3>7. QED
      BY <3>2, <3>5, <3>6 DEF AtStart
  <2>5. QED
    BY <2>2, <2>3, <2>4
<1>5. QED
  BY <1>1, <1>3, <1>4 DEF st

\* A reader that goes on to the next record keeps its history true
\* (LogReader::ProcessRecord, BumpLaggingSubscriptions).
LEMMA ProcessRecordSync ==
  ASSUME NEW ls \in LogStates, log \in Seq(Topics \cup {Gap}), TrueHistory(ls), NEW n \in Nat,
         n = ls.last_read + 1, n <= Len(log), log[n] \in Topics
  PROVE  /\ TrueHistory(ProcessRecord(ls, n, log[n]))
         /\ TrueHistory(BumpLaggingSubscriptions(ProcessRecord(ls, n, log[n]), n))
         /\ ProcessRecord(ls, n, log[n]).last_read = n
         /\ BumpLaggingSubscriptions(ProcessRecord(ls, n, log[n]), n).last_read = n
<1> DEFINE pr == ProcessRecord(ls, n, log[n])
           bp == BumpLaggingSubscriptions(pr, n)
<1>1. ls.topics \in [Topics -> Nat] /\ ls.last_read \in Nat /\ Len(log) \in Nat
  BY DEF LogStates
<1>2. /\ pr.last_read = n
      /\ pr.topics \in [Topics -> Nat]
      /\ pr.topics[log[n]] \in {0, n + 1}
      /\ \A u \in Topics \ {log[n]} : pr.topics[u] = ls.topics[u]
  BY <1>1 DEF ProcessRecord
<1>3. /\ bp.last_read = n
      /\ \A u \in Topics : bp.topics[u] \in {n + 1, pr.topics[u]}
  BY <1>2 DEF BumpLaggingSubscriptions
<1>4. ASSUME NEW u \in Topics, pr.topics[u] # 0, pr.topics[u] <= n
      PROVE  \A k \in pr.topics[u] .. n : log[k] # u
  <2>1. u # log[n] /\ pr.topics[u] = ls.topics[u] /\ ls.topics[u] \in Nat
    BY <1>1, <1>2, <1>4
  <2>2. ls.topics[u] <= ls.last_read => \A k \in ls.topics[u] .. ls.last_read : log[k] # u
    BY <1>4, <2>1 DEF TrueHistory
  <2>3. TAKE k \in pr.topics[u] .. n
  <2>4. k = n \/ k \in ls.topics[u] .. ls.last_read
    BY <1>1, <2>1
  <2>5. QED
    BY <1>1, <2>1, <2>2, <2>4
<1> HIDE DEF pr, bp
<1>5. TrueHistory(pr)
  BY <1>2, <1>4 DEF TrueHistory
<1>6. TrueHistory(bp)
  <2> SUFFICES ASSUME NEW u \in Topics, bp.topics[u] # 0, bp.topics[u] <= n
               PROVE  \A k \in bp.topics[u] .. n : log[k] # u
    BY <1>3 DEF TrueHistory
  <2>1. bp.topics[u] = pr.topics[u]
    BY <1>3
  <2>2. QED
    BY <1>4, <2>1
<1>7. QED
  BY <1>2, <1>3, <1>5, <1>6 DEF pr, bp

\* So does one that goes on over a gap (LogReader::ProcessGap).
LEMMA ProcessGapsSync ==
  ASSUME NEW ls \in LogStates, log \in Seq(Topics \cup {Gap}), TrueHistory(ls), NEW n \in Nat,
         ls.last_read < n, n <= Len(log), \A k \in ls.last_read + 1 .. n : log[k] = Gap,
         NEW S, NEW o
  PROVE  TrueHistory(ProcessGaps(ls, n, S, o)) /\ ProcessGaps(ls, n, S, o).last_read = n
<1> DEFINE pg == ProcessGaps(ls, n, S, o)
<1>1. ls.topics \in [Topics -> Nat] /\ ls.last_read \in Nat /\ Len(log) \in Nat
  BY DEF LogStates
<1>2. /\ pg.last_read = n
      /\ \A u \in Topics : pg.topics[u] \in {n + 1, ls.topics[u]}
  BY DEF ProcessGaps
<1> HIDE DEF pg
<1>3. ASSUME NEW u \in Topics, pg.topics[u] # 0, pg.topics[u] <= n
      PROVE  \A k \in pg.topics[u] .. n : log[k] # u
  <2>1. pg.topics[u] = ls.topics[u] /\ ls.topics[u] \in Nat
    BY <1>1, <1>2, <1>3
  <2>2. ls.topics[u] <= ls.last_read => \A k \in ls.topics[u] .. ls.last_read : log[k] # u
    BY <1>3, <2>1 DEF TrueHistory
  <2>3. TAKE k \in pg.topics[u] .. n
  <2>4. k \in ls.last_read + 1 .. n \/ k \in ls.topics[u] .. ls.last_read
    BY <1>1, <2>1
  <2>5. u # Gap
    BY NamesAssumption
  <2>6. QED
    BY <1>1, <2>1, <2>2, <2>4, <2>5
<1>4. TrueHistory(pg)
  BY <1>2, <1>3 DEF TrueHistory
<1>5. QED
  BY <1>2, <1>4 DEF pg

\* After a step of reader src to log state ls, readers are in sync again: a
\* merge joins readers at one position, and the freed reader starts where the
\* virtual reader is (TopicTailer::AttemptReaderMerges).
LEMMA MergeSync ==
  ASSUME ReaderType, TailerOpen, SyncInv, NEW src \in Readers, NEW ls \in LogStates, IsLogOpen(ls),
         TrueHistory(ls), AttemptReaderMerges(src, ls), UNCHANGED log
  PROVE  SyncInv'
<1>0. src \in AllReaders /\ src # Virtual /\ Virtual \in AllReaders
  BY ReaderNumbers DEF AllReaders
<1>1. CASE /\ reader' = [reader EXCEPT ![src] = ls]
           /\ tailer' = [tailer EXCEPT ![src] = ls.last_read + 1]
  <2>1. reader'[src] = ls /\ \A r \in AllReaders \ {src} : reader'[r] = reader[r]
    BY <1>0, <1>1 DEF ReaderType
  <2>2. tailer'[src] = ls.last_read + 1 /\ \A r \in Readers \ {src} : tailer'[r] = tailer[r]
    BY <1>1 DEF ReaderType
  <2>3. TailerInSync'
    BY <2>1, <2>2 DEF SyncInv, TailerInSync, AllReaders
  <2>4. VirtualInv'
    BY <1>0, <2>1 DEF SyncInv, VirtualInv
  <2>5. ASSUME NEW r \in AllReaders PROVE TrueHistory(reader[r])'
    BY <2>1 DEF SyncInv, TrueHistory
  <2>6. QED
    BY <2>3, <2>4, <2>5 DEF SyncInv
<1>2. ASSUME NEW dest \in Readers \ {src},
             CanMergeInto(ls, reader[dest]),
             reader' = [r \in AllReaders |->
                              IF r = dest THEN MergeInto(ls, reader[dest])
                              ELSE IF r = src THEN reader[Virtual]
                              ELSE IF r = Virtual THEN Closed ELSE reader[r]],
             tailer' = [tailer EXCEPT
                              ![src] = IF IsLogOpen(reader[Virtual])
                                       THEN ComputeStartSeqno(reader[Virtual]) ELSE 0]
      PROVE  SyncInv'
  <2> DEFINE v == reader[Virtual]
             d == reader[dest]
             md == MergeInto(ls, d)
  <2>1. v \in LogStates /\ d \in LogStates
    BY DEF ReaderType, AllReaders
  <2>2. /\ md.last_read = d.last_read /\ ls.last_read = d.last_read
        /\ \A u \in Topics : md.topics[u] \in {ls.topics[u], d.topics[u]}
    <3>1. /\ md.last_read = d.last_read
          /\ \A u \in Topics : md.topics[u] \in {ls.topics[u], d.topics[u]}
      BY <2>1, MergeIntoFacts
    <3>2. QED
      BY <1>2, <3>1 DEF CanMergeInto
  <2>3. TrueHistory(md)
    <3>1. TrueHistory(d) /\ TrueHistory(ls)
      BY DEF SyncInv, AllReaders
    <3> HIDE DEF md, d
    <3>2. QED
      BY <2>2, <3>1 DEF TrueHistory
  <2>4. IsLogOpen(v) => ComputeStartSeqno(v) = v.last_read + 1
    <3> SUFFICES ASSUME IsLogOpen(v) PROVE ComputeStartSeqno(v) = v.last_read + 1
      OBVIOUS
    <3>1. AtStart(v)
      BY DEF SyncInv, VirtualInv
    <3>2. PICK a \in Tracked(v) : ComputeStartSeqno(v) = v.topics[a]
      BY <2>1, ComputeStartSeqnoFacts
    <3>3. PICK b \in Tracked(v) : v.topics[b] = v.last_read + 1
      BY <3>1 DEF AtStart
    <3>4. ComputeStartSeqno(v) <= v.topics[b]
      BY <2>1, ComputeStartSeqnoFacts
    <3>5. v.last_read < v.topics[a]
      BY <3>1 DEF AtStart
    <3>6. v.last_read \in Nat /\ v.topics[a] \in Nat
      BY <2>1 DEF LogStates, Tracked
    <3>7. QED
      BY <3>2, <3>3, <3>4, <3>5, <3>6
  <2> HIDE DEF v, d, md
  <2>5. /\ reader'[dest] = md /\ reader'[src] = v /\ reader'[Virtual] = Closed
        /\ \A r \in AllReaders \ {dest, src, Virtual} : reader'[r] = reader[r]
    BY <1>2, ReaderNumbers DEF AllReaders, v, d, md
  <2>6. /\ tailer'[src] = IF IsLogOpen(v) THEN ComputeStartSeqno(v) ELSE 0
        /\ \A r \in Readers \ {src} : tailer'[r] = tailer[r]
    BY <1>2 DEF ReaderType, v
  <2>7. ASSUME NEW r \in Readers, tailer'[r] # 0 PROVE tailer'[r] = reader'[r].last_read + 1
    <3>1. CASE r = src
      BY <2>4, <2>5, <2>6, <2>7, <3>1
    <3>2. CASE r = dest
      BY <1>2, <2>2, <2>5, <2>6, <2>7, <3>2 DEF SyncInv, TailerInSync, d
    <3>3. CASE r # src /\ r # dest
      BY <2>5, <2>6, <2>7, <3>3, ReaderNumbers DEF SyncInv, TailerInSync, AllReaders
    <3>4. QED
      BY <3>1, <3>2, <3>3
  <2>8. ~ IsLogOpen(Closed) /\ TrueHistory(Closed)
    BY DEF IsLogOpen, Tracked, Closed, TrueHistory
  <2>9. ASSUME NEW r \in AllReaders PROVE TrueHistory(reader[r])'
    <3>1. TrueHistory(v) /\ TrueHistory(reader[r])
      BY <1>0 DEF SyncInv, v
    <3>2. \E x \in {md, v, Closed, reader[r]} : reader'[r] = x
      BY <2>5
    <3>3. QED
      BY <2>3, <2>8, <3>1, <3>2 DEF TrueHistory
  <2>10. VirtualInv'
    BY <2>5, <2>8 DEF VirtualInv
  <2>11. QED
    BY <2>7, <2>9, <2>10 DEF SyncInv, TailerInSync
<1>3. QED
  BY <1>1, <1>2, MergeCases

\* Readers start closed.
LEMMA InitSync == Init => SyncInv
<1> SUFFICES ASSUME Init PROVE SyncInv
  OBVIOUS
<1>1. ~ IsLogOpen(Closed) /\ TrueHistory(Closed)
  BY DEF IsLogOpen, Tracked, Closed, TrueHistory
<1>2. \A r \in AllReaders : reader[r] = Closed
  BY DEF Init, AllReaders
<1>3. QED
  BY <1>1, <1>2 DEF Init, SyncInv, TailerInSync, VirtualInv, AllReaders

\* Steps that leave the readers alone, and perhaps add to the log.
LEMMA QuietSync ==
  ASSUME IndInv, SyncInv, UNCHANGED <<tailer, reader>>,
         log' = log \/ \E e \in Topics \cup {Gap} : log' = Append(log, e)
  PROVE  SyncInv'
<1>1. TailerInSync' /\ VirtualInv'
  BY DEF SyncInv, TailerInSync, VirtualInv
<1>2. Len(log) \in Nat /\ Len(log') >= Len(log) /\ \A n \in 1 .. Len(log) : log'[n] = log[n]
  <2>1. log \in Seq(Topics \cup {Gap}) /\ Len(log) \in Nat
    BY DEF IndInv, TypeInv
  <2>2. CASE log' = log
    BY <2>1, <2>2
  <2>3. ASSUME NEW e \in Topics \cup {Gap}, log' = Append(log, e)
        PROVE  Len(log') >= Len(log) /\ \A n \in 1 .. Len(log) : log'[n] = log[n]
    BY <2>1, <2>3
  <2>4. QED
    BY <2>1, <2>2, <2>3
<1>3. ASSUME NEW r \in AllReaders PROVE TrueHistory(reader[r])'
  <2>1. TrueHistory(reader[r]) /\ reader[r] \in LogStates
    BY DEF SyncInv, IndInv, TypeInv, AllReaders
  <2> SUFFICES ASSUME NEW t \in Topics, reader[r].topics[t] # 0,
                      reader[r].topics[t] <= reader[r].last_read
               PROVE  /\ reader[r].last_read <= Len(log')
                      /\ \A n \in reader[r].topics[t] .. reader[r].last_read : log'[n] # t
    BY DEF TrueHistory
  <2>2. /\ reader[r].last_read <= Len(log)
        /\ \A n \in reader[r].topics[t] .. reader[r].last_read : log[n] # t
    BY <2>1 DEF TrueHistory
  <2>3. reader[r].topics[t] \in Nat \ {0} /\ reader[r].last_read \in Nat
    BY <2>1 DEF LogStates
  <2>4. \A n \in reader[r].topics[t] .. reader[r].last_read : n \in 1 .. Len(log)
    BY <1>2, <2>2, <2>3
  <2>5. Len(log') \in Nat
    BY DEF IndInv, TypeInv
  <2>6. QED
    BY <1>2, <2>2, <2>3, <2>4, <2>5
<1>4. QED
  BY <1>1, <1>3 DEF SyncInv

\* A queued subscription rewinds the LogTailer together with the reader
\* (TopicTailer::ProcessPendingSubscription).
LEMMA PendingSync ==
  ASSUME IndInv, SyncInv, NEW s \in Subs, ProcessPendingSubscription(s)
  PROVE  SyncInv'
<1> DEFINE t == stream_subs[s]
           n == pending[s]
           r == ReaderForNewSubscription(t, n)
           st == StartReading(reader[r], t, n)
<1>1. n \in Nat \ {0} /\ t \in Topics /\ Len(log) \in Nat
  BY DEF ProcessPendingSubscription, IndInv, TypeInv, SubsInv
<1>2. ReaderType
  BY DEF IndInv, TypeInv, ReaderType, AllReaders
<1>3. r \in AllReaders /\ (NumReaders = 1 => r = 1)
  <2>1. r \in AllReaders
    BY <1>1, <1>2, ReaderForNewSubscriptionFacts
  <2>2. NumReaders = 1 => r = 1
    BY <1>1, <1>2, ReaderForNewSubscriptionFacts
  <2>3. QED
    BY <2>1, <2>2
<1>4. reader[r] \in LogStates /\ TrueHistory(reader[r])
  BY <1>2, <1>3 DEF ReaderType, SyncInv
<1> HIDE DEF r, n, t
<1>5. /\ TrueHistory(st.state)
      /\ st.state.last_read = IF st.start THEN n - 1 ELSE reader[r].last_read
      /\ (IsLogOpen(reader[r]) => AtStart(reader[r])) => AtStart(st.state)
      /\ ~ IsLogOpen(reader[r]) => st.start
  <2>1. TrueHistory(st.state)
    BY <1>1, <1>4, StartReadingSync
  <2>2. st.state.last_read = IF st.start THEN n - 1 ELSE reader[r].last_read
    BY <1>1, <1>4, StartReadingSync
  <2>3. (IsLogOpen(reader[r]) => AtStart(reader[r])) => AtStart(st.state)
    BY <1>1, <1>4, StartReadingSync
  <2>4. ~ IsLogOpen(reader[r]) => st.start
    BY <1>1, <1>4, StartReadingFacts
  <2>5. QED
    BY <2>1, <2>2, <2>3, <2>4
<1>6. /\ reader' = [reader EXCEPT ![r] = st.state]
      /\ tailer' = IF r # Virtual /\ st.start THEN [tailer EXCEPT ![r] = n] ELSE tailer
      /\ UNCHANGED log
  BY DEF ProcessPendingSubscription, r, n, t
<1> HIDE DEF st
<1>7. reader'[r] = st.state /\ \A x \in AllReaders \ {r} : reader'[x] = reader[x]
  BY <1>2, <1>3, <1>6 DEF ReaderType
<1>8. TailerInSync'
  <2> SUFFICES ASSUME NEW x \in Readers, tailer'[x] # 0 PROVE tailer'[x] = reader'[x].last_read + 1
    BY DEF TailerInSync
  <2>1. CASE x = r
    <3>1. CASE st.start
      <4>1. x # Virtual
        BY ReaderNumbers
      <4>2. tailer'[x] = n
        BY <1>2, <1>6, <2>1, <3>1, <4>1 DEF ReaderType
      <4>3. reader'[x].last_read = n - 1
        BY <1>5, <1>7, <2>1, <3>1
      <4>4. QED
        BY <1>1, <4>2, <4>3
    <3>2. CASE ~ st.start
      <4>1. tailer'[x] = tailer[x] /\ reader'[x].last_read = reader[x].last_read
        BY <1>5, <1>6, <1>7, <2>1, <3>2
      <4>2. QED
        BY <4>1 DEF SyncInv, TailerInSync
    <3>3. QED
      BY <3>1, <3>2
  <2>2. CASE x # r
    <3>1. tailer'[x] = tailer[x] /\ reader'[x] = reader[x]
      BY <1>2, <1>6, <1>7, <2>2 DEF ReaderType, AllReaders
    <3>2. QED
      BY <3>1 DEF SyncInv, TailerInSync
  <2>3. QED
    BY <2>1, <2>2
<1>9. VirtualInv'
  <2>1. CASE r = Virtual
    BY <1>3, <1>5, <1>7, <2>1 DEF VirtualInv, SyncInv, Virtual
  <2>2. CASE r # Virtual
    BY <1>7, <2>2 DEF VirtualInv, SyncInv, AllReaders
  <2>3. QED
    BY <2>1, <2>2
<1>10. ASSUME NEW x \in AllReaders PROVE TrueHistory(reader[x])'
  BY <1>5, <1>6, <1>7 DEF SyncInv, TrueHistory
<1>11. QED
  BY <1>8, <1>9, <1>10 DEF SyncInv

\* Unsubscribing forgets topics and moves no reader
\* (TopicTailer::RemoveSubscriberInternal).
LEMMA RemoveSync ==
  ASSUME NoStaleVirtual, IndInv, SyncInv, NEW S \in SUBSET Subs, RemoveSubscriberInternal(S)
  PROVE  SyncInv'
<1>1. NumReaders = 1
  <2> SUFFICES ASSUME MaxRemovals = 0 PROVE FALSE
    BY DEF NoStaleVirtual
  <2> DEFINE R == {s \in used : stream_subs[s] = NoTopic} \cup S
  <2>1. R \in SUBSET Subs /\ R # {} /\ Cardinality(R) <= 0
    BY DEF RemoveSubscriberInternal, IndInv, TypeInv
  <2> HIDE DEF R
  <2>2. IsFiniteSet(R)
    BY <2>1, SubsAssumption, FS_Subset
  <2>3. Cardinality(R) \in Nat /\ Cardinality(R) # 0
    BY <2>1, <2>2, FS_CardinalityType, FS_EmptySet
  <2>4. QED
    BY <2>1, <2>3
<1> DEFINE left == [s \in Subs |-> IF s \in S THEN 0 ELSE sub[s]]
           gone == {stream_subs[s] : s \in S} \ TopicsOf(left)
<1>2. /\ reader' = [r \in DOMAIN reader |-> StopReading(reader[r], gone)]
      /\ tailer' = [r \in Readers |-> IF IsLogOpen(reader'[r]) THEN tailer[r] ELSE 0]
      /\ UNCHANGED log
  BY DEF RemoveSubscriberInternal
<1> HIDE DEF gone
<1>3. DOMAIN reader = AllReaders /\ \A r \in AllReaders : reader[r] \in LogStates
  BY DEF IndInv, TypeInv, AllReaders
<1>4. ASSUME NEW r \in AllReaders
      PROVE  /\ Tracked(reader'[r]) = Tracked(reader[r]) \ gone
             /\ \A t \in Topics : reader'[r].topics[t] \in {0, reader[r].topics[t]}
             /\ IsLogOpen(reader'[r]) => reader'[r].last_read = reader[r].last_read
             /\ \A t \in Topics : reader'[r].topics[t] # 0 => IsLogOpen(reader'[r])
  <2>1. reader'[r] = StopReading(reader[r], gone) /\ reader[r] \in LogStates
    BY <1>2, <1>3
  <2>2. Tracked(reader'[r]) = Tracked(reader[r]) \ gone
    BY <2>1, StopReadingFacts
  <2>3. CASE Tracked(reader[r]) \subseteq gone
    <3>1. reader'[r] = Closed
      BY <2>1, <2>3 DEF StopReading
    <3>2. QED
      BY <2>2, <3>1 DEF Closed, IsLogOpen, Tracked
  <2>4. CASE ~ (Tracked(reader[r]) \subseteq gone)
    <3>1. /\ reader'[r].topics = [t \in Topics |-> IF t \in gone THEN 0 ELSE reader[r].topics[t]]
          /\ reader'[r].last_read = reader[r].last_read
      BY <2>1, <2>4 DEF StopReading, LogStates
    <3>2. QED
      BY <2>2, <2>4, <3>1 DEF IsLogOpen
  <2>5. QED
    BY <2>3, <2>4
<1>5. TailerInSync'
  BY <1>2, <1>4 DEF SyncInv, TailerInSync, AllReaders
<1>6. VirtualInv'
  BY <1>1, <1>4 DEF SyncInv, VirtualInv, IsLogOpen, AllReaders
<1>7. ASSUME NEW r \in AllReaders PROVE TrueHistory(reader[r])'
  <2>1. TrueHistory(reader[r])
    BY DEF SyncInv
  <2>2. QED
    BY <1>2, <1>4, <2>1 DEF TrueHistory
<1>8. QED
  BY <1>5, <1>6, <1>7 DEF SyncInv

\* A record or a gap moves the reader to its end (TopicTailer::ReceiveLogRecord,
\* SendGapRecord).
LEMMA DeliverSync ==
  ASSUME IndInv, SyncInv, NEW r \in Readers, Deliver(r)
  PROVE  SyncInv'
<1> DEFINE n == tailer[r]
           ls == reader[r]
<1>1. ReaderType /\ TailerOpen
  BY DEF IndInv, TypeInv, ReaderType, AllReaders
<1>2. /\ n \in Nat /\ log \in Seq(Topics \cup {Gap}) /\ Len(log) \in Nat
      /\ ls \in LogStates /\ TrueHistory(ls)
  BY DEF IndInv, TypeInv, SyncInv, AllReaders
<1>3. n # 0 => n = ls.last_read + 1 /\ IsLogOpen(ls)
  BY <1>1 DEF SyncInv, TailerInSync, TailerOpen
<1>4. CASE ReceiveLogRecord(r)
  <2> DEFINE pr == ProcessRecord(ls, n, log[n])
             lb == IF ls.topics[log[n]] # 0 THEN BumpLaggingSubscriptions(pr, n) ELSE pr
  <2>1. n # 0 /\ n <= Len(log) /\ log[n] # Gap /\ AttemptReaderMerges(r, lb) /\ UNCHANGED log
    BY <1>4 DEF ReceiveLogRecord
  <2> HIDE DEF lb, pr, n, ls
  <2>2. log[n] \in Topics
    BY <1>2, <2>1
  <2>3. TrueHistory(pr) /\ TrueHistory(BumpLaggingSubscriptions(pr, n))
    <3>1. TrueHistory(pr)
      BY <1>2, <1>3, <2>1, <2>2, ProcessRecordSync DEF pr
    <3>2. TrueHistory(BumpLaggingSubscriptions(pr, n))
      BY <1>2, <1>3, <2>1, <2>2, ProcessRecordSync DEF pr
    <3>3. QED
      BY <3>1, <3>2
  <2>4. pr \in LogStates /\ Tracked(pr) = Tracked(ls)
    <3>1. pr \in LogStates
      BY <1>2, <2>2, ProcessRecordFacts DEF pr
    <3>2. Tracked(pr) = Tracked(ls)
      BY <1>2, <2>2, ProcessRecordFacts DEF pr
    <3>3. QED
      BY <3>1, <3>2
  <2>5. /\ BumpLaggingSubscriptions(pr, n) \in LogStates
        /\ Tracked(BumpLaggingSubscriptions(pr, n)) = Tracked(pr)
    BY <1>2, <2>4, BumpFacts
  <2>6. lb \in LogStates /\ TrueHistory(lb) /\ IsLogOpen(lb)
    BY <1>3, <2>1, <2>3, <2>4, <2>5 DEF IsLogOpen, lb
  <2>7. QED
    BY <1>1, <2>1, <2>6, MergeSync
<1>5. ASSUME NEW to \in tailer[r] .. Len(log), NEW order \in TopicOrders, SendGapRecord(r, to, order)
      PROVE  SyncInv'
  <2> DEFINE T == TopicsOf(sub)
             pg == ProcessGaps(ls, to, T, order)
  <2>1. /\ n # 0 /\ \A k \in n .. to : log[k] = Gap
        /\ AttemptReaderMerges(r, pg) /\ UNCHANGED log
    BY <1>5 DEF SendGapRecord
  <2> HIDE DEF pg, ls
  <2>2. to \in Nat /\ n <= to /\ to <= Len(log) /\ order \in SUBSET (Topics \X Topics)
    BY <1>2, <1>5 DEF TopicOrders
  <2>3. T \in SUBSET Topics
    BY DEF IndInv, SubsInv, TypeInv, TopicsOf
  <2> HIDE DEF T, n
  <2>4. ls.last_read \in Nat /\ ls.last_read < to /\ \A k \in ls.last_read + 1 .. to : log[k] = Gap
    BY <1>2, <1>3, <2>1, <2>2 DEF LogStates
  <2>5. TrueHistory(pg)
    BY <1>2, <2>2, <2>4, ProcessGapsSync DEF pg
  <2>6. pg \in LogStates
    BY <1>2, <2>2, <2>3, ProcessGapsFacts DEF pg
  <2>7. Tracked(pg) = Tracked(ls)
    BY <1>2, <2>2, <2>3, ProcessGapsFacts DEF pg
  <2>8. IsLogOpen(pg)
    BY <1>3, <2>1, <2>7 DEF IsLogOpen
  <2>9. QED
    BY <1>1, <2>1, <2>5, <2>6, <2>8, MergeSync
<1>6. QED
  BY <1>4, <1>5 DEF Deliver

\* The strengthened invariant is inductive.
LEMMA NextSync == NoStaleVirtual /\ IndInv /\ SyncInv /\ [Next]_vars => SyncInv'
<1> SUFFICES ASSUME NoStaleVirtual, IndInv, SyncInv, [Next]_vars PROVE SyncInv'
  OBVIOUS
<1>1. CASE (\E e \in Entries : AppendEntry(e)) \/ AnswerFind \/ FailFind
  <2>1. UNCHANGED <<tailer, reader>>
    BY <1>1 DEF AppendEntry, AnswerFind, FailFind
  <2>2. log' = log \/ \E e \in Topics \cup {Gap} : log' = Append(log, e)
    BY <1>1 DEF AppendEntry, AnswerFind, FailFind, Entries
  <2>3. QED
    BY <2>1, <2>2, QuietSync
<1>2. ASSUME NEW s \in Subs, NEW t \in Topics, Subscribe(s, t) PROVE SyncInv'
  <2>1. UNCHANGED <<tailer, reader, log>>
    BY <1>2 DEF Subscribe, AddSubscriber, AddTailSubscriber, AddSubscriberAtUnknownTail
  <2>2. QED
    BY <2>1, QuietSync
<1>3. ASSUME NEW s \in Subs, RemoveSubscriber(s) PROVE SyncInv'
  BY <1>3, RemoveSync DEF RemoveSubscriber
<1>4. ASSUME NEW s \in Subs, RemoveStream(StreamOf[s]) PROVE SyncInv'
  BY <1>4, RemoveSync DEF RemoveStream
<1>5. CASE \E s \in Subs : ProcessPendingSubscription(s)
  BY <1>5, PendingSync
<1>6. CASE ProcessFindLatestSeqnoResponse \/ RetryFindLatestSeqno \/ UNCHANGED vars
  <2>1. UNCHANGED <<tailer, reader, log>>
    BY <1>6 DEF ProcessFindLatestSeqnoResponse, RetryFindLatestSeqno, vars
  <2>2. QED
    BY <2>1, QuietSync
<1>7. CASE \E r \in Readers : Deliver(r)
  BY <1>7, DeliverSync
<1>8. QED
  BY <1>1, <1>2, <1>3, <1>4, <1>5, <1>6, <1>7 DEF Next

\* In a room with one reader, or without unsubscriptions, however many readers
\* meet, merge, steal and are rewound: the LogTailer hands each reader the entry
\* it expects (RS_ASSERT at topic_tailer.cc:893 and :355), and between next_seqno
\* of a topic and the reader's position the log has no record of the topic.
THEOREM ReadersStayInSync ==
  ASSUME NoStaleVirtual
  PROVE  Spec => []ReadersInSync
<1>1. IndInv /\ SyncInv => ReadersInSync
  <2> SUFFICES ASSUME IndInv, SyncInv PROVE KnowsHistory
    BY DEF SyncInv, ReadersInSync
  <2> SUFFICES ASSUME NEW r \in Readers, NEW t \in Topics, reader[r].topics[t] # 0,
                      NEW n \in reader[r].topics[t] .. reader[r].last_read
               PROVE  log[n] # t
    BY DEF KnowsHistory
  <2>1. reader[r] \in LogStates /\ TrueHistory(reader[r])
    BY DEF IndInv, TypeInv, SyncInv, AllReaders
  <2>2. reader[r].topics[t] <= reader[r].last_read
    BY <2>1 DEF LogStates
  <2>3. QED
    BY <2>1, <2>2 DEF TrueHistory
<1>2. Init => IndInv /\ SyncInv
  BY InitIndInv, InitSync
<1>3. IndInv /\ SyncInv /\ [Next]_vars => IndInv' /\ SyncInv'
  BY NextIndInv, NextSync
<1>4. QED
  BY <1>1, <1>2, <1>3, PTL DEF Spec
=============================================================================
