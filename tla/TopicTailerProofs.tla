------------------------- MODULE TopicTailerProofs -------------------------
(***************************************************************************)
(* What holds of the topic tailer for every number of readers, with gaps,  *)
(* failures and unsubscriptions: its type invariant, that readers and      *)
(* subscribed topics match, and that the tail estimate stays in the log.   *)
(***************************************************************************)
EXTENDS TopicTailer, WellFoundedInduction, TLAPS

-----------------------------------------------------------------------------
(***************************************************************************)
(* Minima, for the CHOOSE expressions of the model.                        *)
(***************************************************************************)

\* A non-empty set of naturals has a least element: the loops that keep the
\* best candidate seen so far return one.
LEMMA LeastNatural ==
  ASSUME NEW S \in SUBSET Nat, S # {}
  PROVE  \E n \in S : \A m \in S : n <= m
<1> DEFINE R == {p \in Nat \X Nat : p[1] < p[2]}
<1>1. IsWellFoundedOn(OpToRel(<, Nat), Nat)
  BY NatLessThanWellFounded
<1>2. OpToRel(<, Nat) = R
  BY DEF OpToRel
<1>3. IsWellFoundedOn(R, Nat)
  BY <1>1, <1>2
<1>4. PICK n \in S : \A m \in S : ~ (<<m, n>> \in R)
  BY <1>3, WFMin
<1>5. ASSUME NEW m \in S PROVE n <= m
  <2>1. ~ (<<m, n>> \in R) /\ <<m, n>> \in Nat \X Nat
    BY <1>4
  <2>2. ~ (m < n)
    BY <2>1
  <2>3. QED
    BY <2>2
<1>6. QED
  BY <1>5

-----------------------------------------------------------------------------
(***************************************************************************)
(* The operations of LogReader keep a log state well formed; this is what  *)
(* each does to the tracked topics.                                        *)
(***************************************************************************)

\* Processing a record keeps the tracked topics (LogReader::ProcessRecord).
LEMMA ProcessRecordFacts ==
  ASSUME NEW ls \in LogStates, NEW n \in Nat, NEW t \in Topics
  PROVE  /\ ProcessRecord(ls, n, t) \in LogStates
         /\ Tracked(ProcessRecord(ls, n, t)) = Tracked(ls)
<1>1. MoveToBack(ls, t) \in SUBSET (Topics \X Topics)
  BY DEF LogStates, MoveToBack, Drop, Tracked
<1>2. QED
  BY <1>1 DEF LogStates, ProcessRecord, Tracked

\* Bumping keeps the tracked topics and the position, and moves only lagging
\* topics (LogReader::BumpLaggingSubscriptions).
LEMMA BumpFacts ==
  ASSUME NEW ls \in LogStates, NEW n \in Nat
  PROVE  /\ BumpLaggingSubscriptions(ls, n) \in LogStates
         /\ Tracked(BumpLaggingSubscriptions(ls, n)) = Tracked(ls)
         /\ Bumped(ls, n) \subseteq Tracked(ls)
<1> DEFINE B == Bumped(ls, n)
           bf == {p \in ls.before : p[1] \in B => p[2] \in B}
                   \cup ((Tracked(ls) \ B) \X B)
           tp == [t \in Topics |-> IF t \in B THEN n + 1 ELSE ls.topics[t]]
<1>1. B \subseteq Tracked(ls) /\ Tracked(ls) \subseteq Topics
  BY DEF Bumped, Tracked
<1>2. bf \in SUBSET (Topics \X Topics) /\ tp \in [Topics -> Nat]
  BY <1>1 DEF LogStates
<1>3. BumpLaggingSubscriptions(ls, n) = [topics |-> tp, before |-> bf, last_read |-> ls.last_read]
  BY DEF BumpLaggingSubscriptions
<1>4. Tracked([topics |-> tp, before |-> bf, last_read |-> ls.last_read]) = Tracked(ls)
  BY <1>1 DEF Tracked, LogStates
<1>5. QED
  BY <1>1, <1>2, <1>3, <1>4 DEF LogStates

\* A gap keeps the tracked topics (LogReader::ProcessGap and its callers).
LEMMA ProcessGapsFacts ==
  ASSUME NEW ls \in LogStates, NEW n \in Nat, NEW S \in SUBSET Topics,
         NEW o \in SUBSET (Topics \X Topics)
  PROVE  /\ ProcessGaps(ls, n, S, o) \in LogStates
         /\ Tracked(ProcessGaps(ls, n, S, o)) = Tracked(ls)
<1>1. Drop(ls.before, Tracked(ls) \cap S) \cup ((Tracked(ls) \ (Tracked(ls) \cap S)) \X (Tracked(ls) \cap S))
        \cup {p \in o : p[1] \in Tracked(ls) \cap S /\ p[2] \in Tracked(ls) \cap S}
        \in SUBSET (Topics \X Topics)
  BY DEF LogStates, Drop, Tracked
<1>2. QED
  BY <1>1 DEF LogStates, ProcessGaps, Tracked

\* Accepting a subscription adds its topic, at or before its sequence number
\* (LogReader::StartReading).
LEMMA StartReadingFacts ==
  ASSUME NEW ls \in LogStates, NEW n \in Nat \ {0}, NEW t \in Topics
  PROVE  /\ StartReading(ls, t, n).state \in LogStates
         /\ StartReading(ls, t, n).start \in BOOLEAN
         /\ Tracked(StartReading(ls, t, n).state) = Tracked(ls) \cup {t}
         /\ ~ IsLogOpen(ls) => StartReading(ls, t, n).start
<1>1. MoveToFront(ls, t) \in SUBSET (Topics \X Topics)
  BY DEF LogStates, MoveToFront, Drop, Tracked
<1>2. QED
  BY <1>1 DEF LogStates, StartReading, Tracked, IsLogOpen

\* Unsubscribing from all of a topic removes it (LogReader::StopReading).
LEMMA StopReadingFacts ==
  ASSUME NEW ls \in LogStates, NEW S
  PROVE  /\ StopReading(ls, S) \in LogStates
         /\ Tracked(StopReading(ls, S)) = Tracked(ls) \ S
<1>1. CASE Tracked(ls) \subseteq S
  BY <1>1 DEF StopReading, Closed, LogStates, Tracked, IsLogOpen
<1>2. CASE ~ (Tracked(ls) \subseteq S)
  BY <1>2 DEF StopReading, LogStates, Tracked, Drop, IsLogOpen
<1>3. QED
  BY <1>1, <1>2

\* Merging tracks the topics of both readers, each from the lower position
\* (LogReader::MergeInto).
LEMMA MergeIntoFacts ==
  ASSUME NEW src \in LogStates, NEW dest \in LogStates
  PROVE  /\ MergeInto(src, dest) \in LogStates
         /\ Tracked(MergeInto(src, dest)) = Tracked(src) \cup Tracked(dest)
         /\ MergeInto(src, dest).last_read = dest.last_read
         /\ \A u \in Topics : MergeInto(src, dest).topics[u] \in {src.topics[u], dest.topics[u]}
<1> DEFINE new == Tracked(src) \ Tracked(dest)
           tp == [t \in Topics |->
                    IF t \in new \/ (src.topics[t] # 0 /\ src.topics[t] < dest.topics[t])
                    THEN src.topics[t] ELSE dest.topics[t]]
           bf == dest.before \cup (Tracked(dest) \X new)
                   \cup {p \in src.before : p[1] \in new /\ p[2] \in new}
<1>1. tp \in [Topics -> Nat] /\ bf \in SUBSET (Topics \X Topics)
  BY DEF LogStates, Tracked
<1>2. MergeInto(src, dest) = [topics |-> tp, before |-> bf, last_read |-> dest.last_read]
  BY DEF MergeInto
<1>3. Tracked([topics |-> tp, before |-> bf, last_read |-> dest.last_read]) = Tracked(src) \cup Tracked(dest)
  BY DEF Tracked, LogStates
<1>4. QED
  BY <1>1, <1>2, <1>3 DEF LogStates

\* The virtual reader's subscriptions start at one of its topics' positions
\* (LogState::ComputeStartSeqno).
LEMMA ComputeStartSeqnoFacts ==
  ASSUME NEW ls \in LogStates, IsLogOpen(ls)
  PROVE  /\ \E t \in Tracked(ls) : ComputeStartSeqno(ls) = ls.topics[t]
         /\ \A t \in Tracked(ls) : ComputeStartSeqno(ls) <= ls.topics[t]
         /\ ComputeStartSeqno(ls) \in Nat \ {0}
<1> DEFINE S == {ls.topics[t] : t \in Tracked(ls)}
<1>1. S \in SUBSET Nat /\ S # {}
  BY DEF LogStates, Tracked, IsLogOpen
<1>2. PICK n \in S : \A m \in S : n <= m
  BY <1>1, LeastNatural
<1>3. n \in S /\ \A t \in Tracked(ls) : n <= ls.topics[t]
  BY <1>2
<1>4. ComputeStartSeqno(ls) \in S /\ \A t \in Tracked(ls) : ComputeStartSeqno(ls) <= ls.topics[t]
  BY <1>3 DEF ComputeStartSeqno
<1>5. QED
  BY <1>4 DEF LogStates, Tracked

-----------------------------------------------------------------------------
(***************************************************************************)
(* Choosing readers and merging them.                                      *)
(***************************************************************************)
AllReaders == Readers \cup {Virtual}

\* The reader types of TypeInv, on their own.
ReaderType == reader \in [AllReaders -> LogStates] /\ tailer \in [Readers -> Nat]

\* Real readers are numbered from 1, the virtual reader is none of them.
LEMMA ReaderNumbers ==
  /\ Readers \in SUBSET (Nat \ {0}) /\ Virtual \notin Readers
  /\ NumReaders = 1 => Readers = {1}
BY ReadersAssumption DEF Readers, Virtual

\* A new subscription always finds a reader, and only a reader that need not
\* rewind when there are several (TopicTailer::ReaderForNewSubscription).
LEMMA ReaderForNewSubscriptionFacts ==
  ASSUME ReaderType, NEW t \in Topics, NEW n \in Nat
  PROVE  /\ ReaderForNewSubscription(t, n) \in AllReaders
         /\ NumReaders = 1 => ReaderForNewSubscription(t, n) = 1
<1> DEFINE fit == {r \in Readers : ~ MustRewind(reader[r], t, n)}
           cost(r) == SubscriptionCost(reader[r], t, n)
           costs == {cost(r) : r \in fit}
<1>1. \A r \in fit : cost(r) \in Nat
  BY CostAssumption DEF SubscriptionCost, ReaderType, AllReaders, LogStates
<1>2. CASE NumReaders = 1
  BY <1>2, ReaderNumbers DEF ReaderForNewSubscription, AllReaders
<1>3. CASE NumReaders # 1 /\ fit = {}
  BY <1>3 DEF ReaderForNewSubscription, AllReaders
<1>4. CASE NumReaders # 1 /\ fit # {}
  <2> HIDE DEF cost
  <2>1. costs \in SUBSET Nat /\ costs # {}
    BY <1>1, <1>4
  <2>2. PICK c \in costs : \A d \in costs : c <= d
    BY <2>1, LeastNatural
  <2> DEFINE best == {r \in fit : cost(r) = c}
  <2>3. best \in SUBSET Nat /\ best # {}
    BY <2>2, ReaderNumbers
  <2>4. PICK r \in best : \A x \in best : r <= x
    BY <2>3, LeastNatural
  <2>5. r \in fit /\ \A x \in fit : cost(r) < cost(x) \/ (cost(r) = cost(x) /\ r <= x)
    <3>1. ASSUME NEW x \in fit PROVE cost(r) < cost(x) \/ (cost(r) = cost(x) /\ r <= x)
      <4>1. cost(r) = c /\ c <= cost(x) /\ cost(x) \in Nat /\ c \in Nat
        BY <1>1, <2>2, <2>4
      <4>2. cost(x) = c => r <= x
        BY <2>4
      <4>3. QED
        BY <4>1, <4>2
    <3>2. QED
      BY <3>1, <2>4
  <2>6. (CHOOSE y \in fit : \A x \in fit : cost(y) < cost(x) \/ (cost(y) = cost(x) /\ y <= x)) \in fit
    BY <2>5
  <2> USE DEF cost
  <2>7. QED
    BY <1>4, <2>6 DEF ReaderForNewSubscription, AllReaders
<1>5. QED
  BY <1>2, <1>3, <1>4

\* The reader a merge goes into is one of those at the same position
\* (TopicTailer::AttemptReaderMerges).
MergeDest(src, ls) ==
  CHOOSE d \in MergeTargets(src, ls) : \A x \in MergeTargets(src, ls) : d <= x

\* The reader a merge goes into is another one that the source can be merged into.
LEMMA MergeDestFacts ==
  ASSUME NEW src, NEW ls, MergeTargets(src, ls) # {}
  PROVE  /\ MergeDest(src, ls) \in Readers \ {src}
         /\ CanMergeInto(ls, reader[MergeDest(src, ls)])
<1>1. MergeTargets(src, ls) \in SUBSET Nat
  BY ReaderNumbers DEF MergeTargets
<1>2. PICK d \in MergeTargets(src, ls) : \A x \in MergeTargets(src, ls) : d <= x
  BY <1>1, LeastNatural
<1>3. MergeDest(src, ls) \in MergeTargets(src, ls)
  BY <1>2 DEF MergeDest
<1>4. QED
  BY <1>3 DEF MergeTargets

\* What a merge attempt does to each reader.
LEMMA MergeCases ==
  ASSUME ReaderType, NEW src \in Readers, NEW ls \in LogStates,
         AttemptReaderMerges(src, ls)
  PROVE  \/ /\ MergeTargets(src, ls) = {}
            /\ reader' = [reader EXCEPT ![src] = ls]
            /\ tailer' = [tailer EXCEPT ![src] = ls.last_read + 1]
         \/ \E dest \in Readers \ {src} :
              /\ CanMergeInto(ls, reader[dest])
              /\ reader' = [r \in AllReaders |->
                              IF r = dest THEN MergeInto(ls, reader[dest])
                              ELSE IF r = src THEN reader[Virtual]
                              ELSE IF r = Virtual THEN Closed ELSE reader[r]]
              /\ tailer' = [tailer EXCEPT
                              ![src] = IF IsLogOpen(reader[Virtual])
                                       THEN ComputeStartSeqno(reader[Virtual]) ELSE 0]
<1>1. CASE MergeTargets(src, ls) = {}
  BY <1>1 DEF AttemptReaderMerges
<1>2. CASE MergeTargets(src, ls) # {}
  <2> DEFINE dest == MergeDest(src, ls)
  <2>1. dest \in Readers \ {src} /\ CanMergeInto(ls, reader[dest])
    BY <1>2, MergeDestFacts
  <2>2. /\ reader' = [reader EXCEPT ![dest] = MergeInto(ls, @),
                                    ![src] = reader[Virtual],
                                    ![Virtual] = Closed]
        /\ tailer' = [tailer EXCEPT
                        ![src] = IF IsLogOpen(reader[Virtual])
                                 THEN ComputeStartSeqno(reader[Virtual]) ELSE 0]
    BY <1>2 DEF AttemptReaderMerges, MergeDest
  <2> HIDE DEF dest
  <2>3. reader' = [r \in AllReaders |->
                     IF r = dest THEN MergeInto(ls, reader[dest])
                     ELSE IF r = src THEN reader[Virtual]
                     ELSE IF r = Virtual THEN Closed ELSE reader[r]]
    <3>1. reader \in [AllReaders -> LogStates]
      BY DEF ReaderType
    <3>2. /\ dest \in AllReaders /\ src \in AllReaders /\ Virtual \in AllReaders
          /\ dest # src /\ dest # Virtual /\ src # Virtual
      BY <2>1, ReaderNumbers DEF AllReaders
    <3>3. QED
      BY <3>1, <3>2, <2>2, Zenon
  <2>4. QED
    BY <2>1, <2>2, <2>3
<1>3. QED
  BY <1>1, <1>2

\* A merge attempt keeps readers and tailers well formed and matched, and
\* loses no tracked topic.
LEMMA MergeFacts ==
  ASSUME ReaderType, TailerOpen, NEW src \in Readers, NEW ls \in LogStates, IsLogOpen(ls),
         AttemptReaderMerges(src, ls)
  PROVE  /\ ReaderType' /\ TailerOpen'
         /\ \A t \in Topics :
              (\E r \in AllReaders : t \in Tracked(reader'[r])) <=>
              (t \in Tracked(ls) \/ \E r \in AllReaders \ {src} : t \in Tracked(reader[r]))
<1>1. CASE /\ reader' = [reader EXCEPT ![src] = ls]
           /\ tailer' = [tailer EXCEPT ![src] = ls.last_read + 1]
  <2>1. ls.last_read + 1 \in Nat \ {0}
    BY DEF LogStates
  <2>2. ReaderType'
    BY <1>1, <2>1 DEF ReaderType, AllReaders
  <2>3. TailerOpen'
    BY <1>1, <2>1 DEF TailerOpen, ReaderType, AllReaders
  <2>4. QED
    BY <1>1, <2>2, <2>3 DEF ReaderType, AllReaders
<1>2. ASSUME NEW dest \in Readers \ {src},
             CanMergeInto(ls, reader[dest]),
             reader' = [r \in AllReaders |->
                              IF r = dest THEN MergeInto(ls, reader[dest])
                              ELSE IF r = src THEN reader[Virtual]
                              ELSE IF r = Virtual THEN Closed ELSE reader[r]],
             tailer' = [tailer EXCEPT
                              ![src] = IF IsLogOpen(reader[Virtual])
                                       THEN ComputeStartSeqno(reader[Virtual]) ELSE 0]
      PROVE  /\ ReaderType' /\ TailerOpen'
             /\ \A t \in Topics :
                  (\E r \in AllReaders : t \in Tracked(reader'[r])) <=>
                  (t \in Tracked(ls) \/ \E r \in AllReaders \ {src} : t \in Tracked(reader[r]))
  <2> DEFINE v == reader[Virtual]
             md == MergeInto(ls, reader[dest])
  <2>1. v \in LogStates /\ reader[dest] \in LogStates
    BY DEF ReaderType, AllReaders
  <2>2. md \in LogStates /\ Tracked(md) = Tracked(ls) \cup Tracked(reader[dest])
    BY <2>1, MergeIntoFacts
  <2>3. Closed \in LogStates /\ Tracked(Closed) = {}
    BY DEF Closed, LogStates, Tracked
  <2>4. IsLogOpen(v) => ComputeStartSeqno(v) \in Nat \ {0}
    BY <2>1, ComputeStartSeqnoFacts
  <2> HIDE DEF v, md
  <2>5. /\ reader'[dest] = md /\ reader'[src] = v /\ reader'[Virtual] = Closed
        /\ \A r \in AllReaders \ {dest, src, Virtual} : reader'[r] = reader[r]
    BY <1>2, ReaderNumbers DEF AllReaders, v, md
  <2>6. ReaderType'
    BY <1>2, <2>1, <2>2, <2>3, <2>4 DEF ReaderType, AllReaders, v, md
  <2>7. IsLogOpen(reader[dest]) /\ IsLogOpen(md)
    BY <1>2, <2>2 DEF CanMergeInto, IsLogOpen
  <2>8. ASSUME NEW r \in Readers PROVE tailer'[r] # 0 <=> IsLogOpen(reader'[r])
    <3>1. CASE r = src
      BY <1>2, <2>4, <2>5, <3>1 DEF ReaderType, v
    <3>2. CASE r = dest
      BY <1>2, <2>5, <2>7, <3>2 DEF TailerOpen, ReaderType
    <3>3. CASE r # src /\ r # dest
      BY <1>2, <2>5, <3>3, ReaderNumbers DEF TailerOpen, ReaderType, AllReaders
    <3>4. QED
      BY <3>1, <3>2, <3>3
  <2>9. ASSUME NEW t \in Topics
        PROVE (\E r \in AllReaders : t \in Tracked(reader'[r])) <=>
              (t \in Tracked(ls) \/ \E r \in AllReaders \ {src} : t \in Tracked(reader[r]))
    BY <2>2, <2>3, <2>5, ReaderNumbers DEF AllReaders, v
  <2>10. QED
    BY <2>6, <2>8, <2>9 DEF TailerOpen
<1>3. QED
  BY <1>1, <1>2, MergeCases

-----------------------------------------------------------------------------
(***************************************************************************)
(* The inductive invariant.                                                *)
(***************************************************************************)

\* A subscription is known to its stream as long as it is queued or served,
\* and is in one place at a time.
SubsInv ==
  \A s \in Subs :
    /\ sub[s] # 0 \/ pending[s] # 0 => stream_subs[s] # NoTopic
    /\ s \notin used => stream_subs[s] = NoTopic /\ s \notin waiting
    /\ sub[s] = 0 \/ pending[s] = 0
    /\ s \in waiting => sub[s] = 0 /\ pending[s] = 0

\* TopicsServed, topic by topic.
Subscribed(t) == \E s \in Subs : sub[s] # 0 /\ stream_subs[s] = t
IsTracked(t) == \E r \in AllReaders : t \in Tracked(reader[r])
Served == \A t \in Topics : IsTracked(t) <=> Subscribed(t)

\* A tail request is answered with a position.
FindInv == find.st = "ok" => find.seqno # 0

IndInv ==
  /\ TypeInv
  /\ SubsInv
  /\ Served
  /\ TailerOpen
  /\ TailNotAhead
  /\ FindInv

\* The pointwise form implies the set form.
LEMMA ServedTopics ==
  ASSUME TypeInv, SubsInv, Served
  PROVE  TopicsServed
<1>1. DOMAIN reader = AllReaders
  BY DEF TypeInv, AllReaders
<1>2. ASSUME NEW t \in UNION {Tracked(reader[r]) : r \in DOMAIN reader}
      PROVE  t \in TopicsOf(sub)
  <2>1. t \in Topics /\ IsTracked(t)
    BY <1>1, <1>2 DEF IsTracked, Tracked
  <2>2. Subscribed(t)
    BY <2>1 DEF Served
  <2>3. QED
    BY <2>2 DEF Subscribed, TopicsOf
<1>3. ASSUME NEW t \in TopicsOf(sub)
      PROVE  t \in UNION {Tracked(reader[r]) : r \in DOMAIN reader}
  <2>1. PICK s \in Subs : sub[s] # 0 /\ t = stream_subs[s]
    BY <1>3 DEF TopicsOf
  <2>2. t \in Topics
    BY <2>1 DEF TypeInv, SubsInv
  <2>3. IsTracked(t)
    BY <2>1, <2>2 DEF Served, Subscribed
  <2>4. QED
    BY <1>1, <2>3 DEF IsTracked
<1>4. QED
  BY <1>2, <1>3 DEF TopicsServed

\* Steps that leave readers, tailers and served subscriptions alone.
LEMMA ReadersUnchanged ==
  ASSUME IndInv, UNCHANGED <<tailer, reader, sub>>,
         \A s \in Subs : sub[s] # 0 => stream_subs'[s] = stream_subs[s],
         \A s \in Subs : sub[s] = 0 => stream_subs'[s] = stream_subs[s] \/ sub'[s] = 0
  PROVE  Served' /\ TailerOpen'
<1>1. TailerOpen'
  BY DEF IndInv, TailerOpen
<1>2. ASSUME NEW t \in Topics PROVE IsTracked(t)' <=> Subscribed(t)'
  <2>1. IsTracked(t)' <=> IsTracked(t)
    BY DEF IsTracked
  <2>2. Subscribed(t)' <=> Subscribed(t)
    BY DEF Subscribed
  <2>3. QED
    BY <2>1, <2>2 DEF IndInv, Served
<1>3. QED
  BY <1>1, <1>2 DEF Served

\* The initial state satisfies the invariant (TopicTailer::Initialize).
LEMMA InitIndInv == Init => IndInv
<1> SUFFICES ASSUME Init PROVE IndInv
  OBVIOUS
<1>1. Closed \in LogStates /\ Tracked(Closed) = {}
  BY DEF Closed, LogStates, Tracked
<1>2. TypeInv
  BY <1>1 DEF Init, TypeInv
<1>3. SubsInv
  BY DEF Init, SubsInv
<1>4. \A r \in AllReaders : reader[r] = Closed
  BY DEF Init, AllReaders
<1>5. Served
  BY <1>1, <1>4 DEF Init, Served, IsTracked, Subscribed
<1>6. TailerOpen
  BY <1>1, <1>4 DEF Init, TailerOpen, IsLogOpen, AllReaders
<1>7. TailNotAhead /\ FindInv
  BY DEF Init, TailNotAhead, FindInv
<1>8. QED
  BY <1>2, <1>3, <1>5, <1>6, <1>7 DEF IndInv

\* Storage steps: the log grows and tail requests are answered.
LEMMA StorageStep ==
  ASSUME IndInv, (\E e \in Entries : AppendEntry(e)) \/ AnswerFind \/ FailFind
  PROVE  IndInv'
<1>1. UNCHANGED <<tailer, reader, sub, stream_subs, pending, used, waiting, tail>>
  BY DEF AppendEntry, AnswerFind, FailFind, subVars, findVars
<1>2. Served' /\ TailerOpen'
  BY <1>1, ReadersUnchanged
<1>3. SubsInv'
  BY <1>1 DEF IndInv, SubsInv
<1>4. CASE \E e \in Entries : AppendEntry(e)
  <2>1. PICK e \in Topics \cup {Gap} : log' = Append(log, e)
    BY <1>4 DEF AppendEntry, Entries
  <2>2. /\ log' \in Seq(Topics \cup {Gap}) /\ Len(log') = Len(log) + 1
        /\ Len(log) \in Nat /\ UNCHANGED find /\ out' = {}
    BY <1>4, <2>1 DEF IndInv, TypeInv, AppendEntry, findVars
  <2>3. TypeInv'
    BY <1>1, <2>2 DEF IndInv, TypeInv
  <2>4. TailNotAhead' /\ FindInv'
    BY <1>1, <2>2 DEF IndInv, TypeInv, TailNotAhead, FindInv
  <2>5. QED
    BY <1>2, <1>3, <2>3, <2>4 DEF IndInv
<1>5. CASE AnswerFind
  <2>1. Len(log) \in Nat
    BY DEF IndInv, TypeInv
  <2>2. TypeInv' /\ TailNotAhead' /\ FindInv'
    BY <1>1, <1>5, <2>1 DEF IndInv, TypeInv, TailNotAhead, FindInv, AnswerFind
  <2>3. QED
    BY <1>2, <1>3, <2>2 DEF IndInv
<1>6. CASE FailFind
  <2>1. Len(log) \in Nat
    BY DEF IndInv, TypeInv
  <2>2. TypeInv' /\ TailNotAhead' /\ FindInv'
    BY <1>1, <1>6, <2>1 DEF IndInv, TypeInv, TailNotAhead, FindInv, FailFind
  <2>3. QED
    BY <1>2, <1>3, <2>2 DEF IndInv
<1>7. QED
  BY <1>4, <1>5, <1>6

\* New subscriptions are only queued (TopicTailer::AddSubscriber).
LEMMA SubscribeStep ==
  ASSUME IndInv, NEW s \in Subs, NEW t \in Topics, Subscribe(s, t)
  PROVE  IndInv'
<1>1. /\ s \notin used /\ used' = used \cup {s}
      /\ stream_subs' = [stream_subs EXCEPT ![s] = t]
      /\ UNCHANGED <<log, tailer, reader, sub, tail>>
  BY DEF Subscribe, AddSubscriber, AddTailSubscriber, AddSubscriberAtUnknownTail
<1>2. stream_subs[s] = NoTopic /\ sub[s] = 0 /\ pending[s] = 0 /\ s \notin waiting
  BY <1>1 DEF IndInv, SubsInv
<1>3. Served' /\ TailerOpen'
  <2>1. stream_subs \in [Subs -> Topics \cup {NoTopic}]
    BY DEF IndInv, TypeInv
  <2>2. QED
    BY <1>1, <1>2, <2>1, ReadersUnchanged
<1>4. t # NoTopic
  BY NamesAssumption
<1>5. CASE \E start \in Starts \ {0} : AddSubscriber(s, t, start)
  <2>1. PICK start \in Starts \ {0} : AddSubscriber(s, t, start)
    BY <1>5
  <2>2. start \in Nat /\ pending' = [pending EXCEPT ![s] = start] /\ UNCHANGED findVars /\ out' = {}
    BY <2>1, BoundAssumption DEF AddSubscriber
  <2>3. TypeInv'
    BY <1>1, <2>2 DEF IndInv, TypeInv, findVars
  <2>4. SubsInv'
    BY <1>1, <1>2, <1>4, <2>2 DEF IndInv, TypeInv, SubsInv, findVars
  <2>5. TailNotAhead' /\ FindInv'
    BY <1>1, <2>2 DEF IndInv, TailNotAhead, FindInv, findVars
  <2>6. QED
    BY <1>3, <2>3, <2>4, <2>5 DEF IndInv
<1>6. CASE AddTailSubscriber(s, t)
  <2>1. /\ tail \in Nat \ {0} /\ pending' = [pending EXCEPT ![s] = tail]
        /\ UNCHANGED findVars /\ out' = {TailGap(s, tail)}
    BY <1>6 DEF AddTailSubscriber, IndInv, TypeInv
  <2>2. out' \in SUBSET Messages
    BY <2>1 DEF TailGap, Messages
  <2>3. TypeInv'
    BY <1>1, <2>1, <2>2 DEF IndInv, TypeInv, findVars
  <2>4. SubsInv'
    BY <1>1, <1>2, <1>4, <2>1 DEF IndInv, TypeInv, SubsInv, findVars
  <2>5. TailNotAhead' /\ FindInv'
    BY <1>1, <2>1 DEF IndInv, TailNotAhead, FindInv, findVars
  <2>6. QED
    BY <1>3, <2>3, <2>4, <2>5 DEF IndInv
<1>7. CASE AddSubscriberAtUnknownTail(s, t)
  <2>1. /\ UNCHANGED pending /\ out' = {} /\ waiting' = waiting \cup {s}
        /\ \/ UNCHANGED find
           \/ \E st \in {"sent", "idle"} : find' = [st |-> st, seqno |-> 0]
    BY <1>7 DEF AddSubscriberAtUnknownTail, SendFindLatestSeqnoRequest
  <2>2. TypeInv'
    BY <1>1, <2>1 DEF IndInv, TypeInv
  <2>3. SubsInv'
    BY <1>1, <1>2, <1>4, <2>1 DEF IndInv, TypeInv, SubsInv
  <2>4. TailNotAhead' /\ FindInv'
    BY <1>1, <2>1 DEF IndInv, TypeInv, TailNotAhead, FindInv
  <2>5. QED
    BY <1>3, <2>2, <2>3, <2>4 DEF IndInv
<1>8. QED
  BY <1>5, <1>6, <1>7 DEF Subscribe

\* Answers to tail requests queue the subscriptions that still exist
\* (TopicTailer::ProcessFindLatestSeqnoResponse).
LEMMA FindStep ==
  ASSUME IndInv, ProcessFindLatestSeqnoResponse \/ RetryFindLatestSeqno
  PROVE  IndInv'
<1>1. UNCHANGED <<log, tailer, reader, sub, stream_subs, used>>
  BY DEF ProcessFindLatestSeqnoResponse, RetryFindLatestSeqno, subVars
<1>2. Served' /\ TailerOpen'
  BY <1>1, ReadersUnchanged
<1>3. CASE RetryFindLatestSeqno
  <2>1. /\ UNCHANGED <<pending, waiting, tail>> /\ out' = {}
        /\ \E st \in {"sent", "idle"} : find' = [st |-> st, seqno |-> 0]
    BY <1>3 DEF RetryFindLatestSeqno, SendFindLatestSeqnoRequest, subVars
  <2>2. TypeInv'
    BY <1>1, <2>1 DEF IndInv, TypeInv
  <2>3. SubsInv'
    BY <1>1, <2>1 DEF IndInv, SubsInv
  <2>4. TailNotAhead' /\ FindInv'
    BY <1>1, <2>1 DEF IndInv, TypeInv, TailNotAhead, FindInv
  <2>5. QED
    BY <1>2, <2>2, <2>3, <2>4 DEF IndInv
<1>4. CASE ProcessFindLatestSeqnoResponse
  <2> DEFINE live == {s \in waiting : stream_subs[s] # NoTopic}
  <2>1. /\ find.seqno \in Nat \ {0} /\ find.seqno <= Len(log) + 1 /\ live \subseteq waiting
        /\ pending' = [s \in Subs |-> IF s \in live THEN find.seqno ELSE pending[s]]
        /\ out' = {TailGap(s, find.seqno) : s \in live}
        /\ waiting' = {} /\ find' = [st |-> "idle", seqno |-> 0]
        /\ tail' = IF tail < find.seqno THEN find.seqno ELSE tail
    BY <1>4 DEF ProcessFindLatestSeqnoResponse, IndInv, TypeInv, FindInv, TailNotAhead
  <2>2. out' \in SUBSET Messages
    <3>1. live \subseteq Subs
      BY DEF IndInv, TypeInv
    <3>2. find.seqno - 1 \in Nat
      <4>1. find.seqno \in Nat \ {0}
        BY <2>1
      <4>2. QED
        BY <4>1
    <3>3. \A s \in Subs : TailGap(s, find.seqno) \in Messages
      BY <3>2 DEF TailGap, Messages
    <3>4. QED
      BY <2>1, <3>1, <3>3, Zenon
  <2>3. TypeInv'
    BY <1>1, <2>1, <2>2 DEF IndInv, TypeInv
  <2>4. SubsInv'
    BY <1>1, <2>1 DEF IndInv, SubsInv
  <2>5. TailNotAhead' /\ FindInv'
    BY <1>1, <2>1 DEF IndInv, TypeInv, TailNotAhead, FindInv
  <2>6. QED
    BY <1>2, <2>3, <2>4, <2>5 DEF IndInv
<1>5. QED
  BY <1>3, <1>4

\* A queued subscription is given to a reader
\* (TopicTailer::ProcessPendingSubscription).
LEMMA PendingStep ==
  ASSUME IndInv, NEW s \in Subs, ProcessPendingSubscription(s)
  PROVE  IndInv'
<1> DEFINE t == stream_subs[s]
           n == pending[s]
           r == ReaderForNewSubscription(t, n)
           st == StartReading(reader[r], t, n)
<1>1. n \in Nat \ {0} /\ t \in Topics /\ sub[s] = 0 /\ s \in used
  BY DEF ProcessPendingSubscription, IndInv, TypeInv, SubsInv
<1>2. ReaderType
  BY DEF IndInv, TypeInv, ReaderType, AllReaders
<1>3. r \in AllReaders
  BY <1>1, <1>2, ReaderForNewSubscriptionFacts
<1>4. reader[r] \in LogStates
  BY <1>2, <1>3 DEF ReaderType
<1> HIDE DEF r, n, t
<1>5. /\ st.state \in LogStates /\ Tracked(st.state) = Tracked(reader[r]) \cup {t}
      /\ ~ IsLogOpen(reader[r]) => st.start
  <2>1. st.state \in LogStates
    BY <1>1, <1>4, StartReadingFacts
  <2>2. Tracked(st.state) = Tracked(reader[r]) \cup {t}
    BY <1>1, <1>4, StartReadingFacts
  <2>3. ~ IsLogOpen(reader[r]) => st.start
    BY <1>1, <1>4, StartReadingFacts
  <2>4. QED
    BY <2>1, <2>2, <2>3
<1>6. /\ reader' = [reader EXCEPT ![r] = st.state]
      /\ tailer' = IF r # Virtual /\ st.start THEN [tailer EXCEPT ![r] = n] ELSE tailer
      /\ sub' = [sub EXCEPT ![s] = n] /\ pending' = [pending EXCEPT ![s] = 0]
      /\ out' = {} /\ UNCHANGED <<log, stream_subs, used, waiting, find, tail>>
  BY DEF ProcessPendingSubscription, findVars, r, n, t
<1> HIDE DEF st
<1>7. ReaderType'
  BY <1>1, <1>2, <1>3, <1>5, <1>6 DEF ReaderType, AllReaders
<1>8. TypeInv'
  BY <1>1, <1>6, <1>7 DEF IndInv, TypeInv, ReaderType, AllReaders
<1>9. SubsInv'
  BY <1>1, <1>6 DEF IndInv, TypeInv, SubsInv, t, n
<1>10. Served'
  <2> SUFFICES ASSUME NEW u \in Topics PROVE IsTracked(u)' <=> Subscribed(u)'
    BY DEF Served
  <2>1. IsTracked(u)' <=> (IsTracked(u) \/ u = t)
    BY <1>2, <1>3, <1>5, <1>6 DEF IsTracked, ReaderType
  <2>2. Subscribed(u)' <=> (Subscribed(u) \/ u = t)
    BY <1>1, <1>6 DEF Subscribed, IndInv, TypeInv, t
  <2>3. QED
    BY <2>1, <2>2 DEF IndInv, Served
<1>11. TailerOpen'
  <2> SUFFICES ASSUME NEW x \in Readers PROVE tailer'[x] # 0 <=> IsLogOpen(reader'[x])
    BY DEF TailerOpen
  <2>1. CASE x = r
    <3>1. IsLogOpen(reader'[x])
      BY <1>2, <1>3, <1>5, <1>6, <2>1 DEF IsLogOpen, ReaderType
    <3>2. x # Virtual
      BY ReaderNumbers
    <3>3. tailer'[x] # 0
      BY <1>1, <1>2, <1>5, <1>6, <2>1, <3>2 DEF ReaderType, IndInv, TailerOpen
    <3>4. QED
      BY <3>1, <3>3
  <2>2. CASE x # r
    BY <1>2, <1>3, <1>6, <2>2 DEF ReaderType, AllReaders, IndInv, TailerOpen
  <2>3. QED
    BY <2>1, <2>2
<1>12. TailNotAhead' /\ FindInv'
  BY <1>6 DEF IndInv, TailNotAhead, FindInv
<1>13. QED
  BY <1>8, <1>9, <1>10, <1>11, <1>12 DEF IndInv

\* Unsubscribing takes the topics nobody needs from every reader
\* (TopicTailer::RemoveSubscriberInternal).
LEMMA RemoveStep ==
  ASSUME IndInv, NEW S \in SUBSET Subs, \A s \in S : stream_subs[s] # NoTopic,
         RemoveSubscriberInternal(S)
  PROVE  IndInv'
<1> DEFINE left == [s \in Subs |-> IF s \in S THEN 0 ELSE sub[s]]
           gone == {stream_subs[s] : s \in S} \ TopicsOf(left)
<1>1. /\ sub' = left
      /\ stream_subs' = [s \in Subs |-> IF s \in S THEN NoTopic ELSE stream_subs[s]]
      /\ pending' = [s \in Subs |-> IF s \in S THEN 0 ELSE pending[s]]
      /\ reader' = [r \in DOMAIN reader |-> StopReading(reader[r], gone)]
      /\ tailer' = [r \in Readers |-> IF IsLogOpen(reader'[r]) THEN tailer[r] ELSE 0]
      /\ tail' \in {0, tail} /\ out' = {}
      /\ UNCHANGED <<log, used, waiting, find>>
  BY DEF RemoveSubscriberInternal, findVars
<1>2. \A u \in Topics : u \in gone <=>
        /\ \E s \in S : stream_subs[s] = u
        /\ ~ \E s \in Subs \ S : sub[s] # 0 /\ stream_subs[s] = u
  BY DEF TopicsOf
<1> HIDE DEF gone
<1>3. DOMAIN reader = AllReaders /\ \A r \in AllReaders : reader[r] \in LogStates
  BY DEF IndInv, TypeInv, AllReaders
<1>4. \A r \in AllReaders : /\ reader'[r] = StopReading(reader[r], gone)
                            /\ reader'[r] \in LogStates
                            /\ Tracked(reader'[r]) = Tracked(reader[r]) \ gone
  BY <1>1, <1>3, StopReadingFacts
<1>5. TypeInv'
  <2>1. reader' \in [Readers \cup {Virtual} -> LogStates]
    BY <1>1, <1>3, <1>4 DEF AllReaders
  <2>2. tailer' \in [Readers -> Nat]
    BY <1>1 DEF IndInv, TypeInv
  <2>3. QED
    BY <1>1, <2>1, <2>2 DEF IndInv, TypeInv
<1>6. SubsInv'
  BY <1>1 DEF IndInv, TypeInv, SubsInv
<1>7. Served'
  <2> SUFFICES ASSUME NEW u \in Topics PROVE IsTracked(u)' <=> Subscribed(u)'
    BY DEF Served
  <2>1. IsTracked(u)' <=> (IsTracked(u) /\ u \notin gone)
    BY <1>4 DEF IsTracked
  <2>2. Subscribed(u)' <=> \E s \in Subs \ S : sub[s] # 0 /\ stream_subs[s] = u
    BY <1>1 DEF Subscribed
  <2>3. Subscribed(u) <=> IsTracked(u)
    BY DEF IndInv, Served
  <2>4. QED
    BY <1>2, <2>1, <2>2, <2>3 DEF Subscribed
<1>8. TailerOpen'
  <2> SUFFICES ASSUME NEW r \in Readers PROVE tailer'[r] # 0 <=> IsLogOpen(reader'[r])
    BY DEF TailerOpen
  <2>1. IsLogOpen(reader'[r]) => tailer[r] # 0
    BY <1>4 DEF IndInv, TailerOpen, IsLogOpen, AllReaders
  <2>2. QED
    BY <1>1, <2>1
<1>9. TailNotAhead' /\ FindInv'
  BY <1>1 DEF IndInv, TypeInv, TailNotAhead, FindInv
<1>10. QED
  BY <1>5, <1>6, <1>7, <1>8, <1>9 DEF IndInv

\* A step that hands an entry to reader r, moves subscriptions to a position
\* after it and then attempts a merge.
LEMMA DeliverStep ==
  ASSUME IndInv, NEW r \in Readers, NEW ls \in LogStates, NEW n \in Nat, NEW S \in SUBSET Subs,
         Tracked(ls) = Tracked(reader[r]), IsLogOpen(ls), n <= Len(log),
         \A s \in S : sub[s] # 0,
         sub' = [s \in Subs |-> IF s \in S THEN n + 1 ELSE sub[s]],
         out' \in SUBSET Messages, tail' \in {tail, n + 1},
         AttemptReaderMerges(r, ls),
         UNCHANGED <<log, stream_subs, pending, used, waiting, find>>
  PROVE  IndInv'
<1>1. ReaderType
  BY DEF IndInv, TypeInv, ReaderType, AllReaders
<1>2. /\ ReaderType' /\ TailerOpen'
      /\ \A t \in Topics :
           (\E x \in AllReaders : t \in Tracked(reader'[x])) <=>
           (t \in Tracked(ls) \/ \E x \in AllReaders \ {r} : t \in Tracked(reader[x]))
  <2>1. TailerOpen
    BY DEF IndInv
  <2>2. QED
    BY <1>1, <2>1, MergeFacts
<1>3. Len(log) \in Nat
  BY DEF IndInv, TypeInv
<1>4. TypeInv'
  BY <1>2 DEF IndInv, TypeInv, ReaderType, AllReaders
<1>5. SubsInv'
  BY DEF IndInv, TypeInv, SubsInv
<1>6. Served'
  <2> SUFFICES ASSUME NEW u \in Topics PROVE IsTracked(u)' <=> Subscribed(u)'
    BY DEF Served
  <2>1. IsTracked(u)' <=> IsTracked(u)
    BY <1>2 DEF IsTracked, AllReaders
  <2>2. Subscribed(u)' <=> Subscribed(u)
    BY DEF Subscribed, IndInv, TypeInv
  <2>3. QED
    BY <2>1, <2>2 DEF IndInv, Served
<1>7. TailNotAhead' /\ FindInv'
  BY <1>3 DEF IndInv, TypeInv, TailNotAhead, FindInv
<1>8. QED
  BY <1>2, <1>4, <1>5, <1>6, <1>7 DEF IndInv

\* Records (TopicTailer::ReceiveLogRecord).
LEMMA RecordStep ==
  ASSUME IndInv, NEW r \in Readers, ReceiveLogRecord(r)
  PROVE  IndInv'
<1> DEFINE n == tailer[r]
           t == log[n]
           prev == reader[r].topics[t]
           ls == ProcessRecord(reader[r], n, t)
           B == IF prev # 0 THEN Bumped(ls, n) ELSE {}
           got == IF prev # 0 THEN VisitSubscribers(t, prev, n) ELSE {}
           bumped == UNION {VisitSubscribers(b, ls.topics[b], n) : b \in B}
           lb == IF prev # 0 THEN BumpLaggingSubscriptions(ls, n) ELSE ls
<1>1. /\ n # 0 /\ n <= Len(log) /\ t # Gap
      /\ sub' = [s \in Subs |-> IF s \in got \cup bumped THEN n + 1 ELSE sub[s]]
      /\ out' = {[sub |-> s, kind |-> "data", prev |-> prev, seqno |-> n] : s \in got}
           \cup {[sub |-> s, kind |-> "gap", prev |-> ls.topics[stream_subs[s]],
                  seqno |-> n] : s \in bumped}
      /\ tail' = TailAfter(n)
      /\ AttemptReaderMerges(r, lb)
      /\ UNCHANGED <<log, stream_subs, pending, used, waiting, find>>
  BY DEF ReceiveLogRecord, findVars
<1>2. n \in Nat /\ Len(log) \in Nat /\ log \in Seq(Topics \cup {Gap})
  BY DEF IndInv, TypeInv
<1>3. t \in Topics
  <2>1. n # 0 /\ n <= Len(log) /\ t # Gap
    BY DEF ReceiveLogRecord
  <2>2. n \in 1 .. Len(log)
    BY <1>2, <2>1
  <2>3. QED
    BY <1>2, <2>1, <2>2
<1>4. reader[r] \in LogStates /\ IsLogOpen(reader[r])
  BY <1>1 DEF IndInv, TypeInv, TailerOpen
<1> HIDE DEF n, t
<1>5. ls \in LogStates /\ Tracked(ls) = Tracked(reader[r])
  <2>1. ls \in LogStates
    BY <1>2, <1>3, <1>4, ProcessRecordFacts
  <2>2. Tracked(ls) = Tracked(reader[r])
    BY <1>2, <1>3, <1>4 DEF ProcessRecord, Tracked, LogStates
  <2>3. QED
    BY <2>1, <2>2
<1> HIDE DEF ls
<1>6. lb \in LogStates /\ Tracked(lb) = Tracked(ls) /\ Bumped(ls, n) \subseteq Tracked(ls)
  BY <1>2, <1>5, BumpFacts
<1>7. prev \in Nat /\ B \subseteq Topics
  BY <1>3, <1>4, <1>6 DEF LogStates, Tracked
<1> HIDE DEF lb, B, prev
<1>8. /\ got \cup bumped \in SUBSET Subs
      /\ \A s \in got \cup bumped : sub[s] # 0
      /\ \A s \in bumped : stream_subs[s] \in B
  BY DEF VisitSubscribers
<1>9. \A s \in bumped : ls.topics[stream_subs[s]] \in Nat
  BY <1>5, <1>7, <1>8 DEF LogStates
<1> HIDE DEF got, bumped
<1>10. out' \in SUBSET Messages
  <2>1. \A s \in Subs : [sub |-> s, kind |-> "data", prev |-> prev, seqno |-> n] \in Messages
    BY <1>2, <1>7 DEF Messages
  <2>2. \A s \in Subs, p \in Nat : [sub |-> s, kind |-> "gap", prev |-> p, seqno |-> n] \in Messages
    BY <1>2 DEF Messages
  <2>3. got \subseteq Subs /\ \A s \in bumped : s \in Subs
    BY <1>8
  <2>4. QED
    BY <1>1, <1>9, <2>1, <2>2, <2>3, Zenon
<1>11. tail' \in {tail, n + 1}
  BY <1>1 DEF TailAfter
<1>12. IsLogOpen(lb) /\ Tracked(lb) = Tracked(reader[r])
  BY <1>4, <1>5, <1>6 DEF IsLogOpen
<1>13. QED
  BY <1>1, <1>2, <1>6, <1>8, <1>10, <1>11, <1>12, DeliverStep

\* Gaps (TopicTailer::SendGapRecord).
LEMMA GapStep ==
  ASSUME IndInv, NEW r \in Readers, NEW to \in tailer[r] .. Len(log), NEW order \in TopicOrders,
         SendGapRecord(r, to, order)
  PROVE  IndInv'
<1>0. \A l \in LogStates, n \in Nat, S \in SUBSET Topics, o \in SUBSET (Topics \X Topics) :
        ProcessGaps(l, n, S, o) \in LogStates /\ Tracked(ProcessGaps(l, n, S, o)) = Tracked(l)
  <2> TAKE l \in LogStates, n \in Nat, S \in SUBSET Topics, o \in SUBSET (Topics \X Topics)
  <2>1. ProcessGaps(l, n, S, o) \in LogStates
    BY ProcessGapsFacts
  <2>2. Tracked(ProcessGaps(l, n, S, o)) = Tracked(l)
    BY DEF ProcessGaps, Tracked, LogStates
  <2>3. QED
    BY <2>1, <2>2
<1> DEFINE T == TopicsOf(sub)
           got == UNION {VisitSubscribers(t, reader[r].topics[t], to) : t \in T}
           ls == ProcessGaps(reader[r], to, T, order)
<1>1. /\ tailer[r] # 0
      /\ sub' = [s \in Subs |-> IF s \in got THEN to + 1 ELSE sub[s]]
      /\ out' = {[sub |-> s, kind |-> "gap", prev |-> reader[r].topics[stream_subs[s]],
                  seqno |-> to] : s \in got}
      /\ tail' = IF T = {} THEN tail ELSE TailAfter(to)
      /\ AttemptReaderMerges(r, ls)
      /\ UNCHANGED <<log, stream_subs, pending, used, waiting, find>>
  BY DEF SendGapRecord, findVars
<1>2. to \in Nat /\ to <= Len(log) /\ order \in SUBSET (Topics \X Topics)
  BY DEF IndInv, TypeInv, TopicOrders
<1>3. reader[r] \in LogStates /\ IsLogOpen(reader[r])
  BY <1>1 DEF IndInv, TypeInv, TailerOpen
<1>4. ls \in LogStates /\ Tracked(ls) = Tracked(reader[r])
  <2>1. T \in SUBSET Topics
    BY DEF IndInv, SubsInv, TypeInv, TopicsOf
  <2> HIDE DEF T
  <2>2. to \in Nat /\ order \in SUBSET (Topics \X Topics) /\ reader[r] \in LogStates
    BY <1>2, <1>3
  <2>3. QED
    BY <1>0, <2>1, <2>2, Zenon
<1> HIDE DEF T
<1>5. got \in SUBSET Subs /\ \A s \in got : sub[s] # 0 /\ stream_subs[s] \in Topics
  <2>2. \A t \in T : \A s \in VisitSubscribers(t, reader[r].topics[t], to) : s \in Subs /\ sub[s] # 0
    BY DEF VisitSubscribers
  <2>3. got \subseteq Subs /\ \A s \in got : sub[s] # 0
    BY <2>2, Zenon
  <2>4. \A s \in Subs : sub[s] # 0 => stream_subs[s] \in Topics
    BY DEF IndInv, SubsInv, TypeInv
  <2>5. QED
    BY <2>3, <2>4, Zenon
<1>6. \A s \in got : reader[r].topics[stream_subs[s]] \in Nat
  BY <1>3, <1>5 DEF LogStates
<1> HIDE DEF got, ls
<1>7. out' \in SUBSET Messages
  <2>1. \A s \in got : [sub |-> s, kind |-> "gap", prev |-> reader[r].topics[stream_subs[s]],
                         seqno |-> to] \in Messages
    BY <1>2, <1>5, <1>6 DEF Messages
  <2>2. QED
    BY <1>1, <2>1, Zenon
<1>8. tail' \in {tail, to + 1}
  BY <1>1 DEF TailAfter
<1>9. IsLogOpen(ls)
  BY <1>3, <1>4 DEF IsLogOpen
<1>10. QED
  BY <1>1, <1>2, <1>4, <1>5, <1>7, <1>8, <1>9, DeliverStep

\* The invariant is inductive.
LEMMA NextIndInv == IndInv /\ [Next]_vars => IndInv'
<1> SUFFICES ASSUME IndInv, [Next]_vars PROVE IndInv'
  OBVIOUS
<1>1. CASE (\E e \in Entries : AppendEntry(e)) \/ AnswerFind \/ FailFind
  BY <1>1, StorageStep
<1>2. CASE \E s \in Subs, t \in Topics : Subscribe(s, t)
  BY <1>2, SubscribeStep
<1>3. ASSUME NEW s \in Subs, RemoveSubscriber(s) PROVE IndInv'
  BY <1>3, RemoveStep DEF RemoveSubscriber
<1>4. ASSUME NEW s \in Subs, RemoveStream(StreamOf[s]) PROVE IndInv'
  BY <1>4, RemoveStep DEF RemoveStream
<1>5. CASE \E s \in Subs : ProcessPendingSubscription(s)
  BY <1>5, PendingStep
<1>6. CASE ProcessFindLatestSeqnoResponse \/ RetryFindLatestSeqno
  BY <1>6, FindStep
<1>7. CASE \E r \in Readers : Deliver(r)
  BY <1>7, RecordStep, GapStep DEF Deliver
<1>8. CASE UNCHANGED vars
  BY <1>8 DEF vars, subVars, findVars, IndInv, TypeInv, SubsInv, Served, IsTracked, Subscribed,
              TailerOpen, TailNotAhead, FindInv
<1>9. QED
  BY <1>1, <1>2, <1>3, <1>4, <1>5, <1>6, <1>7, <1>8 DEF Next

\* The type invariant of the room's state holds however many readers, topics
\* and subscriptions there are (TopicTailer's state, topic_tailer.h:361-419).
THEOREM TypeCorrect == Spec => []TypeInv
<1>1. IndInv => TypeInv
  BY DEF IndInv
<1>2. QED
  BY <1>1, InitIndInv, NextIndInv, PTL DEF Spec

\* Readers track exactly the subscribed topics and the LogTailer reads for
\* exactly the readers that track some, through merges, steals, rewinds,
\* gaps and unsubscriptions (AttemptReaderMerges, RemoveSubscriberInternal).
THEOREM ReadersMatchSubscriptions == Spec => [](TopicsServed /\ TailerOpen)
<1>1. IndInv => TopicsServed /\ TailerOpen
  BY ServedTopics DEF IndInv
<1>2. QED
  BY <1>1, InitIndInv, NextIndInv, PTL DEF Spec

\* The cached tail never passes the end of the log, so a subscription that
\* starts at the tail skips no record (tail_seqno_cached_).
THEOREM TailEstimateSafe == Spec => []TailNotAhead
<1>1. IndInv => TailNotAhead
  BY DEF IndInv
<1>2. QED
  BY <1>1, InitIndInv, NextIndInv, PTL DEF Spec

\* The invariant the runs check of a room (topic_tailer.cc): the three results together.
THEOREM TailerAlwaysSafe == Spec => []TailerSafe
<1>1. IndInv => TailerSafe
  BY ServedTopics DEF IndInv, TailerSafe
<1>2. QED
  BY <1>1, InitIndInv, NextIndInv, PTL DEF Spec
=============================================================================
