----------------------------- MODULE LogTailer -----------------------------
(***************************************************************************)
(* The log tailer of a control tower (controltower/log_tailer.cc) over the *)
(* LogDevice storage (logdevice/storage.cc).  Storage threads push records *)
(* and gaps of open logs into one queue per thread; the room's thread pops *)
(* them and hands the ones that are next in their log to the topic tailer. *)
(* A log that is closed, reopened, moved or restarted by the timer leaves  *)
(* stale entries in the queues, and after a reopening its entries may come *)
(* from another storage thread.                                            *)
(***************************************************************************)
EXTENDS Integers, Sequences, TLAPS

CONSTANTS Logs,       \* logs read by one reader of the tailer
          Threads,    \* storage worker threads
          Content,    \* what every log holds at each sequence number
          QueueSize,  \* storage_to_room_queue_size
          MaxStarts,  \* bound: calls of StartReading by the topic tailer
          MaxTrims,   \* bound: trims of every log
          Fails       \* whether the storage may fail to open and close logs

Closed == 0
MaxSeq == Len(Content)
Seqnos == 1..MaxSeq
Kinds == {"record", "corrupt", "hole", "dataloss"}

ASSUME ThreadsAssumption == Threads # {}
ASSUME ContentAssumption == Content \in Seq(Kinds)
ASSUME BoundsAssumption == QueueSize \in Nat /\ MaxStarts \in Nat /\ MaxTrims \in Nat

VARIABLES tailOf,   \* last sequence number appended to every log
          trim,     \* trim point of every log
          trims,    \* trims so far
          up,       \* the storage opens and closes logs
          pos,      \* storage reader: next sequence number to read, or Closed
          thread,   \* storage thread that serves the log
          queue,    \* storage_to_room_queues_, by storage thread
          next,     \* log_state[log].next_seqno, or Closed
          restart,  \* restart event of the log: "none", "waiting", "due"
          ticking,  \* the room's thread is inside Tick
          starts,   \* calls of StartReading so far
          begun,    \* ghost: where the topic tailer asked to start
          given     \* ghost: what on_record and on_gap were told since then

logdevice == <<tailOf, trim, trims, up>>
storage == <<pos, thread, queue>>
logVars == <<logdevice, storage, next, restart, ticking, starts, begun, given>>

LogInit ==
  /\ tailOf = [l \in Logs |-> 0]
  /\ trim = [l \in Logs |-> 0]
  /\ trims = 0
  /\ up = TRUE
  /\ pos = [l \in Logs |-> Closed]
  /\ thread = [l \in Logs |-> CHOOSE t \in Threads : TRUE]
  /\ queue = [t \in Threads |-> <<>>]
  /\ next = [l \in Logs |-> Closed]
  /\ restart = [l \in Logs |-> "none"]
  /\ ticking = FALSE
  /\ starts = 0
  /\ begun = [l \in Logs |-> Closed]
  /\ given = [l \in Logs |-> {}]

(***************************************************************************)
(* LogDevice: logs grow and are trimmed, readers read them in order.       *)
(***************************************************************************)
Append1(l) ==
  /\ tailOf[l] < MaxSeq
  /\ tailOf' = [tailOf EXCEPT ![l] = @ + 1]
  /\ UNCHANGED <<trim, trims, up, storage, next, restart, ticking, starts, begun, given>>

Trim(l) ==
  /\ trims < MaxTrims
  /\ trims' = trims + 1
  /\ \E s \in trim[l] + 1 .. tailOf[l] : trim' = [trim EXCEPT ![l] = s]
  /\ UNCHANGED <<tailOf, up, storage, next, restart, ticking, starts, begun, given>>

StorageFails ==
  /\ Fails
  /\ up' = ~up
  /\ UNCHANGED <<tailOf, trim, trims, storage, next, restart, ticking, starts, begun, given>>

\* The gap type LogTailer is told for what the log lacks at a sequence number.
GapType(kind) == IF kind = "hole" THEN "kBenign" ELSE "kDataLoss"

\* Where a gap from s may end: LogDevice reports a run of one kind whole or in pieces.
GapEnds(l, s) == {e \in s..tailOf[l] : \A i \in s..e : Content[i] = Content[s]}

\* What the reader of a log at s may call back with: a record, or a gap.  A record
\* that does not deserialize is forwarded as a gap of data loss.
Entries(l, s) ==
  IF s <= trim[l] THEN {[log |-> l, type |-> "kRetention", from |-> s, to |-> trim[l]]}
  ELSE IF Content[s] = "record" THEN {[log |-> l, type |-> "record", from |-> s, to |-> s]}
  ELSE IF Content[s] = "corrupt" THEN {[log |-> l, type |-> GapType("corrupt"), from |-> s, to |-> s]}
  ELSE {[log |-> l, type |-> GapType(Content[s]), from |-> s, to |-> e] : e \in GapEnds(l, s)}

\* TryWrite succeeds.
HasRoom(t) == Len(queue[t]) < QueueSize

\* record_cb and gap_cb: a full queue makes the storage retry the same entry.
Forward(l) ==
  LET t == thread[l]
  IN  /\ pos[l] # Closed
      /\ pos[l] <= tailOf[l]
      /\ HasRoom(t)
      /\ \E e \in Entries(l, pos[l]) :
           /\ queue' = [queue EXCEPT ![t] = Append(@, e)]
           /\ pos' = [pos EXCEPT ![l] = e.to + 1]
      /\ UNCHANGED <<logdevice, thread, next, restart, ticking, starts, begun, given>>

\* AsyncLogDeviceReader::Open: LogDevice reseeks an open log, on any thread.
Open(l, s) ==
  /\ up
  /\ pos' = [pos EXCEPT ![l] = s]
  /\ \E t \in Threads : thread' = [thread EXCEPT ![l] = t]
  /\ UNCHANGED queue

(***************************************************************************)
(* The room's thread.                                                      *)
(***************************************************************************)
\* Mutant: an entry of an earlier opening of the log is not recognised.
AcceptsOpen(e) == next[e.log] # Closed

\* RecordCallback and GapCallback: only the entry that is next in an open log.
Accepts(e) == next[e.log] # Closed /\ next[e.log] = e.from

\* Mutant: off by one, the entry is expected again.
ExpectedAfterSame(e) == e.to

ExpectedAfter(e) == e.to + 1

Receive(t) ==
  LET e == Head(queue[t])
  IN  /\ ~ticking
      /\ queue[t] # <<>>
      /\ queue' = [queue EXCEPT ![t] = Tail(@)]
      /\ IF Accepts(e)
           THEN /\ next' = [next EXCEPT ![e.log] = ExpectedAfter(e)]
                /\ given' = [given EXCEPT ![e.log] = @ \cup {[type |-> e.type, seqno |-> s] : s \in e.from..e.to}]
           ELSE UNCHANGED <<next, given>>
      /\ UNCHANGED <<logdevice, pos, thread, restart, ticking, starts, begun>>

\* StartReading once the storage has opened the log.
Reading(l, s) ==
  /\ Open(l, s)
  /\ next' = [next EXCEPT ![l] = s]
  /\ restart' = [restart EXCEPT ![l] = "waiting"]

StartReading(l, s) ==
  /\ ~ticking
  /\ starts < MaxStarts
  /\ starts' = starts + 1
  /\ \/ /\ Reading(l, s)
        /\ begun' = [begun EXCEPT ![l] = s]
        /\ given' = [given EXCEPT ![l] = {}]
     \/ /\ ~up
        /\ UNCHANGED <<storage, next, restart, begun, given>>
  /\ UNCHANGED <<logdevice, ticking>>

EventAfterStop(l) == [restart EXCEPT ![l] = "none"]

\* The state of the log goes even when the storage fails to close it.
StopReading(l) ==
  /\ ~ticking
  /\ next[l] # Closed
  /\ next' = [next EXCEPT ![l] = Closed]
  /\ restart' = EventAfterStop(l)
  /\ pos' = IF up THEN [pos EXCEPT ![l] = Closed] ELSE pos
  /\ given' = [given EXCEPT ![l] = {}]
  /\ begun' = [begun EXCEPT ![l] = Closed]
  /\ UNCHANGED <<logdevice, thread, queue, ticking, starts>>

\* The restart time of a log passes.  Tick reads the clock once.
RestartDue(l) ==
  /\ ~ticking
  /\ restart[l] = "waiting"
  /\ restart' = [restart EXCEPT ![l] = "due"]
  /\ UNCHANGED <<logdevice, storage, next, ticking, starts, begun, given>>

Due == {l \in Logs : restart[l] = "due"}

Tick ==
  /\ ~ticking
  /\ Due # {}
  /\ ticking' = TRUE
  /\ UNCHANGED <<logdevice, storage, next, restart, starts, begun, given>>

\* One pass of the loop of Tick: reopen where the log stands.
Restart(l) ==
  /\ ticking
  /\ l \in Due
  /\ \/ Reading(l, next[l])
     \/ ~up /\ UNCHANGED <<storage, next, restart>>
  /\ UNCHANGED <<logdevice, ticking, starts, begun, given>>

TickEnd ==
  /\ ticking
  /\ Due = {}
  /\ ticking' = FALSE
  /\ UNCHANGED <<logdevice, storage, next, restart, starts, begun, given>>

LogNext ==
  \/ \E l \in Logs :
       \/ Append1(l) \/ Trim(l) \/ Forward(l)
       \/ \E s \in Seqnos : StartReading(l, s)
       \/ StopReading(l) \/ RestartDue(l) \/ Restart(l)
  \/ \E t \in Threads : Receive(t)
  \/ StorageFails
  \/ Tick
  \/ TickEnd

LogSpec == LogInit /\ [][LogNext]_logVars

\* The threads keep running, the clock advances and Tick is called by a timer.  The
\* room's thread serves its queues between ticks, and a storage thread that finds its
\* queue full tries again with a bounded delay.
LogFairness ==
  /\ \A l \in Logs : SF_logVars(Forward(l)) /\ WF_logVars(RestartDue(l)) /\ WF_logVars(Restart(l))
  /\ \A t \in Threads : SF_logVars(Receive(t))
  /\ WF_logVars(Tick) /\ WF_logVars(TickEnd)

----------------------------------------------------------------------------
EntryTypes == {"record", "kRetention", "kDataLoss", "kBenign"}
EntryType == [log : Logs, type : EntryTypes, from : Seqnos, to : Seqnos]

\* Every table of the tailer and of the storage holds values of its type.
LogTypeInv ==
  /\ tailOf \in [Logs -> 0..MaxSeq] /\ trim \in [Logs -> 0..MaxSeq] /\ trims \in 0..MaxTrims /\ up \in BOOLEAN
  /\ pos \in [Logs -> 0..MaxSeq + 1] /\ thread \in [Logs -> Threads]
  /\ queue \in [Threads -> Seq(EntryType)]
  /\ \A t \in Threads : Len(queue[t]) <= QueueSize
  /\ next \in [Logs -> 0..MaxSeq + 1]
  /\ restart \in [Logs -> {"none", "waiting", "due"}]
  /\ ticking \in BOOLEAN /\ starts \in 0..MaxStarts
  /\ begun \in [Logs -> 0..MaxSeq]
  /\ given \in [Logs -> SUBSET [type : EntryTypes, seqno : Seqnos]]

\* LogTailer::Tick asserts that the log of every restart event is still open, and
\* every open log has its one restart event: StartReading and StopReading keep the
\* handle of the event in step with log_state.
RestartPerLog == \A l \in Logs : restart[l] # "none" <=> next[l] # Closed

\* However often the log is reopened while entries of earlier openings are queued,
\* the topic tailer is told of every sequence number from where it started up to
\* next_seqno exactly once.
EachOnce ==
  \A l \in Logs : next[l] # Closed =>
    /\ {g.seqno : g \in given[l]} = begun[l] .. next[l] - 1
    /\ \A g, h \in given[l] : g.seqno = h.seqno => g = h

\* A record is never passed over in silence: RecordCallback and GapCallback tell the
\* topic tailer the record itself or a gap of lost data, and call a gap benign only
\* where the log holds nothing.
NothingHidden ==
  \A l \in Logs : \A g \in given[l] :
    /\ g.type = "record" => Content[g.seqno] = "record"
    /\ g.type = "kBenign" => Content[g.seqno] = "hole"

\* What the topic tailer relies on, in every state of the storage and its queues.
LogTailerSafe == LogTypeInv /\ RestartPerLog /\ EachOnce /\ NothingHidden

\* A log that is being read catches up with its tail, even when a gap whose start has
\* been overtaken is dropped and leaves the reader past next_seqno: the forced restart
\* of Tick reads again from where the log stands.
CatchesUp == LogFairness => \A l \in Logs : []<>(next[l] = Closed \/ next[l] > tailOf[l])

\* "This will remove and re-add the event to restart_events_" (log_tailer.cc:415): each
\* pass of the loop of Tick moves one event into the future, so that Tick returns.
TickReturns == LogFairness => (ticking ~> ~ticking)

----------------------------------------------------------------------------
(* Proof of LogTailerSafe for any logs, storage threads, contents, queue   *)
(* sizes and numbers of restarts.                                          *)

\* What the type of an entry says of the log.
TrueType(type, s) ==
  /\ type = "record" => Content[s] = "record"
  /\ type = "kBenign" => Content[s] = "hole"

\* Entries that are well formed and true of the log, whenever they were queued.
TrueEntry == {e \in EntryType : e.from <= e.to /\ \A s \in e.from .. e.to : TrueType(e.type, s)}

\* Queues hold true entries.
QueuesTrue == queue \in [Threads -> Seq(TrueEntry)]

\* An open log stands at or after the place where it was started.
StandsAfter == \A l \in Logs : next[l] # Closed => begun[l] # Closed /\ begun[l] <= next[l]

\* The inductive invariant.
LogIInv == LogTypeInv /\ RestartPerLog /\ EachOnce /\ NothingHidden /\ QueuesTrue /\ StandsAfter

\* The flags of the room and the storage stay Boolean.

\* Nothing is open at first.
LEMMA LogInitIInv == LogInit => LogIInv
<1> SUFFICES ASSUME LogInit PROVE LogIInv
  OBVIOUS
<1>1. MaxSeq \in Nat
  BY ContentAssumption DEF MaxSeq
<1>2. <<>> \in Seq(TrueEntry) /\ <<>> \in Seq(EntryType) /\ Len(<<>>) = 0
  OBVIOUS
<1>3. (CHOOSE t \in Threads : TRUE) \in Threads
  BY ThreadsAssumption
<1>4. \A t \in Threads : Len(queue[t]) <= QueueSize
  BY <1>2, BoundsAssumption DEF LogInit
<1>5. LogTypeInv
  <2>1. up \in BOOLEAN /\ ticking \in BOOLEAN
    BY Zenon DEF LogInit
  <2>2. /\ tailOf \in [Logs -> 0 .. MaxSeq] /\ trim \in [Logs -> 0 .. MaxSeq]
        /\ pos \in [Logs -> 0 .. MaxSeq + 1] /\ next \in [Logs -> 0 .. MaxSeq + 1]
        /\ begun \in [Logs -> 0 .. MaxSeq] /\ trims \in 0 .. MaxTrims /\ starts \in 0 .. MaxStarts
    BY <1>1, BoundsAssumption DEF LogInit, Closed
  <2>3. /\ thread \in [Logs -> Threads] /\ queue \in [Threads -> Seq(EntryType)]
        /\ restart \in [Logs -> {"none", "waiting", "due"}]
        /\ given \in [Logs -> SUBSET [type : EntryTypes, seqno : Seqnos]]
    BY <1>2, <1>3 DEF LogInit
  <2>4. QED
    BY <1>4, <2>1, <2>2, <2>3 DEF LogTypeInv
<1>6. RestartPerLog /\ EachOnce /\ NothingHidden /\ StandsAfter
  BY DEF LogInit, RestartPerLog, EachOnce, NothingHidden, StandsAfter, Closed
<1>7. QueuesTrue
  BY <1>2 DEF LogInit, QueuesTrue
<1>8. QED
  BY <1>5, <1>6, <1>7 DEF LogIInv

\* A record or gap that is true of the log is a true entry.
LEMMA WellFormed ==
  ASSUME MaxSeq \in Nat, NEW l \in Logs, NEW type \in EntryTypes, NEW a \in Seqnos, NEW b \in Seqnos,
         a <= b, \A s \in a .. b : TrueType(type, s),
         NEW e, e = [log |-> l, type |-> type, from |-> a, to |-> b]
  PROVE  e \in TrueEntry /\ e.to + 1 \in 1 .. MaxSeq + 1
<1>1. e \in EntryType
  BY DEF EntryType
<1>2. e.type = type /\ e.from = a /\ e.to = b
  OBVIOUS
<1>3. e \in TrueEntry
  BY <1>1, <1>2 DEF TrueEntry
<1>4. QED
  BY <1>2, <1>3 DEF Seqnos

\* The storage reads in order and tells the truth (the callbacks of
\* AsyncLogDeviceReader and LogTailer::CreateReader).
LEMMA EntriesTrue ==
  ASSUME LogTypeInv, NEW l \in Logs, pos[l] # Closed, pos[l] <= tailOf[l],
         NEW e \in Entries(l, pos[l])
  PROVE  e \in TrueEntry /\ e.to + 1 \in 1 .. MaxSeq + 1
<1> DEFINE s == pos[l]
<1>1. MaxSeq \in Nat /\ \A i \in Seqnos : Content[i] \in Kinds
  BY ContentAssumption DEF MaxSeq, Seqnos
<1>2. s \in Seqnos /\ trim[l] \in 0 .. MaxSeq /\ tailOf[l] \in 0 .. MaxSeq
  BY <1>1 DEF LogTypeInv, Closed, Seqnos
<1> HIDE DEF s
<1>3. CASE s <= trim[l]
  <2>1. e = [log |-> l, type |-> "kRetention", from |-> s, to |-> trim[l]]
    BY <1>3 DEF Entries, s
  <2>2. trim[l] \in Seqnos
    BY <1>1, <1>2, <1>3 DEF Seqnos
  <2>3. QED
    BY <1>1, <1>2, <1>3, <2>1, <2>2, WellFormed DEF EntryTypes, TrueType
<1>4. CASE ~ (s <= trim[l]) /\ Content[s] = "record"
  <2>1. e = [log |-> l, type |-> "record", from |-> s, to |-> s]
    BY <1>2, <1>4 DEF Entries, s
  <2>2. QED
    BY <1>1, <1>2, <1>4, <2>1, WellFormed DEF EntryTypes, TrueType, Seqnos
<1>5. CASE ~ (s <= trim[l]) /\ Content[s] = "corrupt"
  <2>1. e = [log |-> l, type |-> "kDataLoss", from |-> s, to |-> s]
    BY <1>2, <1>5 DEF Entries, GapType, s
  <2>2. QED
    BY <1>1, <1>2, <2>1, WellFormed DEF EntryTypes, TrueType, Seqnos
<1>6. CASE ~ (s <= trim[l]) /\ Content[s] \notin {"record", "corrupt"}
  <2>1. PICK x \in GapEnds(l, s) : e = [log |-> l, type |-> GapType(Content[s]), from |-> s, to |-> x]
    BY <1>2, <1>6 DEF Entries, s
  <2>2. x \in s .. tailOf[l] /\ \A i \in s .. x : Content[i] = Content[s]
    BY DEF GapEnds
  <2>3. x \in Seqnos /\ s <= x
    BY <1>1, <1>2, <2>2 DEF Seqnos
  <2>4. GapType(Content[s]) \in EntryTypes /\ \A i \in s .. x : TrueType(GapType(Content[s]), i)
    BY <2>2 DEF GapType, EntryTypes, TrueType
  <2>5. QED
    BY <1>1, <1>2, <2>1, <2>3, <2>4, WellFormed
<1>7. QED
  BY <1>3, <1>4, <1>5, <1>6

\* An entry that is queued is true; nothing is told of it yet (TryForward).
LEMMA ForwardKeeps == ASSUME LogIInv, NEW l \in Logs, Forward(l) PROVE LogIInv'
<1> DEFINE t == thread[l]
<1>1. PICK e \in Entries(l, pos[l]) : queue' = [queue EXCEPT ![t] = Append(@, e)] /\ pos' = [pos EXCEPT ![l] = e.to + 1]
  BY DEF Forward
<1>2. LogTypeInv /\ QueuesTrue /\ t \in Threads
  BY DEF LogIInv, LogTypeInv
<1>3. e \in TrueEntry /\ e.to + 1 \in 1 .. MaxSeq + 1
  BY <1>2, EntriesTrue DEF Forward
<1>4. UNCHANGED <<logdevice, thread, next, restart, ticking, starts, begun, given>> /\ Len(queue[t]) < QueueSize
  BY DEF Forward, HasRoom
<1> HIDE DEF t
<1>5. QueuesTrue'
  BY <1>1, <1>2, <1>3 DEF QueuesTrue
<1>6. queue' \in [Threads -> Seq(EntryType)]
  BY <1>1, <1>2, <1>3 DEF LogTypeInv, TrueEntry
<1>7. pos' \in [Logs -> 0 .. MaxSeq + 1]
  BY <1>1, <1>2, <1>3 DEF LogTypeInv
<1>8. ASSUME NEW u \in Threads PROVE Len(queue'[u]) <= QueueSize
  BY <1>1, <1>2, <1>4, BoundsAssumption DEF LogTypeInv
<1>9. LogTypeInv'
  BY <1>2, <1>4, <1>6, <1>7, <1>8 DEF LogTypeInv, logdevice
<1>10. RestartPerLog' /\ EachOnce' /\ NothingHidden' /\ StandsAfter'
  BY <1>4 DEF LogIInv, RestartPerLog, EachOnce, NothingHidden, StandsAfter
<1>11. QED
  BY <1>5, <1>9, <1>10 DEF LogIInv

\* What is told extends what was told by the sequence numbers of the entry: an
\* entry of an earlier opening is taken only where the log stands, and then it is
\* as good as one of this opening (RecordCallback, GapCallback).
LEMMA ReceiveKeeps == ASSUME LogIInv, NEW t \in Threads, Receive(t) PROVE LogIInv'
<1> DEFINE e == Head(queue[t])
           x == e.log
           told == {[type |-> e.type, seqno |-> s] : s \in e.from .. e.to}
<1>1. MaxSeq \in Nat
  BY ContentAssumption DEF MaxSeq
<1>2. /\ LogTypeInv /\ QueuesTrue /\ queue[t] # <<>> /\ queue[t] \in Seq(TrueEntry)
      /\ queue' = [queue EXCEPT ![t] = Tail(@)]
      /\ UNCHANGED <<logdevice, pos, thread, restart, ticking, starts, begun>>
  BY DEF LogIInv, QueuesTrue, Receive
<1>3. e \in TrueEntry /\ Tail(queue[t]) \in Seq(TrueEntry) /\ Len(Tail(queue[t])) = Len(queue[t]) - 1
  BY <1>2
<1>4. /\ x \in Logs /\ e.type \in EntryTypes /\ e.from \in Seqnos /\ e.to \in Seqnos /\ e.from <= e.to
      /\ \A s \in e.from .. e.to : TrueType(e.type, s)
  BY <1>3 DEF TrueEntry, EntryType
<1>5. \/ UNCHANGED <<next, given>>
      \/ /\ next[x] # Closed /\ next[x] = e.from
         /\ next' = [next EXCEPT ![x] = e.to + 1]
         /\ given' = [given EXCEPT ![x] = @ \cup told]
  BY DEF Receive, Accepts, ExpectedAfter
<1> HIDE DEF e, x
<1>6. QueuesTrue'
  BY <1>2, <1>3 DEF QueuesTrue
<1>7. queue' \in [Threads -> Seq(EntryType)] /\ \A u \in Threads : Len(queue'[u]) <= QueueSize
  <2>1. Tail(queue[t]) \in Seq(EntryType) /\ Len(queue[t]) \in Nat
    BY <1>2 DEF LogTypeInv
  <2>2. queue' \in [Threads -> Seq(EntryType)]
    BY <1>2, <2>1 DEF LogTypeInv
  <2>3. ASSUME NEW u \in Threads PROVE Len(queue'[u]) <= QueueSize
    BY <1>2, <1>3, <2>1, BoundsAssumption DEF LogTypeInv
  <2>4. QED
    BY <2>2, <2>3
<1>8. told \in SUBSET [type : EntryTypes, seqno : Seqnos]
  BY <1>1, <1>4 DEF Seqnos
<1>9. next' \in [Logs -> 0 .. MaxSeq + 1] /\ given' \in [Logs -> SUBSET [type : EntryTypes, seqno : Seqnos]]
  <2> HIDE DEF told
  <2>0. e.to + 1 \in 0 .. MaxSeq + 1
    BY <1>1, <1>4 DEF Seqnos
  <2>1. next' \in [Logs -> 0 .. MaxSeq + 1]
    BY <1>2, <1>5, <2>0 DEF LogTypeInv
  <2>2. given' \in [Logs -> SUBSET [type : EntryTypes, seqno : Seqnos]]
    BY <1>2, <1>5, <1>8 DEF LogTypeInv
  <2>3. QED
    BY <2>1, <2>2
<1>10. LogTypeInv'
  BY <1>2, <1>7, <1>9 DEF LogTypeInv, logdevice
<1>11. CASE UNCHANGED <<next, given>>
  <2>1. RestartPerLog' /\ EachOnce' /\ NothingHidden' /\ StandsAfter'
    BY <1>2, <1>11 DEF LogIInv, RestartPerLog, EachOnce, NothingHidden, StandsAfter
  <2>2. QED
    BY <1>6, <1>10, <2>1 DEF LogIInv
<1>12. CASE /\ next[x] # Closed /\ next[x] = e.from
            /\ next' = [next EXCEPT ![x] = e.to + 1]
            /\ given' = [given EXCEPT ![x] = @ \cup told]
  <2>1. /\ next'[x] = e.to + 1 /\ next'[x] # Closed /\ given'[x] = given[x] \cup told
        /\ \A l \in Logs \ {x} : next'[l] = next[l] /\ given'[l] = given[l]
    BY <1>2, <1>4, <1>12 DEF LogTypeInv, Closed, Seqnos
  <2>2. begun[x] \in Nat /\ begun[x] # Closed /\ begun[x] <= e.from
    BY <1>2, <1>4, <1>12 DEF LogIInv, LogTypeInv, StandsAfter
  <2>3. \A g \in told : g.type = e.type /\ g.seqno \in e.from .. e.to
    OBVIOUS
  <2>4. \A s \in e.from .. e.to : [type |-> e.type, seqno |-> s] \in told
    OBVIOUS
  <2>5. \A g, h \in told : g.seqno = h.seqno => g = h
    OBVIOUS
  <2> HIDE DEF told
  <2>6. {g.seqno : g \in given[x]} = begun[x] .. e.from - 1 /\ \A g, h \in given[x] : g.seqno = h.seqno => g = h
    BY <1>4, <1>12 DEF LogIInv, EachOnce
  <2>7. {g.seqno : g \in given'[x]} = begun[x] .. e.to
    <3>1. ASSUME NEW g \in given'[x] PROVE g.seqno \in begun[x] .. e.to
      <4>1. CASE g \in given[x]
        <5>1. g.seqno \in begun[x] .. e.from - 1
          BY <2>6, <4>1
        <5>2. QED
          BY <1>4, <2>2, <5>1 DEF Seqnos
      <4>2. CASE g \in told
        BY <1>4, <2>2, <2>3, <4>2 DEF Seqnos
      <4>3. QED
        BY <2>1, <4>1, <4>2
    <3>2. ASSUME NEW s \in begun[x] .. e.to PROVE \E g \in given'[x] : g.seqno = s
      <4>1. CASE s \in begun[x] .. e.from - 1
        BY <2>1, <2>6, <4>1
      <4>2. CASE s \in e.from .. e.to
        <5>1. [type |-> e.type, seqno |-> s] \in given'[x]
          BY <2>1, <2>4, <4>2
        <5>2. [type |-> e.type, seqno |-> s].seqno = s
          OBVIOUS
        <5>3. QED
          BY <5>1, <5>2
      <4>3. s \in begun[x] .. e.from - 1 \/ s \in e.from .. e.to
        BY <1>1, <1>4, <2>2 DEF Seqnos
      <4>4. QED
        BY <4>1, <4>2, <4>3
    <3>3. QED
      BY <3>1, <3>2
  <2>8. ASSUME NEW g \in given'[x], NEW h \in given'[x], g.seqno = h.seqno PROVE g = h
    <3>1. \A k \in given[x] : k.seqno \in begun[x] .. e.from - 1
      BY <2>6
    <3>2. \A k \in given[x], m \in told : k.seqno # m.seqno
      BY <1>4, <2>2, <2>3, <3>1 DEF Seqnos
    <3>3. QED
      BY <2>1, <2>5, <2>6, <2>8, <3>2
  <2>9. EachOnce'
    <3> SUFFICES ASSUME NEW l \in Logs, next'[l] # Closed
                 PROVE  /\ {g.seqno : g \in given'[l]} = begun'[l] .. next'[l] - 1
                        /\ \A g, h \in given'[l] : g.seqno = h.seqno => g = h
      BY DEF EachOnce
    <3>1. CASE l = x
      <4>1. begun'[l] .. next'[l] - 1 = begun[x] .. e.to
        BY <1>2, <1>4, <2>1, <3>1 DEF Seqnos
      <4>2. QED
        BY <2>7, <2>8, <3>1, <4>1
    <3>2. CASE l # x
      BY <1>2, <2>1, <3>2 DEF LogIInv, EachOnce
    <3>3. QED
      BY <3>1, <3>2
  <2>10. NothingHidden'
    <3> SUFFICES ASSUME NEW l \in Logs, NEW g \in given'[l] PROVE TrueType(g.type, g.seqno)
      BY DEF NothingHidden, TrueType
    <3>1. CASE g \in given[l]
      BY <3>1 DEF LogIInv, NothingHidden, TrueType
    <3>2. CASE g \in told
      BY <1>4, <2>3, <3>2
    <3>3. QED
      BY <2>1, <3>1, <3>2
  <2>11. RestartPerLog'
    BY <1>2, <1>12, <2>1 DEF LogIInv, RestartPerLog
  <2>12. StandsAfter'
    BY <1>2, <1>4, <2>1, <2>2 DEF LogIInv, StandsAfter, Seqnos
  <2>13. QED
    BY <1>6, <1>10, <2>9, <2>10, <2>11, <2>12 DEF LogIInv
<1>13. QED
  BY <1>5, <1>11, <1>12

\* A log that is opened starts over, one that is reopened goes on where it stands
\* (LogTailer::StartReading).
LEMMA ReadingFacts ==
  ASSUME LogIInv, NEW l \in Logs, NEW s \in 1 .. MaxSeq + 1, Reading(l, s)
  PROVE  /\ pos' \in [Logs -> 0 .. MaxSeq + 1] /\ thread' \in [Logs -> Threads] /\ queue' = queue
         /\ next' \in [Logs -> 0 .. MaxSeq + 1] /\ restart' \in [Logs -> {"none", "waiting", "due"}]
         /\ next'[l] = s /\ restart'[l] = "waiting"
         /\ \A k \in Logs \ {l} : next'[k] = next[k] /\ restart'[k] = restart[k]
<1>1. MaxSeq \in Nat
  BY ContentAssumption DEF MaxSeq
<1>2. LogTypeInv
  BY DEF LogIInv
<1>3. pos' \in [Logs -> 0 .. MaxSeq + 1] /\ thread' \in [Logs -> Threads] /\ queue' = queue
  BY <1>1, <1>2 DEF Reading, Open, LogTypeInv
<1>4. next' = [next EXCEPT ![l] = s] /\ restart' = [restart EXCEPT ![l] = "waiting"]
  BY DEF Reading
<1>5. next' \in [Logs -> 0 .. MaxSeq + 1]
  BY <1>1, <1>2, <1>4 DEF LogTypeInv
<1>6. restart' \in [Logs -> {"none", "waiting", "due"}]
  BY <1>2, <1>4 DEF LogTypeInv
<1>7. /\ next'[l] = s /\ restart'[l] = "waiting"
      /\ \A k \in Logs \ {l} : next'[k] = next[k] /\ restart'[k] = restart[k]
  BY <1>2, <1>4 DEF LogTypeInv
<1>8. QED
  BY <1>3, <1>5, <1>6, <1>7

\* The topic tailer starts a log anew.
LEMMA StartKeeps == ASSUME LogIInv, NEW l \in Logs, NEW s \in Seqnos, StartReading(l, s) PROVE LogIInv'
<1>1. MaxSeq \in Nat /\ s \in 1 .. MaxSeq + 1 /\ s # Closed
  BY ContentAssumption DEF MaxSeq, Seqnos, Closed
<1>2. LogTypeInv /\ UNCHANGED <<logdevice, ticking>> /\ starts' \in 0 .. MaxStarts
  BY BoundsAssumption DEF LogIInv, LogTypeInv, StartReading
<1>3. CASE UNCHANGED <<storage, next, restart, begun, given>>
  <2>1. LogTypeInv' /\ QueuesTrue'
    BY <1>2, <1>3 DEF LogIInv, LogTypeInv, QueuesTrue, logdevice, storage
  <2>2. RestartPerLog' /\ EachOnce' /\ NothingHidden' /\ StandsAfter'
    BY <1>3 DEF LogIInv, RestartPerLog, EachOnce, NothingHidden, StandsAfter
  <2>3. QED
    BY <2>1, <2>2 DEF LogIInv
<1>4. CASE Reading(l, s) /\ begun' = [begun EXCEPT ![l] = s] /\ given' = [given EXCEPT ![l] = {}]
  <2>1. /\ pos' \in [Logs -> 0 .. MaxSeq + 1] /\ thread' \in [Logs -> Threads] /\ queue' = queue
        /\ next' \in [Logs -> 0 .. MaxSeq + 1] /\ restart' \in [Logs -> {"none", "waiting", "due"}]
    BY <1>1, <1>4, ReadingFacts
  <2>2. /\ next'[l] = s /\ restart'[l] = "waiting"
        /\ \A k \in Logs \ {l} : next'[k] = next[k] /\ restart'[k] = restart[k]
    BY <1>1, <1>4, ReadingFacts
  <2>3. /\ begun'[l] = s /\ given'[l] = {}
        /\ \A k \in Logs \ {l} : begun'[k] = begun[k] /\ given'[k] = given[k]
    BY <1>2, <1>4 DEF LogTypeInv
  <2>4. begun' \in [Logs -> 0 .. MaxSeq] /\ given' \in [Logs -> SUBSET [type : EntryTypes, seqno : Seqnos]]
    BY <1>1, <1>2, <1>4 DEF LogTypeInv, Seqnos
  <2>5. LogTypeInv' /\ QueuesTrue'
    BY <1>2, <2>1, <2>4 DEF LogIInv, LogTypeInv, QueuesTrue, logdevice
  <2>6. RestartPerLog' /\ NothingHidden'
    BY <1>1, <2>2, <2>3 DEF LogIInv, RestartPerLog, NothingHidden
  <2>7. StandsAfter'
    BY <1>1, <2>2, <2>3 DEF LogIInv, StandsAfter
  <2>8. s .. s - 1 = {}
    BY <1>1
  <2>9. EachOnce'
    BY <2>2, <2>3, <2>8 DEF LogIInv, EachOnce
  <2>10. QED
    BY <2>5, <2>6, <2>7, <2>9 DEF LogIInv
<1>5. QED
  BY <1>3, <1>4 DEF StartReading

\* Tick reopens a log where it stands: nothing is told twice.
LEMMA RestartKeeps == ASSUME LogIInv, NEW l \in Logs, Restart(l) PROVE LogIInv'
<1>1. LogTypeInv /\ next[l] # Closed /\ UNCHANGED <<logdevice, ticking, starts, begun, given>>
  BY DEF LogIInv, RestartPerLog, Restart, Due
<1>2. next[l] \in 1 .. MaxSeq + 1
  BY <1>1 DEF LogTypeInv, Closed
<1>3. CASE UNCHANGED <<storage, next, restart>>
  <2>1. LogTypeInv' /\ QueuesTrue'
    BY <1>1, <1>3 DEF LogIInv, LogTypeInv, QueuesTrue, logdevice, storage
  <2>2. RestartPerLog' /\ EachOnce' /\ NothingHidden' /\ StandsAfter'
    BY <1>1, <1>3 DEF LogIInv, RestartPerLog, EachOnce, NothingHidden, StandsAfter
  <2>3. QED
    BY <2>1, <2>2 DEF LogIInv
<1>4. CASE Reading(l, next[l])
  <2>1. /\ pos' \in [Logs -> 0 .. MaxSeq + 1] /\ thread' \in [Logs -> Threads] /\ queue' = queue
        /\ next' \in [Logs -> 0 .. MaxSeq + 1] /\ restart' \in [Logs -> {"none", "waiting", "due"}]
    BY <1>2, <1>4, ReadingFacts
  <2>2. /\ next'[l] = next[l] /\ restart'[l] = "waiting"
        /\ \A k \in Logs \ {l} : next'[k] = next[k] /\ restart'[k] = restart[k]
    BY <1>2, <1>4, ReadingFacts
  <2>3. LogTypeInv' /\ QueuesTrue'
    BY <1>1, <2>1 DEF LogIInv, LogTypeInv, QueuesTrue, logdevice
  <2>4. RestartPerLog'
    BY <1>1, <2>2 DEF LogIInv, RestartPerLog
  <2>5. \A k \in Logs : next'[k] = next[k]
    BY <2>2
  <2>6. EachOnce' /\ NothingHidden' /\ StandsAfter'
    BY <1>1, <2>5 DEF LogIInv, EachOnce, NothingHidden, StandsAfter
  <2>7. QED
    BY <2>3, <2>4, <2>6 DEF LogIInv
<1>5. QED
  BY <1>3, <1>4 DEF Restart

\* A log that is closed loses its restart event with its state, even when the
\* storage fails to close it (LogTailer::StopReading).
LEMMA StopKeeps == ASSUME LogIInv, NEW l \in Logs, StopReading(l) PROVE LogIInv'
<1>1. /\ LogTypeInv /\ UNCHANGED <<logdevice, thread, queue, ticking, starts>>
      /\ next' = [next EXCEPT ![l] = Closed] /\ restart' = [restart EXCEPT ![l] = "none"]
      /\ begun' = [begun EXCEPT ![l] = Closed] /\ given' = [given EXCEPT ![l] = {}]
      /\ pos' = pos \/ pos' = [pos EXCEPT ![l] = Closed]
  BY DEF LogIInv, StopReading, EventAfterStop
<1>2. /\ next'[l] = Closed /\ restart'[l] = "none" /\ given'[l] = {}
      /\ \A k \in Logs \ {l} : /\ next'[k] = next[k] /\ restart'[k] = restart[k]
                              /\ begun'[k] = begun[k] /\ given'[k] = given[k]
  BY <1>1 DEF LogTypeInv
<1>3. 0 \in 0 .. MaxSeq /\ 0 \in 0 .. MaxSeq + 1
  BY ContentAssumption DEF MaxSeq
<1>4. /\ next' \in [Logs -> 0 .. MaxSeq + 1] /\ pos' \in [Logs -> 0 .. MaxSeq + 1]
      /\ begun' \in [Logs -> 0 .. MaxSeq]
  BY <1>1, <1>3 DEF LogTypeInv, Closed
<1>5. /\ restart' \in [Logs -> {"none", "waiting", "due"}]
      /\ given' \in [Logs -> SUBSET [type : EntryTypes, seqno : Seqnos]]
  BY <1>1 DEF LogTypeInv
<1>6. LogTypeInv' /\ QueuesTrue'
  BY <1>1, <1>4, <1>5 DEF LogIInv, LogTypeInv, QueuesTrue, logdevice
<1>7. RestartPerLog' /\ EachOnce' /\ NothingHidden' /\ StandsAfter'
  BY <1>2 DEF LogIInv, RestartPerLog, EachOnce, NothingHidden, StandsAfter
<1>8. QED
  BY <1>6, <1>7 DEF LogIInv

\* Steps of the storage and of the clock that move no log of the tailer.
LEMMA QuietKeeps ==
  ASSUME LogIInv,
         \/ \E l \in Logs : Append1(l) \/ Trim(l) \/ RestartDue(l)
         \/ StorageFails \/ Tick \/ TickEnd \/ UNCHANGED logVars
  PROVE  LogIInv'
<1>1. LogTypeInv /\ UNCHANGED <<storage, next, starts, begun, given>>
  BY DEF LogIInv, Append1, Trim, StorageFails, RestartDue, Tick, TickEnd, logVars
<1>2. up' \in BOOLEAN /\ ticking' \in BOOLEAN
  BY Zenon DEF LogIInv, LogTypeInv, Append1, Trim, StorageFails, RestartDue, Tick, TickEnd, logVars, logdevice
<1>3. /\ tailOf' \in [Logs -> 0 .. MaxSeq] /\ trim' \in [Logs -> 0 .. MaxSeq] /\ trims' \in 0 .. MaxTrims
  <2>1. MaxSeq \in Nat
    BY ContentAssumption DEF MaxSeq
  <2>2. CASE \E l \in Logs : Append1(l)
    BY <1>1, <2>1, <2>2 DEF Append1, LogTypeInv
  <2>3. CASE \E l \in Logs : Trim(l)
    BY <1>1, <2>1, <2>3, BoundsAssumption DEF Trim, LogTypeInv
  <2>4. CASE UNCHANGED <<tailOf, trim, trims>>
    BY <1>1, <2>4 DEF LogTypeInv
  <2>5. QED
    BY <2>2, <2>3, <2>4 DEF StorageFails, RestartDue, Tick, TickEnd, logVars, logdevice
<1>4. restart' \in [Logs -> {"none", "waiting", "due"}] /\ \A k \in Logs : restart'[k] = "none" <=> restart[k] = "none"
  BY <1>1 DEF LogTypeInv, Append1, Trim, StorageFails, RestartDue, Tick, TickEnd, logVars
<1>5. LogTypeInv' /\ QueuesTrue'
  BY <1>1, <1>2, <1>3, <1>4 DEF LogIInv, LogTypeInv, QueuesTrue, storage
<1>6. RestartPerLog' /\ EachOnce' /\ NothingHidden' /\ StandsAfter'
  BY <1>1, <1>4 DEF LogIInv, RestartPerLog, EachOnce, NothingHidden, StandsAfter
<1>7. QED
  BY <1>5, <1>6 DEF LogIInv

\* However the storage threads, the room's thread and the timer interleave, and
\* whatever is queued from earlier openings of a log: the topic tailer is told of
\* every sequence number from where it started exactly once, never of a record as
\* a hole, and every open log has its restart event (log_tailer.cc).
THEOREM LogTailerAlwaysSafe == LogSpec => []LogTailerSafe
<1>1. LogInit => LogIInv
  BY LogInitIInv
<1>2. LogIInv /\ [LogNext]_logVars => LogIInv'
  <2> SUFFICES ASSUME LogIInv, [LogNext]_logVars PROVE LogIInv'
    OBVIOUS
  <2>1. ASSUME NEW l \in Logs,
               Append1(l) \/ Trim(l) \/ Forward(l) \/ StopReading(l) \/ RestartDue(l) \/ Restart(l)
        PROVE  LogIInv'
    BY <2>1, QuietKeeps, ForwardKeeps, StopKeeps, RestartKeeps
  <2>2. ASSUME NEW l \in Logs, NEW s \in Seqnos, StartReading(l, s) PROVE LogIInv'
    BY <2>2, StartKeeps
  <2>3. ASSUME NEW t \in Threads, Receive(t) PROVE LogIInv'
    BY <2>3, ReceiveKeeps
  <2>4. CASE StorageFails \/ Tick \/ TickEnd \/ UNCHANGED logVars
    BY <2>4, QuietKeeps
  <2>5. QED
    BY <2>1, <2>2, <2>3, <2>4 DEF LogNext
<1>3. LogIInv => LogTailerSafe
  BY DEF LogIInv, LogTailerSafe
<1>4. QED
  BY <1>1, <1>2, <1>3, PTL DEF LogSpec
=============================================================================
