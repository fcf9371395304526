-------------------------- MODULE BufferedStorage --------------------------
(***************************************************************************)
(* util/buffered_storage.cc: a log storage on top of another one.  Appends *)
(* are queued per log on a worker and written as one batch when the queue  *)
(* is long enough, large enough or old enough; record i of the batch with  *)
(* number n of the underlying log has the sequence number n << bits | i.   *)
(* A reader takes batches apart, keeps what its consumer does not take in  *)
(* an overflow queue, and covers unused numbers of a batch with a gap.     *)
(*                                                                         *)
(* A request stands for its own payload.  The underlying storage may       *)
(* refuse an append, fail it later (leaving a hole in the log or not), or  *)
(* complete pending appends in any order.  The age of an item is its time  *)
(* on the clock of the worker; the timer that looks for old queues fires   *)
(* between two ticks.                                                      *)
(***************************************************************************)
EXTENDS Naturals, Sequences, FiniteSets, SequencesExt

CONSTANTS Requests,        \* 1..n, made in this order; 0 stands for a gap
          Logs,
          MaxBatchEntries, \* max_batch_entries_
          MaxBatchBytes,   \* max_batch_bytes_
          SizeOf,          \* bytes of each request
          Latency,         \* max_batch_latency_, in ticks
          ByteBits,        \* bits of the size of a batch (8)
          Hole, NoAck, Failed,
          MaxRefusals, MaxFailures, \* bounds: refused and failed appends,
          MaxOpens                  \* and readers opened

VARIABLES sent,      \* requests made, in commands to the worker
          home,      \* the log of each request, once it is made
          commands,  \* ... and not processed yet
          queues,    \* queues_: sequence of requests, <<>> without a queue
          qage,      \* age of each queue
          timeouts,  \* timeouts_: a sequence of [log, age]
          checked,   \* the timer has fired since the last tick
          appending, \* appends under way: [log, batch]
          store,     \* the underlying logs: batches and holes
          acks,      \* callback of each request: NoAck, Failed, seqno
          refusals, failures,
          opened,    \* the open reader: [log, pos, moved], or <<>>
          overflow,  \* overflow_records_ and then overflow_gap_
          consumed,  \* what the consumer of the reader took
          opens

writerVars == <<sent, home, commands, queues, qage, timeouts, checked>>
storeVars == <<appending, store, acks, refusals, failures>>
readerVars == <<opened, overflow, consumed, opens>>
vars == <<writerVars, storeVars, readerVars>>

\* Mutant: one bit too few for a batch that is not a power of two.
BatchBitsFew == CHOOSE b \in 0..ByteBits : 2^(b + 1) > MaxBatchEntries /\ \A c \in 0..ByteBits : 2^(c + 1) > MaxBatchEntries => b <= c

\* BufferedLogStorage: the least b with 1 << b not below max_batch_entries
BatchBits == CHOOSE b \in 0..ByteBits : 2^b >= MaxBatchEntries /\ \A c \in 0..ByteBits : 2^c >= MaxBatchEntries => b <= c

SeqNo(n, i) == n * 2^BatchBits + i

RECURSIVE TotalSize(_)
TotalSize(q) == IF q = <<>> THEN 0 ELSE SizeOf[Head(q)] + TotalSize(Tail(q))

Init ==
  /\ sent = {} /\ commands = <<>> /\ queues = [l \in Logs |-> <<>>]
  /\ home = [r \in Requests |-> CHOOSE l \in Logs : TRUE]
  /\ qage = [l \in Logs |-> 0] /\ timeouts = <<>> /\ checked = TRUE
  /\ appending = {} /\ store = [l \in Logs |-> <<>>] /\ acks = [r \in Requests |-> NoAck]
  /\ refusals = 0 /\ failures = 0
  /\ opened = <<>> /\ overflow = <<>> /\ consumed = <<>> /\ opens = 0

-----------------------------------------------------------------------------
(* Appends *)

\* AppendAsync: a command to the worker, which runs it later.
AppendAsync(r, l) ==
  /\ r \notin sent /\ \A s \in Requests : s < r => s \in sent
  /\ sent' = sent \cup {r} /\ commands' = Append(commands, r)
  /\ home' = [home EXCEPT ![r] = l]
  /\ UNCHANGED <<queues, qage, timeouts, checked, storeVars, readerVars>>

\* The size of a batch is one byte, and its entries follow.
Encode(q) == [size |-> Len(q) % 2^ByteBits, entries |-> q]

\* Flush of the queues q of the logs ls: each is one append to the underlying
\* storage, whose result is not looked at.
Flush(q, ls) ==
  \E refused \in SUBSET {l \in ls : q[l] # <<>>} :
    /\ refusals' = refusals + Cardinality(refused) /\ refusals' <= MaxRefusals
    /\ appending' = appending \cup {[log |-> l, batch |-> Encode(q[l])] : l \in {k \in ls \ refused : q[k] # <<>>}}
    /\ queues' = [l \in Logs |-> IF l \in ls THEN <<>> ELSE q[l]]
    /\ UNCHANGED <<store, acks, failures>>

\* Enqueue starts the timeout of a queue that it creates.
StartsTimeout(l) == queues[l] = <<>>

\* TimeoutList::Add
Started(l) == Append(SelectSeq(timeouts, LAMBDA e : e.log # l), [log |-> l, age |-> 0])

Full(q) == Len(q) >= MaxBatchEntries \/ TotalSize(q) >= MaxBatchBytes

Enqueue ==
  /\ commands # <<>>
  /\ LET r == Head(commands)
         l == home[r]
         q == [queues EXCEPT ![l] = Append(queues[l], r)]
     IN /\ timeouts' = IF StartsTimeout(l) THEN Started(l) ELSE timeouts
        /\ qage' = IF queues[l] = <<>> THEN [qage EXCEPT ![l] = 0] ELSE qage
        /\ Flush(q, IF Full(q[l]) THEN {l} ELSE {})
  /\ commands' = Tail(commands)
  /\ UNCHANGED <<sent, home, checked, readerVars>>

\* FlushCheck: ProcessExpired from the front of timeouts_.
FlushCheck ==
  LET fresh == {i \in DOMAIN timeouts : timeouts[i].age <= Latency}
      n == IF fresh = {} THEN Len(timeouts) ELSE (CHOOSE i \in fresh : \A j \in fresh : i <= j) - 1
  IN /\ ~checked /\ checked' = TRUE
     /\ timeouts' = SubSeq(timeouts, n + 1, Len(timeouts))
     /\ Flush(queues, {timeouts[i].log : i \in 1..n})
     /\ UNCHANGED <<sent, home, commands, qage, readerVars>>

Older(a) == IF a <= Latency + 1 THEN a + 1 ELSE a

Tick ==
  /\ checked /\ checked' = FALSE
  /\ timeouts' = [i \in DOMAIN timeouts |-> [timeouts[i] EXCEPT !.age = Older(@)]]
  /\ qage' = [l \in Logs |-> IF queues[l] = <<>> THEN 0 ELSE Older(qage[l])]
  /\ timeouts # <<>>
  /\ UNCHANGED <<sent, home, commands, queues, storeVars, readerVars>>

\* The underlying append p completes: the callbacks of its requests are
\* called with the sequence number of the batch and the place in it.
Complete(p) ==
  LET n == Len(store[p.log]) + 1
      entries == p.batch.entries
      index(r) == (CHOOSE i \in DOMAIN entries : entries[i] = r) - 1
  IN /\ store' = [store EXCEPT ![p.log] = Append(@, p.batch)]
     /\ acks' = [r \in Requests |-> IF r \in Range(entries) THEN SeqNo(n, index(r)) ELSE acks[r]]
     /\ UNCHANGED failures

Fail(p) ==
  /\ failures < MaxFailures /\ failures' = failures + 1
  /\ \/ store' = [store EXCEPT ![p.log] = Append(@, Hole)]
     \/ UNCHANGED store
  /\ acks' = [r \in Requests |-> IF r \in Range(p.batch.entries) THEN Failed ELSE acks[r]]

StorageCallback ==
  \E p \in appending :
    /\ appending' = appending \ {p}
    /\ Complete(p) \/ Fail(p)
    /\ UNCHANGED <<writerVars, readerVars, refusals>>

-----------------------------------------------------------------------------
(* Readers *)

\* Open: the underlying reader starts at the batch of start_point, with new
\* callbacks.  An open reader is closed first.
Open(l, start) ==
  /\ opens < MaxOpens /\ opens' = opens + 1
  /\ opened' = [log |-> l, start |-> start, pos |-> start \div 2^BatchBits, moved |-> FALSE]
  /\ overflow' = <<>> /\ consumed' = <<>>
  /\ UNCHANGED <<writerVars, storeVars>>

Close ==
  /\ opened # <<>> /\ opened' = <<>> /\ overflow' = <<>> /\ consumed' = <<>>
  /\ UNCHANGED <<writerVars, storeVars, opens>>

Record(q, r) == [from |-> q, to |-> q, what |-> r]
MissingNumbers(from, to) == [from |-> from, to |-> to, what |-> 0]

\* The gap that covers the missing sequence numbers of a batch
Unused(n, size) ==
  IF SeqNo(n, size) <= SeqNo(n, 2^BatchBits - 1) THEN <<MissingNumbers(SeqNo(n, size), SeqNo(n, 2^BatchBits - 1))>> ELSE <<>>

\* The records of the batch with number n, and the gap after them
Items(n, batch) ==
  [i \in 1..batch.size |-> Record(SeqNo(n, i - 1), batch.entries[i])] \o Unused(n, batch.size)

\* What a call adds to the overflow queue: nothing when the record is empty,
\* because an earlier call moved its contents away.
NewItems(n, batch) == IF opened.moved THEN <<>> ELSE Items(n, batch)

\* DeliverRecord: FlushOverflow first; then the new items, as long as the
\* consumer takes them.  The record is done when nothing is left over.
DeliverRecord ==
  LET n == opened.pos
      batch == store[opened.log][n]
      items == NewItems(n, batch)
      all == overflow \o items
  IN \E taken \in 0..Len(all) :
       LET reached == taken >= Len(overflow)
           rest == IF reached THEN SubSeq(all, taken + 1, Len(all)) ELSE SubSeq(overflow, taken + 1, Len(overflow))
       IN /\ consumed' = consumed \o SubSeq(all, 1, taken)
          /\ overflow' = rest
          /\ opened' = IF rest = <<>> THEN [opened EXCEPT !.pos = n + 1, !.moved = FALSE]
                       ELSE [opened EXCEPT !.moved = @ \/ (reached /\ items # <<>>)]

\* DeliverGap, for the holes from the position on
DeliverGap ==
  LET l == store[opened.log]
      n == opened.pos
      to == CHOOSE t \in n..Len(l) : /\ \A i \in n..t : l[i] = Hole
                                     /\ t = Len(l) \/ l[t + 1] # Hole
  IN \E taken \in 0..(Len(overflow) + 1) :
       /\ overflow' = SubSeq(overflow, taken + 1, Len(overflow))
       /\ consumed' = consumed \o SubSeq(Append(overflow, MissingNumbers(SeqNo(n, 0), SeqNo(n, 0) + (to - n + 1) * 2^BatchBits - 1)), 1, taken)
       /\ opened' = IF taken = Len(overflow) + 1 THEN [opened EXCEPT !.pos = to + 1] ELSE opened

\* The underlying reader delivers what is at its position, again and again
\* until the callback takes it.
Read ==
  /\ opened # <<>> /\ opened.pos \in DOMAIN store[opened.log]
  /\ IF store[opened.log][opened.pos] = Hole THEN DeliverGap ELSE DeliverRecord
  /\ UNCHANGED <<writerVars, storeVars, opens>>

Next ==
  \/ \E r \in Requests, l \in Logs : AppendAsync(r, l)
  \/ Enqueue \/ FlushCheck \/ Tick \/ StorageCallback \/ Close \/ Read
  \/ \E l \in Logs, start \in 2^BatchBits..(3 * 2^BatchBits) : Open(l, start)

Spec == Init /\ [][Next]_vars

\* The worker runs commands and its timer, and the storage answers.
Fairness == WF_vars(Enqueue) /\ WF_vars(FlushCheck) /\ WF_vars(Tick) /\ WF_vars(StorageCallback)

-----------------------------------------------------------------------------
\* The state has its types; a request is in one place only.
TypeInv ==
  /\ queues \in [Logs -> Seq(Requests)] /\ commands \in Seq(Requests)
  /\ acks \in [Requests -> Nat \cup {Failed, NoAck}]
  /\ \A l \in Logs : \A r \in Range(queues[l]) :
       home[r] = l /\ r \notin Range(commands) /\ \A p \in appending : r \notin Range(p.batch.entries)
  /\ \A i, j \in DOMAIN timeouts : timeouts[i].log = timeouts[j].log => i = j

\* The sequence number a callback is called with is the place of the request
\* in the underlying log: n << batch_bits | i says the batch and the index,
\* for any number of entries of the batch.
AckedIsStored ==
  \A r \in Requests : acks[r] \in Nat =>
    LET n == acks[r] \div 2^BatchBits
        i == acks[r] % 2^BatchBits
    IN n \in DOMAIN store[home[r]] /\ i + 1 \in DOMAIN store[home[r]][n].entries /\ store[home[r]][n].entries[i + 1] = r

\* The numbers up to which the reader has taken its log apart
Upto == IF opened.moved THEN SeqNo(opened.pos + 1, 0) ELSE SeqNo(opened.pos, 0)

\* What the consumer took, with what waits in the overflow queue, is every
\* sequence number once and in order, from the start of the batch in which
\* the reader was opened, however often the consumer refuses a record or a
\* gap and the underlying reader delivers a batch again.
Contiguous ==
  opened # <<>> =>
    LET all == consumed \o overflow
        first == SeqNo(opened.start \div 2^BatchBits, 0)
    IN IF all = <<>> THEN Upto = first
       ELSE /\ all[1].from = first /\ all[Len(all)].to + 1 = Upto
            /\ \A i \in 1..(Len(all) - 1) : all[i + 1].from = all[i].to + 1

\* An acknowledged request is read at the sequence number of its callback: no
\* gap and no other record is delivered in its place ("up to 8 bits
\* supported" for a batch; nothing remains of a batch after its records).
ReadBack ==
  \A i \in DOMAIN consumed : \A r \in Requests :
    home[r] = opened.log /\ acks[r] \in consumed[i].from..consumed[i].to => consumed[i].what = r

\* No queue is older than max_batch_latency and the period of the timer:
\* every queue has an item in timeouts_, also when an older item of its log
\* was left there by a batch that was full.
Prompt == \A l \in Logs : queues[l] # <<>> => qage[l] <= Latency + 1

\* Nothing acknowledged is misplaced, nothing read is missing or repeated, nothing waits
\* longer than the latency of a batch.
BufferedSafe == TypeInv /\ AckedIsStored /\ Contiguous /\ ReadBack /\ Prompt

\* The comment of AppendAsync: "If AppendAsync returns success then at some
\* point in the future the callback will be called".
Answered == Fairness => \A r \in Requests : (r \in sent) ~> (acks[r] # NoAck)
=============================================================================
