----------------------------- MODULE ClientFacade -----------------------------
(***************************************************************************)
(* The subscriptions API of the client (client.cc) over the threads of its *)
(* message loop: MultiThreadedSubscriber sends every call to the worker    *)
(* named in the handle, through the worker's metadata queue; saving the    *)
(* subscriptions travels through the bounded command queue of the caller,  *)
(* and stopping through the control queue.  Each worker keeps a            *)
(* MultiShardSubscriber, and the last worker to answer commits the         *)
(* snapshot of a FileStorage.                                              *)
(***************************************************************************)
EXTENDS Naturals, Sequences, FiniteSets, FiniteSetsExt

CONSTANTS
  W,           \* num_workers
  Shards,
  MaxSubs,     \* max_subscriptions
  QueueSize,   \* queue_size, the soft limit of a metadata queue
  CmdSize,     \* size of the command queue of the calling thread
  MaxHandles,  \* bound: subscribe calls
  MaxSaves,    \* bound: SaveSubscriptions calls
  MaxSeqno     \* bound: acknowledged sequence numbers

Workers == 0 .. W - 1
Handles == 1 .. MaxHandles
Saves == 1 .. MaxSaves
Positions == 0 .. MaxSeqno

VARIABLES
  issued,     \* handles allocated so far
  at,         \* per handle: [worker, shard], encoded in the handle
  meta,       \* per worker: the metadata queue
  cmds,       \* per worker: the caller's command queue, numbers of saves
  swap,       \* workers whose control queue holds the command of Stop
  shards,     \* per worker: subscribers_ of the MultiShardSubscriber
  live,       \* per worker: subscriptions with the last acknowledged number
  nulled,     \* workers that have a NullSubscriber
  observer,   \* per handle: "none", "user", "queued", "held", "gone"
  told,       \* per handle: notifications of termination
  unsubbed,   \* handles passed to Unsubscribe
  acked,      \* handles passed to Acknowledge
  save,       \* per save: [at, next, from, chunk, ok, answers, gone, live]
  file,       \* the committed file: [version, content]
  phase       \* "running", "stopping", "swapped", "stopped"

vars == <<issued, at, meta, cmds, swap, shards, live, nulled, observer, told, unsubbed, acked, save, file, phase>>
calls == <<issued, at, unsubbed, acked>>
worker == <<shards, live, nulled, observer, told>>
storage == <<save, file>>

NoSave == [at |-> "none", next |-> 0, from |-> {}, chunk |-> {}, ok |-> TRUE, answers |-> 0, gone |-> {}, live |-> {}]

Init ==
  /\ issued = 0 /\ at = [h \in Handles |-> [worker |-> 0, shard |-> 0]]
  /\ meta = [w \in Workers |-> <<>>] /\ cmds = [w \in Workers |-> <<>>] /\ swap = {}
  /\ shards = [w \in Workers |-> {}] /\ live = [w \in Workers |-> << >>] /\ nulled = {}
  /\ observer = [h \in Handles |-> "none"] /\ told = [h \in Handles |-> 0] /\ unsubbed = {} /\ acked = {}
  /\ save = [s \in Saves |-> NoSave] /\ file = [version |-> 0, content |-> {}] /\ phase = "running"

\* The limit of a worker: an equal share, and one more for the first ones.
Limit(w) == (MaxSubs \div W) + (IF w < MaxSubs % W THEN 1 ELSE 0)

Command(op, h, n) == [op |-> op, h |-> h, n |-> n]
TryWrite(w, cmd) == Len(meta[w]) < QueueSize /\ meta' = [meta EXCEPT ![w] = Append(@, cmd)]
Write(w, cmd) == meta' = [meta EXCEPT ![w] = Append(@, cmd)]

(***************************************************************************)
(* Calls of the application.                                               *)
(***************************************************************************)

\* The handle is allocated first; when the queue is full the observer goes back to the caller.
Subscribe(w, sh) ==
  /\ phase = "running" /\ issued < MaxHandles
  /\ issued' = issued + 1 /\ at' = [at EXCEPT ![issued + 1] = [worker |-> w, shard |-> sh]]
  /\ \/ /\ TryWrite(w, Command("subscribe", issued + 1, 0))
        /\ observer' = [observer EXCEPT ![issued + 1] = "queued"]
     \/ /\ Len(meta[w]) >= QueueSize /\ observer' = [observer EXCEPT ![issued + 1] = "user"]
        /\ UNCHANGED meta
  /\ UNCHANGED <<cmds, swap, shards, live, nulled, told, unsubbed, acked, storage, phase>>

Valid(h) == h <= issued /\ observer[h] # "user"

Unsubscribe(h) ==
  /\ phase = "running" /\ Valid(h) /\ h \notin unsubbed
  /\ Write(at[h].worker, Command("unsubscribe", h, 0)) /\ unsubbed' = unsubbed \cup {h}
  /\ UNCHANGED <<issued, at, acked, cmds, swap, worker, storage, phase>>

Acknowledge(h, n) ==
  /\ phase = "running" /\ Valid(h) /\ h \notin acked
  /\ TryWrite(at[h].worker, Command("acknowledge", h, n)) /\ acked' = acked \cup {h}
  /\ UNCHANGED <<issued, at, unsubbed, cmds, swap, worker, storage, phase>>

Live(w) == DOMAIN live[w]
AllLive == UNION {Live(w) : w \in Workers}
Answer(s, r) == [r EXCEPT !.at = "answered", !.answers = @ + 1]

\* SaveSubscriptions: a temporary file, then a command for each worker in turn.
SaveSubscriptions(s) ==
  /\ phase = "running" /\ save[s].at = "none" /\ \A t \in Saves : t < s => save[t].at \notin {"none", "send"}
  /\ \/ save' = [save EXCEPT ![s] = [@ EXCEPT !.at = "send", !.live = AllLive,
                                              !.gone = {h \in 1 .. issued : observer[h] = "gone"}]]
     \/ save' = [save EXCEPT ![s] = Answer(s, @)]
  /\ UNCHANGED <<calls, meta, cmds, swap, worker, file, phase>>

\* Gather: a full command queue ends it; the workers that got the command still execute it.
GatherStep(s) ==
  /\ save[s].at = "send"
  /\ LET w == save[s].next
     IN \/ /\ Len(cmds[w]) < CmdSize /\ cmds' = [cmds EXCEPT ![w] = Append(@, s)]
           /\ save' = [save EXCEPT ![s].next = w + 1, ![s].at = IF w = W - 1 THEN "wait" ELSE "send"]
        \/ Len(cmds[w]) >= CmdSize /\ save' = [save EXCEPT ![s] = Answer(s, @)] /\ UNCHANGED cmds
  /\ UNCHANGED <<calls, meta, swap, worker, file, phase>>

(***************************************************************************)
(* The workers.                                                            *)
(***************************************************************************)

Without(w, h) == [x \in Live(w) \ {h} |-> live[w][x]]
InShard(w, sh, hs) == {h \in hs : at[h].shard = sh}

\* The shard's subscriber is made before it refuses a subscription over the limit.
StartSubscription(w, h) ==
  \/ /\ w \in nulled /\ observer' = [observer EXCEPT ![h] = "gone"]
     /\ UNCHANGED <<shards, live, nulled, told>>
  \/ /\ w \notin nulled /\ Cardinality(Live(w)) < Limit(w)
     /\ shards' = [shards EXCEPT ![w] = @ \cup {at[h].shard}]
     /\ live' = [live EXCEPT ![w] = [x \in Live(w) \cup {h} |-> IF x = h THEN 0 ELSE live[w][x]]]
     /\ observer' = [observer EXCEPT ![h] = "held"] /\ UNCHANGED <<nulled, told>>
  \/ /\ w \notin nulled /\ Cardinality(Live(w)) >= Limit(w)
     /\ shards' = [shards EXCEPT ![w] = @ \cup {at[h].shard}]
     /\ observer' = [observer EXCEPT ![h] = "gone"] /\ told' = [told EXCEPT ![h] = @ + 1]
     /\ UNCHANGED <<live, nulled>>

End(w, h) ==
  /\ live' = [live EXCEPT ![w] = Without(w, h)]
  /\ observer' = [observer EXCEPT ![h] = "gone"] /\ told' = [told EXCEPT ![h] = @ + 1]

\* A subscriber that serves nothing any more is destroyed with its shard's entry.
TerminateSubscription(w, h) ==
  /\ IF h \in Live(w) THEN End(w, h) ELSE UNCHANGED <<live, observer, told>>
  /\ LET left == InShard(w, at[h].shard, Live(w) \ {h})
     IN shards' = IF w \notin nulled /\ left = {} THEN [shards EXCEPT ![w] = @ \ {at[h].shard}] ELSE shards
  /\ UNCHANGED nulled

AcknowledgeIn(w, h, n) ==
  /\ live' = IF h \in Live(w) THEN [live EXCEPT ![w][h] = n] ELSE live
  /\ UNCHANGED <<shards, nulled, observer, told>>

Looping == phase \in {"running", "stopping", "swapped"}

Execute(w) ==
  /\ Looping /\ meta[w] # <<>> /\ meta' = [meta EXCEPT ![w] = Tail(@)]
  /\ LET cmd == Head(meta[w])
     IN \/ cmd.op = "subscribe" /\ StartSubscription(w, cmd.h)
        \/ cmd.op = "unsubscribe" /\ TerminateSubscription(w, cmd.h)
        \/ cmd.op = "acknowledge" /\ AcknowledgeIn(w, cmd.h, cmd.n)
  /\ UNCHANGED <<calls, cmds, swap, storage, phase>>

\* The server ends the subscription: its shard's subscriber stays.
ReceiveTerminate(w, h) ==
  /\ Looping /\ h \in Live(w) /\ End(w, h)
  /\ UNCHANGED <<calls, meta, cmds, swap, shards, nulled, storage, phase>>

\* What is saved is where the next subscribe should start; 0, the tail, without acknowledgement.
Next0(n) == IF n > 0 THEN n + 1 ELSE 0
SaveState(w) == {[h |-> h, start |-> Next0(live[w][h])] : h \in Live(w)}

\* Mutant: the snapshot is committed one worker early.
CompleteEarly(from) == Cardinality(from) >= W - 1
Complete(from) == Cardinality(from) = W

\* Commit writes the chunks to the temporary file and renames it; either may fail.
Commit(s, r) ==
  \/ /\ r.ok /\ file' = [version |-> s, content |-> r.chunk]
     /\ save' = [save EXCEPT ![s] = Answer(s, [r EXCEPT !.ok = TRUE])]
  \/ file' = file /\ save' = [save EXCEPT ![s] = Answer(s, [r EXCEPT !.ok = FALSE])]

ExecuteSave(w) ==
  /\ Looping /\ cmds[w] # <<>> /\ cmds' = [cmds EXCEPT ![w] = Tail(@)]
  /\ LET s == Head(cmds[w])
         r == [save[s] EXCEPT !.from = @ \cup {w}, !.chunk = @ \cup SaveState(w), !.ok = @ /\ w \notin nulled]
     IN \/ Complete(r.from) /\ Commit(s, r)
        \/ ~Complete(r.from) /\ save' = [save EXCEPT ![s] = r] /\ file' = file
  /\ UNCHANGED <<calls, meta, swap, worker, phase>>

(***************************************************************************)
(* Stop: replace every subscriber on its own thread, then stop the loops.  *)
(***************************************************************************)

Stop ==
  /\ phase = "running" /\ \A s \in Saves : save[s].at # "send"
  /\ phase' = "stopping" /\ swap' = Workers
  /\ UNCHANGED <<calls, meta, cmds, worker, storage>>

Replace(w) ==
  /\ w \in swap /\ swap' = swap \ {w}
  /\ nulled' = nulled \cup {w} /\ live' = [live EXCEPT ![w] = << >>] /\ shards' = [shards EXCEPT ![w] = {}]
  /\ observer' = [h \in Handles |-> IF h \in Live(w) THEN "gone" ELSE observer[h]]
  /\ phase' = IF swap = {w} THEN "swapped" ELSE phase
  /\ UNCHANGED <<calls, meta, cmds, told, storage>>

StopLoop ==
  /\ phase = "swapped" /\ phase' = "stopped"
  /\ UNCHANGED <<calls, meta, cmds, swap, worker, storage>>

Working(w) == Execute(w) \/ ExecuteSave(w) \/ Replace(w)
Next ==
  \/ \E w \in Workers, sh \in Shards : Subscribe(w, sh)
  \/ \E h \in Handles : Unsubscribe(h) \/ \E n \in 1 .. MaxSeqno : Acknowledge(h, n)
  \/ \E s \in Saves : SaveSubscriptions(s) \/ GatherStep(s)
  \/ \E w \in Workers : Working(w) \/ \E h \in Live(w) : ReceiveTerminate(w, h)
  \/ Stop \/ StopLoop
Spec == Init /\ [][Next]_vars

\* Type invariant: subscriptions and shards of the workers, bounded command queues.
TypeInv ==
  /\ issued \in 0 .. MaxHandles /\ phase \in {"running", "stopping", "swapped", "stopped"}
  /\ \A w \in Workers : Live(w) \subseteq Handles /\ shards[w] \subseteq Shards /\ Len(cmds[w]) <= CmdSize
  /\ observer \in [Handles -> {"none", "user", "queued", "held", "gone"}]

Pending(h) == \E w \in Workers : \E i \in DOMAIN meta[w] : meta[w][i].h = h

\* An Unsubscribe is never overtaken by its Subscribe, although one is written with Write and the
\* other with TryWrite: once the commands of a handle are executed nothing of it is left.
UnsubscribeWins == \A h \in unsubbed : Pending(h) \/ h \notin AllLive

\* Every observer is in one place: back with the caller exactly when the call returned 0, in the
\* queue, held by one subscriber, or destroyed; it hears of the end at most once and not before.
ObserverAccounted ==
  \A h \in Handles :
    /\ observer[h] = "held" <=> h \in AllLive
    /\ Cardinality({w \in Workers : h \in Live(w)}) <= 1
    /\ h \in AllLive => h \in Live(at[h].worker) /\ at[h].shard \in shards[at[h].worker]
    /\ observer[h] = "queued" <=> \E w \in Workers : \E i \in DOMAIN meta[w] : meta[w][i] = Command("subscribe", h, 0)
    /\ told[h] = 1 => observer[h] = "gone"
    /\ told[h] <= 1

\* The workers' limits never let more than max_subscriptions be active together.
WithinLimit == Cardinality(AllLive) <= MaxSubs

\* A save is answered at most once; the file is one whole snapshot, with the share of every
\* worker, and never an older one than it was: it holds each subscription that was active from
\* the call to SaveSubscriptions to the commit and none that had ended before the call.
SnapshotWhole ==
  /\ \A s \in Saves : save[s].answers <= 1
  /\ file.version # 0 =>
       LET r == save[file.version]  saved == {e.h : e \in file.content}
       IN /\ r.at = "answered" /\ r.from = Workers
          /\ saved \cap r.gone = {} /\ (r.live \cap AllLive) \subseteq saved
          /\ \A e \in file.content : e.start = 0 \/ e.h \in acked
  /\ \A s \in Saves : save[s].at = "answered" /\ save[s].from = Workers /\ save[s].ok => file.version >= s

\* After Stop no subscription is active, whatever was still queued.
NothingAfterStop == phase \in {"swapped", "stopped"} => AllLive = {}

\* What the threads of a client keep together for its application.
FacadeSafe == TypeInv /\ UnsubscribeWins /\ ObserverAccounted /\ WithinLimit /\ SnapshotWhole /\ NothingAfterStop

\* Stop returns, and a save that all workers were asked for is answered unless the client stops.
FacadeAnswers ==
  (\A w \in Workers : WF_vars(Execute(w)) /\ WF_vars(ExecuteSave(w)) /\ WF_vars(Replace(w)))
    /\ WF_vars(StopLoop) /\ (\A s \in Saves : WF_vars(GatherStep(s)))
  => /\ (phase = "stopping") ~> (phase = "stopped")
     /\ \A s \in Saves : (save[s].at # "none") ~> (save[s].at = "answered" \/ phase # "running")
=============================================================================
