------------------------------- MODULE MsgLoop -------------------------------
(***************************************************************************)
(* A MsgLoop (msg_loop.cc) and the life of its event loops                 *)
(* (event_loop.cc): worker threads are started and joined while other      *)
(* threads hand them commands through queues that are created, and         *)
(* attached to the loop, on first use.  On top of the commands stand the   *)
(* synchronous calls (Gather, MapReduceSync, WorkerRequestSync and the two *)
(* statistics calls), requests on a StreamSocket, and accepted             *)
(* connections.  Workers are 0 .. N - 1; worker 0 runs on the thread of    *)
(* MsgLoop::Run and owns the listener.                                     *)
(***************************************************************************)
EXTENDS Naturals, Sequences, FiniteSets, SequencesExt

CONSTANTS
  N,                  \* number of workers
  Callers,            \* other threads, numbers not below N
  Ops,                \* the calls they make
  QueueSize,          \* command_queue_size
  Contexts,           \* names for the shared contexts of calls
  Fds,                \* connections that may arrive
  MaxSends,           \* bound: requests on the StreamSocket of a caller
  WaitsUntilRunning,  \* does the owner stop the loop only after WaitUntilRunning?
  MayStop             \* is the loop stopped at all?

Workers == 0 .. N - 1
Main == 0                            \* the thread of worker 0
Producers == Callers \cup {Main}

VARIABLES
  loop,       \* per worker: "initialized", "starting" (in Run), "running", "stopped"
  signalled,  \* loops whose start_signal_ was posted
  stopfd,     \* loops whose shutdown_eventfd_ was written
  runner,     \* the thread of MsgLoop::Run: [at, next]
  tids,       \* worker_threads_
  owner,      \* the thread that owns the MsgLoopThread: [at, next, join]
  attached,   \* per worker: producers whose queue is in incoming_queues_
  created,    \* per worker: producers that have a thread local queue
  control,    \* per worker: control_command_queue_
  queue,      \* per worker and producer: the commands in the queue
  call,       \* per caller: [at, next, ctx], the call it is in
  context,    \* per context: [op, from, posted], whose results it holds
  strayed,    \* did a callback write to the stack of a call that has returned?
  socket,     \* per caller: [open, sent], its StreamSocket
  stream,     \* per caller: its stream in worker 0: "none", "open", "closed"
  written,    \* per caller: the requests written to the stream
  fd,         \* per connection: "new", "queued", "open", "closed"
  conns,      \* per worker: owned_connections_
  active      \* per worker: active_connections_

threads == <<loop, signalled, stopfd, runner, tids, owner>>
queues == <<attached, created, control, queue>>
sync == <<call, context, strayed>>
requests == <<socket, stream, written>>
connections == <<fd, conns, active>>
vars == <<threads, queues, sync, requests, connections>>

Idle == [at |-> "idle", next |-> 0, ctx |-> 0]
Freed == [op |-> "none", from |-> <<>>, posted |-> FALSE]
ByReference == {"clients", "stats"}   \* their callbacks refer to the caller's stack

Init ==
  /\ loop = [w \in Workers |-> "initialized"] /\ signalled = {} /\ stopfd = {}
  /\ runner = [at |-> "none", next |-> 1] /\ tids = {}
  /\ owner = [at |-> "new", next |-> 0, join |-> {}]
  /\ attached = [w \in Workers |-> {}] /\ created = [w \in Workers |-> {}]
  /\ control = [w \in Workers |-> <<>>]
  /\ queue = [w \in Workers |-> [p \in Producers |-> <<>>]]
  /\ call = [c \in Callers |-> Idle] /\ context = [g \in Contexts |-> Freed]
  /\ strayed = FALSE
  /\ socket = [c \in Callers |-> [open |-> FALSE, sent |-> 0]]
  /\ stream = [c \in Callers |-> "none"] /\ written = [c \in Callers |-> <<>>]
  /\ fd = [f \in Fds |-> "new"] /\ conns = [w \in Workers |-> {}] /\ active = [w \in Workers |-> 0]

Alive == owner.at # "destroyed"
Serving(w) == loop[w] \in {"starting", "running"}

(***************************************************************************)
(* Threads.                                                                *)
(***************************************************************************)

MsgLoopThread ==
  /\ owner.at = "new" /\ owner' = [owner EXCEPT !.at = "started"]
  /\ runner' = [runner EXCEPT !.at = "spawn"]
  /\ UNCHANGED <<loop, signalled, stopfd, tids, queues, sync, requests, connections>>

\* Run starts a thread per further worker and then records its id.
StartThread ==
  /\ runner.at = "spawn" /\ runner.next < N
  /\ loop' = [loop EXCEPT ![runner.next] = "starting"]
  /\ runner' = [runner EXCEPT !.at = "record"]
  /\ UNCHANGED <<signalled, stopfd, tids, owner, queues, sync, requests, connections>>

RecordThread ==
  /\ runner.at = "record"
  /\ tids' = tids \cup {runner.next} /\ runner' = [at |-> "spawn", next |-> runner.next + 1]
  /\ UNCHANGED <<loop, signalled, stopfd, owner, queues, sync, requests, connections>>

RunMain ==
  /\ runner.at = "spawn" /\ runner.next = N
  /\ loop' = [loop EXCEPT ![Main] = "starting"] /\ runner' = [runner EXCEPT !.at = "main"]
  /\ UNCHANGED <<signalled, stopfd, tids, owner, queues, sync, requests, connections>>

do_startevent(w) ==
  /\ loop[w] = "starting"
  /\ loop' = [loop EXCEPT ![w] = "running"] /\ signalled' = signalled \cup {w}
  /\ UNCHANGED <<stopfd, runner, tids, owner, queues, sync, requests, connections>>

\* The shutdown event breaks the loop; Run then drops the queues it reads and closes all
\* connections before it clears running_.
Shutdown(w) ==
  /\ Serving(w) /\ w \in stopfd
  /\ loop' = [loop EXCEPT ![w] = "stopped"]
  /\ runner' = IF w = Main THEN [runner EXCEPT !.at = "ended"] ELSE runner
  /\ attached' = [attached EXCEPT ![w] = {}]
  /\ fd' = [f \in Fds |-> IF f \in conns[w] THEN "closed" ELSE fd[f]]
  /\ conns' = [conns EXCEPT ![w] = {}] /\ active' = [active EXCEPT ![w] = 0]
  /\ stream' = IF w = Main THEN [c \in Callers |-> IF stream[c] = "open" THEN "closed" ELSE stream[c]] ELSE stream
  /\ UNCHANGED <<signalled, stopfd, tids, owner, created, control, queue, sync, socket, written>>

WaitUntilRunning ==
  /\ owner.at = "started" /\ WaitsUntilRunning
  /\ signalled = Workers /\ owner' = [owner EXCEPT !.at = "waited"]
  /\ UNCHANGED <<loop, signalled, stopfd, runner, tids, queues, sync, requests, connections>>

\* Mutant: the owner does not wait for the loops to run.
BeginStopAtOnce == owner.at \in {"started", "waited"}
BeginStop == IF WaitsUntilRunning THEN owner.at = "waited" ELSE owner.at = "started"

\* ~MsgLoopThread: Stop writes to every loop, then joins the threads it finds recorded ...
Stop ==
  /\ MayStop
  /\ \/ BeginStop /\ owner' = [owner EXCEPT !.at = "stop", !.next = 1] /\ stopfd' = stopfd \cup {0}
     \/ /\ owner.at = "stop" /\ owner.next < N
        /\ stopfd' = stopfd \cup {owner.next} /\ owner' = [owner EXCEPT !.next = @ + 1]
     \/ /\ owner.at = "stop" /\ owner.next = N
        /\ owner' = [owner EXCEPT !.at = "join", !.join = tids] /\ UNCHANGED stopfd
  /\ UNCHANGED <<loop, signalled, runner, tids, queues, sync, requests, connections>>

WaitForJoin ==
  /\ owner.at = "join"
  /\ \A w \in owner.join : loop[w] = "stopped"
  /\ tids' = {} /\ owner' = [owner EXCEPT !.at = "joinMain"]
  /\ UNCHANGED <<loop, signalled, stopfd, runner, queues, sync, requests, connections>>

\* ... then the thread of Run; what is still queued is destroyed with its queue, and an
\* AcceptCommand closes its connection.
Destroy ==
  /\ owner.at = "joinMain" /\ runner.at = "ended"
  /\ owner' = [owner EXCEPT !.at = "destroyed"]
  /\ fd' = [f \in Fds |-> IF fd[f] = "queued" THEN "closed" ELSE fd[f]]
  /\ UNCHANGED <<loop, signalled, stopfd, runner, tids, queues, sync, requests, conns, active>>

(***************************************************************************)
(* Commands.                                                               *)
(***************************************************************************)

Command(k, id, dest) == [kind |-> k, id |-> id, dest |-> dest]

\* GetThreadLocalQueue: the first command of a thread creates its queue, which the loop
\* reads once the control command that attaches it has been executed.
GetThreadLocalQueue(w, p) ==
  /\ created' = [created EXCEPT ![w] = @ \cup {p}]
  /\ control' = IF p \in created[w] THEN control
                ELSE [control EXCEPT ![w] = Append(@, Command("attach", p, FALSE))]

HasRoom(w, p) == Len(queue[w][p]) < QueueSize
SendCommand(w, p, cmd) ==
  /\ GetThreadLocalQueue(w, p) /\ UNCHANGED attached
  /\ queue' = IF HasRoom(w, p) THEN [queue EXCEPT ![w][p] = Append(@, cmd)] ELSE queue
SendControlCommand(w, cmd) ==
  /\ control' = [control EXCEPT ![w] = Append(@, cmd)] /\ UNCHANGED <<attached, created, queue>>

(***************************************************************************)
(* Synchronous calls.  A context is shared by the caller and the commands. *)
(***************************************************************************)

References(cmds, g) == Cardinality({i \in DOMAIN cmds : cmds[i].kind = "gather" /\ cmds[i].id = g})
QueuedFor(g) ==
  MapThenSumSet(LAMBDA w : References(control[w], g) + MapThenSumSet(LAMBDA p : References(queue[w][p], g), Callers),
                Workers)
InCall(g) == \E c \in Callers : call[c].at # "idle" /\ call[c].ctx = g
Free == {g \in Contexts : ~InCall(g) /\ QueuedFor(g) = 0}

\* make_shared of a context: one that nobody refers to.
Begin(c, op, w) ==
  /\ Free # {}
  /\ LET g == CHOOSE x \in Free : TRUE
     IN /\ call' = [call EXCEPT ![c] = [at |-> "send", next |-> w, ctx |-> g]]
        /\ context' = [context EXCEPT ![g] = [op |-> op, from |-> <<>>, posted |-> FALSE]]

Op(c) == context[call[c].ctx].op

Call(c, op, w) ==
  /\ Alive /\ call[c].at = "idle" /\ (op = "request" \/ w = 0)
  /\ Begin(c, op, w)
  /\ UNCHANGED <<threads, queues, strayed, requests, connections>>

\* When a queue is full GetNumClientsSync starts over with a new context ...
Retry(c) == Begin(c, "clients", 0)
\* ... and the other calls return the error.
GiveUp(c) ==
  /\ call' = [call EXCEPT ![c] = Idle]
  /\ context' = IF QueuedFor(call[c].ctx) = 0 THEN [context EXCEPT ![call[c].ctx] = Freed] ELSE context

Advance(c) ==
  /\ LET last == Op(c) = "request" \/ call[c].next = N - 1
     IN call' = [call EXCEPT ![c].at = IF last THEN "wait" ELSE "send", ![c].next = @ + 1]
  /\ UNCHANGED context

\* One turn of the loop in Gather or ReliableGather.
GatherStep(c) ==
  /\ Alive /\ call[c].at = "send"
  /\ LET w == call[c].next  cmd == Command("gather", call[c].ctx, FALSE)
     IN \/ Op(c) = "stats" /\ SendControlCommand(w, cmd) /\ Advance(c)
        \/ Op(c) # "stats" /\ HasRoom(w, c) /\ SendCommand(w, c, cmd) /\ Advance(c)
        \/ Op(c) = "clients" /\ ~HasRoom(w, c) /\ SendCommand(w, c, cmd) /\ Retry(c)
        \/ Op(c) \in {"mapreduce", "request"} /\ ~HasRoom(w, c) /\ SendCommand(w, c, cmd) /\ GiveUp(c)
  /\ UNCHANGED <<threads, strayed, requests, connections>>

\* The semaphore was posted: the result is read and the call returns.
Return(c) ==
  /\ call[c].at = "wait" /\ context[call[c].ctx].posted
  /\ GiveUp(c)
  /\ UNCHANGED <<threads, queues, strayed, requests, connections>>

\* TimedWait gave up; the commands stay in the queues.
Timeout(c) ==
  /\ call[c].at = "wait" /\ ~context[call[c].ctx].posted /\ Op(c) \notin ByReference
  /\ GiveUp(c)
  /\ UNCHANGED <<threads, queues, strayed, requests, connections>>

\* The worker's share of a call; the last one runs the callback.
Contribute(w, g) ==
  LET from == Append(context[g].from, w)
      done == context[g].op = "request" \/ Len(from) = N
  IN /\ context' = [context EXCEPT ![g] =
          IF InCall(g) \/ QueuedFor(g) > 1 THEN [@ EXCEPT !.from = from, !.posted = @ \/ done] ELSE Freed]
     /\ strayed' = (strayed \/ (done /\ context[g].op \in ByReference /\ ~InCall(g)))
     /\ UNCHANGED call

(***************************************************************************)
(* Requests on a StreamSocket, and accepted connections.                   *)
(***************************************************************************)

\* Only a request sent before the socket counts as open names the destination.
SendRequest(c) ==
  /\ Alive /\ call[c].at = "idle" /\ socket[c].sent < MaxSends
  /\ SendCommand(Main, c, Command("send", socket[c].sent + 1, ~socket[c].open))
  /\ socket' = IF HasRoom(Main, c) THEN [socket EXCEPT ![c] = [open |-> TRUE, sent |-> @.sent + 1]] ELSE socket
  /\ UNCHANGED <<threads, sync, stream, written, connections>>

\* HandleSendCommand; a stream that is gone is opened again for a destination only.
HandleSendCommand(c, cmd) ==
  \/ /\ stream[c] = "open" \/ cmd.dest
     /\ stream' = [stream EXCEPT ![c] = "open"] /\ written' = [written EXCEPT ![c] = Append(@, cmd.id)]
     /\ UNCHANGED socket
  \/ stream[c] # "open" /\ UNCHANGED requests

CloseStream(c) ==
  /\ Serving(Main) /\ stream[c] = "open" /\ stream' = [stream EXCEPT ![c] = "closed"]
  /\ UNCHANGED <<threads, queues, sync, socket, written, connections>>

\* GetPreferredShard: the less loaded of two, the second when they are equal.
Prefers(a, b) == IF active[a] < active[b] THEN a ELSE b
do_accept(f, a, b) ==
  /\ Serving(Main) /\ fd[f] = "new"
  /\ SendCommand(Prefers(a, b), Main, Command("accept", f, FALSE))
  /\ fd' = [fd EXCEPT ![f] = IF HasRoom(Prefers(a, b), Main) THEN "queued" ELSE "closed"]
  /\ UNCHANGED <<threads, sync, requests, conns, active>>

HandleAcceptCommand(w, f) ==
  \/ fd' = [fd EXCEPT ![f] = "open"] /\ conns' = [conns EXCEPT ![w] = @ \cup {f}] /\ UNCHANGED active
  \/ fd' = [fd EXCEPT ![f] = "closed"] /\ UNCHANGED <<conns, active>>

CloseConnection(w, f) ==
  /\ Serving(w) /\ f \in conns[w]
  /\ fd' = [fd EXCEPT ![f] = "closed"] /\ conns' = [conns EXCEPT ![w] = @ \ {f}]
  /\ active' = [active EXCEPT ![w] = Cardinality(conns[w] \ {f})]
  /\ UNCHANGED <<threads, queues, sync, requests>>

(***************************************************************************)
(* The loop.                                                               *)
(***************************************************************************)

Dispatch(w, p, cmd) ==
  \/ cmd.kind = "gather" /\ Contribute(w, cmd.id) /\ UNCHANGED <<requests, connections>>
  \/ cmd.kind = "send" /\ HandleSendCommand(p, cmd) /\ UNCHANGED <<sync, connections>>
  \/ cmd.kind = "accept" /\ HandleAcceptCommand(w, cmd.id) /\ UNCHANGED <<sync, requests>>

ReadQueue(w, p) ==
  /\ Serving(w) /\ p \in attached[w] /\ queue[w][p] # <<>>
  /\ queue' = [queue EXCEPT ![w][p] = Tail(@)] /\ UNCHANGED <<attached, created, control>>
  /\ Dispatch(w, p, Head(queue[w][p])) /\ UNCHANGED threads

AddIncomingQueue(w, p) == attached' = [attached EXCEPT ![w] = @ \cup {p}]

ReadControl(w) ==
  /\ Serving(w) /\ control[w] # <<>>
  /\ control' = [control EXCEPT ![w] = Tail(@)] /\ UNCHANGED <<created, queue>>
  /\ LET cmd == Head(control[w])
     IN \/ cmd.kind = "attach" /\ AddIncomingQueue(w, cmd.id) /\ UNCHANGED <<sync, requests, connections>>
        \/ /\ cmd.kind = "gather" /\ Contribute(w, cmd.id)
           /\ UNCHANGED <<attached, requests, connections>>
  /\ UNCHANGED threads

Work(w) == do_startevent(w) \/ ReadControl(w) \/ \E p \in Producers : ReadQueue(w, p)
Starting == MsgLoopThread \/ StartThread \/ RecordThread \/ RunMain
Stopping == WaitUntilRunning \/ Stop \/ WaitForJoin \/ Destroy
Calling(c) == GatherStep(c) \/ Return(c)
Next ==
  \/ Starting \/ Stopping
  \/ \E w \in Workers : Work(w) \/ Shutdown(w) \/ \E f \in Fds : CloseConnection(w, f)
  \/ \E c \in Callers : \/ Calling(c) \/ Timeout(c) \/ SendRequest(c) \/ CloseStream(c)
                        \/ \E op \in Ops, w \in Workers : Call(c, op, w)
  \/ \E f \in Fds, a, b \in Workers : do_accept(f, a, b)

Spec == Init /\ [][Next]_vars

\* Type invariant of the threads, their queues, the calls and the connections.
TypeInv ==
  /\ loop \in [Workers -> {"initialized", "starting", "running", "stopped"}]
  /\ signalled \subseteq Workers /\ stopfd \subseteq Workers /\ tids \subseteq Workers
  /\ attached \in [Workers -> SUBSET Producers] /\ created \in [Workers -> SUBSET Producers]
  /\ \A w \in Workers, p \in Producers : Len(queue[w][p]) <= QueueSize
  /\ fd \in [Fds -> {"new", "queued", "open", "closed"}] /\ conns \in [Workers -> SUBSET Fds]

\* When ~MsgLoopThread has returned no worker runs, so the MsgLoop may be freed.  Stop joins
\* only the threads that Run has recorded: that these are all of them rests on worker 0, which
\* WaitUntilRunning has seen running, being started last, on Run's own thread.
NobodyRunsAfterDestroy == owner.at = "destroyed" => \A w \in Workers : ~Serving(w)

\* A call that returns results has one of every worker (msg_loop.h Gather counts results and
\* never asks whose they are), none of them from an attempt that was abandoned.
ResultsComplete ==
  \A c \in Callers : call[c].at = "wait" /\ context[call[c].ctx].posted =>
    LET from == context[call[c].ctx].from
    IN IsInjective(from) /\ (Op(c) = "request" \/ ToSet(from) = Workers)
\* The callbacks of GetNumClientsSync and AggregateStatsSync write to the stack of the caller:
\* they never run after it returned, nor for an attempt it gave up.
NoStrayCallback == ~strayed

\* The requests that reach the stream of a StreamSocket are the first ones sent on it, in order
\* and without holes, however often the stream closes: nothing is sent behind a lost request.
NoHoles == \A c \in Callers : \A i \in DOMAIN written[c] : written[c][i] = i

\* A thread's queue is attached once, and a connection has one owner: a queue, a loop or nobody.
OneOwner ==
  /\ \A w \in Workers, p \in Producers :
       p \in created[w] /\ loop[w] # "stopped" /\ p \notin attached[w] =>
         \E i \in DOMAIN control[w] : control[w][i] = Command("attach", p, FALSE)
  /\ \A f \in Fds :
       /\ fd[f] = "open" <=> \E w \in Workers : f \in conns[w]
       /\ Cardinality({w \in Workers : f \in conns[w]}) <= 1
       /\ fd[f] = "queued" <=> Alive /\ \E w \in Workers : Command("accept", f, FALSE) \in ToSet(queue[w][Main])

\* What the threads of a message loop and their callers can rely on.
MsgLoopSafe == TypeInv /\ NobodyRunsAfterDestroy /\ ResultsComplete /\ NoStrayCallback /\ NoHoles /\ OneOwner

\* The loops, the threads in a call and the thread that stops the loop keep running.
Fair ==
  /\ WF_vars(Starting) /\ WF_vars(WaitUntilRunning) /\ WF_vars(Stop /\ owner.at = "stop")
  /\ WF_vars(WaitForJoin) /\ WF_vars(Destroy)
  /\ \A w \in Workers : WF_vars(Shutdown(w)) /\ WF_vars(do_startevent(w)) /\ WF_vars(ReadControl(w))
                        /\ \A p \in Producers : WF_vars(ReadQueue(w, p))
  /\ \A c \in Callers : WF_vars(Calling(c))

\* Every synchronous call returns as long as the loop is not stopped, also GetNumClientsSync,
\* which tries again until no queue is full; and stopping ends with every thread joined.
CallsReturn ==
  Fair => /\ \A c \in Callers : call[c].at # "idle" ~> (call[c].at = "idle" \/ stopfd # {})
          /\ (stopfd # {}) ~> (owner.at = "destroyed")
=============================================================================
