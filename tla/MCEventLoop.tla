---------------------------- MODULE MCEventLoop ----------------------------
(***************************************************************************)
(* The machinery of event loops, for TLC: queues between two threads       *)
(* ("queue") and from many ("shared", "refused"), flow control ("flow"),   *)
(* triggers ("triggers"), and a message loop with the synchronous calls on *)
(* it ("calls") and with requests and accepted connections ("sockets").  A *)
(* behaviour is about one of the parts, the others rest in their initial   *)
(* state: TLC visits the sum of their state spaces and not the product.    *)
(***************************************************************************)
EXTENDS SPSCQueue, MPSCQueue, FlowControl, EventTriggers

CONSTANT Parts
VARIABLES part,
          worker, signalled, stopfd, runner, tids, owner, attached, created, control, sentTo,    \* MsgLoop
          call, context, strayed, socket, stream, requested, conn, conns, active

msgLoopVars == <<worker, signalled, stopfd, runner, tids, owner, attached, created, control, sentTo,
                 call, context, strayed, socket, stream, requested, conn, conns, active>>

Calls == INSTANCE MsgLoop WITH
  N <- 2, Callers <- {10}, Ops <- {"clients", "mapreduce", "request", "stats"}, QueueSize <- 1,
  Contexts <- {1, 2}, Fds <- {}, MaxSends <- 0, WaitsUntilRunning <- TRUE, MayStop <- TRUE,
  loop <- worker, queue <- sentTo, written <- requested, fd <- conn
Sockets == INSTANCE MsgLoop WITH
  N <- 2, Callers <- {10}, Ops <- {}, QueueSize <- 1,
  Contexts <- {}, Fds <- {1, 2}, MaxSends <- 2, WaitsUntilRunning <- TRUE, MayStop <- TRUE,
  loop <- worker, queue <- sentTo, written <- requested, fd <- conn

Init ==
  /\ part \in Parts /\ QueueInit /\ FlowInit /\ TriggersInit
  /\ MPSCInit /\ (refuses <=> part = "refused")
  /\ \/ part # "sockets" /\ Calls!Init
     \/ part = "sockets" /\ Sockets!Init

Next ==
  /\ UNCHANGED part
  /\ \/ part = "queue" /\ QueueNext /\ UNCHANGED <<flowVars, triggersVars, mpscVars, msgLoopVars>>
     \/ part = "flow" /\ FlowNext /\ UNCHANGED <<queueVars, triggersVars, mpscVars, msgLoopVars>>
     \/ part = "triggers" /\ TriggersNext /\ UNCHANGED <<queueVars, flowVars, mpscVars, msgLoopVars>>
     \/ part \in {"shared", "refused"} /\ MPSCNext /\ UNCHANGED <<queueVars, flowVars, triggersVars, msgLoopVars>>
     \/ part = "calls" /\ Calls!Next /\ UNCHANGED <<queueVars, flowVars, triggersVars, mpscVars>>
     \/ part = "sockets" /\ Sockets!Next /\ UNCHANGED <<queueVars, flowVars, triggersVars, mpscVars>>

Spec == Init /\ [][Next]_<<part, queueVars, flowVars, triggersVars, mpscVars, msgLoopVars>>

\* Requests across the threads of a message loop are answered once, by the right worker, and
\* sockets, streams and threads are not used after their end (MsgLoop; msg_loop.cc, event_loop.cc).
MsgLoopSafe ==
  /\ part = "calls" => Calls!MsgLoopSafe
  /\ part = "sockets" => Sockets!MsgLoopSafe

\* What the loop is given is done in the end: every item written to a queue is drained
\* (queues.h:337, unbounded_mpsc_queue.h TryRead), a source that backpressure stopped resumes
\* (flow_control.h), a notified callback is invoked (event_loop.cc HandlePendingTriggers), and
\* a synchronous call on a running message loop returns (msg_loop.cc Gather, MapReduceSync).
WorkGetsDone ==
  /\ AllDelivered /\ BlockedSourceResumes /\ EventuallyInvoked
  /\ MPSCDelivered
  /\ Calls!CallsReturn
=============================================================================
