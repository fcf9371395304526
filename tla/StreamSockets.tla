--------------------------- MODULE StreamSockets ---------------------------
(***************************************************************************)
(* Streams multiplexed over connections (messages/stream.cc,               *)
(* socket_event.cc, event_loop.cc), from both ends: an event loop whose    *)
(* application opens streams to one destination, and the event loop that   *)
(* accepts its connections.  A connection is a SocketEvent at each end and *)
(* a FIFO of messages in each direction (see SocketTransfer); what is not  *)
(* written out when a socket closes is lost.  Destruction of sockets and   *)
(* inbound streams is deferred to tasks of the loop, and closing a socket  *)
(* runs the goodbye handlers of its streams one by one, which may open,    *)
(* write to and close other streams in between.                            *)
(***************************************************************************)
EXTENDS Integers, Sequences, FiniteSets, SequencesExt

CONSTANTS MaxStreams, MaxConnections,  \* bounds on what the client opens
          MaxInbound,       \* bound on the streams the server accepts
          MaxQueue,         \* bound on the messages under way
          MaxFailures,      \* bound on connections that break
          KeepAlive,        \* connection_without_streams_keepalive is set
          ServerGoodbyes,   \* the server closes streams of its own accord
          ShutsDown         \* the client's loop may be stopped

Streams == 1 .. MaxStreams
Connections == 1 .. MaxConnections
None == 0

VARIABLES
  \* The client's loop.
  opened,      \* streams opened so far; the allocator counts up
  socketOf,    \* socket_event_ of a stream, None once it is closed
  held,        \* streams the application has not destroyed
  told,        \* goodbyes given to the receiver of a stream
  routes,      \* remote_id_to_stream_ of the client's sockets: connection and stream
  connected,   \* connections opened so far
  client,      \* state of the client's SocketEvents
  current,     \* outbound_connections_ for the destination
  connecting,  \* connect_timeout_
  closing,     \* the socket whose Close loop runs, and the reason
  tasks,       \* scheduled_tasks_: sockets to be destroyed
  stopped,     \* the loop has stopped and closes what it owns
  \* The server's loop.
  server,      \* state of the server's SocketEvents
  inbound,     \* streams the server has created
  serverRoutes,  \* remote_id_to_stream_ of the server's sockets: connection, wire id, stream
  serverClosing, serverTasks,
  \* Between them.
  up, down,    \* messages under way on every connection
  failures,
  crashed      \* a null socket_event_ was dereferenced

streams == <<opened, socketOf, held, told, routes>>
sockets == <<connected, client, current, connecting, closing, tasks, stopped>>
serverVars == <<server, inbound, serverRoutes, serverClosing, serverTasks>>
vars == <<streams, sockets, serverVars, up, down, failures, crashed>>

Idle == [socket |-> None, reason |-> "none"]

Init ==
  /\ opened = 0 /\ held = {} /\ routes = {}
  /\ socketOf = [s \in Streams |-> None] /\ told = [s \in Streams |-> 0]
  /\ connected = 0 /\ current = None /\ connecting = {} /\ closing = Idle /\ tasks = <<>> /\ stopped = FALSE
  /\ client = [c \in Connections |-> "none"] /\ server = [c \in Connections |-> "none"]
  /\ inbound = <<>> /\ serverRoutes = {} /\ serverClosing = Idle /\ serverTasks = <<>>
  /\ up = [c \in Connections |-> <<>>] /\ down = [c \in Connections |-> <<>>]
  /\ failures = 0 /\ crashed = FALSE

On(c, table) == {r \in table : r[1] = c}

(***************************************************************************)
(* SocketEvent::Close at the client, up to its loop over the streams; the  *)
(* routes are those left by the caller.  The send queue goes down with the *)
(* socket: a part of it may have been written out.                         *)
(***************************************************************************)
Close(c, reason, left) ==
  IF client[c] # "open"
    THEN UNCHANGED <<client, current, connecting, closing, tasks>>
    ELSE /\ client' = [client EXCEPT ![c] = "closing"]
         /\ current' = None
         /\ connecting' = connecting \ {c}
         /\ closing' = IF On(c, left) = {} THEN closing ELSE [socket |-> c, reason |-> reason]
         /\ tasks' = Append(tasks, c)

Flushed(queue, state) == IF state = "open" THEN {queue} ELSE {SubSeq(queue, 1, n) : n \in 0 .. Len(queue)}
Flush(c, queue) == \E sent \in Flushed(queue, client'[c]) : up' = [up EXCEPT ![c] = sent]

\* UnregisterStream when it is not forced: the last stream takes the
\* connection with it unless connections are kept alive.
Unregister(c, s) ==
  /\ routes' = routes \ {<<c, s>>}
  /\ IF On(c, routes') = {} /\ ~KeepAlive
       THEN Close(c, "graceful", routes')
       ELSE UNCHANGED <<client, current, connecting, closing, tasks>>

(***************************************************************************)
(* What the client's application does, in handlers as well.                *)
(***************************************************************************)

\* EventLoop::OpenStream over the connection there is.
OpenStream ==
  /\ ~stopped /\ opened < MaxStreams /\ current # None
  /\ opened' = opened + 1
  /\ socketOf' = [socketOf EXCEPT ![opened'] = current]
  /\ held' = held \cup {opened'}
  /\ routes' = routes \cup {<<current, opened'>>}
  /\ UNCHANGED <<told, sockets, serverVars, up, down, failures, crashed>>

\* EventLoop::OpenStream with OpenSocketEvent.
OpenConnection ==
  /\ ~stopped /\ opened < MaxStreams /\ current = None /\ connected < MaxConnections
  /\ connected' = connected + 1
  /\ client' = [client EXCEPT ![connected'] = "open"]
  /\ current' = connected' /\ connecting' = connecting \cup {connected'}
  /\ opened' = opened + 1
  /\ socketOf' = [socketOf EXCEPT ![opened'] = connected']
  /\ held' = held \cup {opened'}
  /\ routes' = routes \cup {<<connected', opened'>>}
  /\ UNCHANGED <<told, closing, tasks, stopped, serverVars, up, down, failures, crashed>>

Message(s) == [stream |-> s, kind |-> "message"]
Goodbye(s) == [stream |-> s, kind |-> "goodbye"]

\* Stream::Write of a message; a closing socket takes it and drops it.
Write(s) ==
  LET c == socketOf[s] IN
  /\ ~stopped /\ s \in held /\ c # None
  /\ client[c] = "open" => Len(up[c]) < MaxQueue
  /\ up' = IF client[c] = "open" THEN [up EXCEPT ![c] = Append(@, Message(s))] ELSE up
  /\ UNCHANGED <<streams, sockets, serverVars, down, failures, crashed>>

\* Stream::Write on a closed stream: the line that logs the drop asks the
\* socket the stream no longer has for its logger.
WriteClosed(s) ==
  /\ s \in held /\ socketOf[s] = None
  /\ crashed' = TRUE
  /\ UNCHANGED <<streams, sockets, serverVars, up, down, failures>>

\* ~Stream of an open stream, or its owner's goodbye and then ~Stream.
WriteGoodbye(s) ==
  LET c == socketOf[s] IN
  /\ ~stopped /\ s \in held /\ c # None
  /\ client[c] = "open" => Len(up[c]) < MaxQueue
  /\ Unregister(c, s)
  /\ socketOf' = [socketOf EXCEPT ![s] = None] /\ held' = held \ {s}
  /\ IF client[c] = "open" THEN Flush(c, Append(up[c], Goodbye(s))) ELSE up' = up
  /\ UNCHANGED <<opened, told, connected, stopped, serverVars, down, failures, crashed>>

\* ~Stream of a stream that is closed.
Destroy(s) ==
  /\ s \in held /\ socketOf[s] = None
  /\ held' = held \ {s}
  /\ UNCHANGED <<opened, socketOf, told, routes, sockets, serverVars, up, down, failures, crashed>>

(***************************************************************************)
(* Events of the client's loop; none while a Close loop runs.              *)
(***************************************************************************)

\* SocketEvent::Receive, outbound: unknown streams are dropped.
Receive(c) ==
  /\ ~stopped /\ closing = Idle /\ client[c] = "open" /\ down[c] # <<>>
  /\ down' = [down EXCEPT ![c] = Tail(@)]
  /\ LET m == Head(down[c]) IN
     IF m.kind = "goodbye" /\ <<c, m.stream>> \in routes
       THEN /\ Unregister(c, m.stream)
            /\ socketOf' = [socketOf EXCEPT ![m.stream] = None]
            /\ told' = [told EXCEPT ![m.stream] = @ + 1]
       ELSE UNCHANGED <<routes, client, current, connecting, closing, tasks, socketOf, told>>
  /\ Flush(c, up[c])
  /\ UNCHANGED <<opened, held, connected, stopped, serverVars, failures, crashed>>

\* Events that close a socket: an error or end of file, a connect after which
\* nothing could be (or was) written for too long, a connection long without streams, and the end of the loop.
CloseSocket(c, reason) ==
  /\ closing = Idle /\ client[c] = "open"
  /\ Close(c, reason, routes)
  /\ Flush(c, up[c])
  /\ UNCHANGED <<streams, connected, serverVars, down, crashed>>

Failing(peer) == IF peer = "destroyed" THEN failures' = failures
                 ELSE failures < MaxFailures /\ failures' = failures + 1

Fail(c) == ~stopped /\ Failing(server[c]) /\ CloseSocket(c, "error") /\ UNCHANGED stopped

ConnectTimeout(c) ==
  /\ ~stopped /\ c \in connecting
  /\ CloseSocket(c, "error")
  /\ UNCHANGED <<stopped, failures>>

\* IsWithoutStreamsForLongerThan; any time may have passed.
IsWithoutStreams(c) == client[c] = "open" /\ On(c, routes) = {}

CollectIdle(c) ==
  /\ ~stopped /\ KeepAlive /\ IsWithoutStreams(c)
  /\ CloseSocket(c, "graceful")
  /\ UNCHANGED <<stopped, failures>>

CloseAllSocketEvents(c) ==
  /\ ShutsDown /\ stopped' = TRUE
  /\ CloseSocket(c, "graceful")
  /\ UNCHANGED failures

\* The first WriteCallback cancels the connect timeout.
MarkConnected(c) ==
  /\ closing = Idle /\ client[c] = "open" /\ up[c] # <<>>
  /\ connecting' = connecting \ {c}
  /\ UNCHANGED <<streams, connected, client, current, closing, tasks, stopped, serverVars, up, down,
                 failures, crashed>>

\* The loop of Close takes one of the streams: a goodbye as if from the remote
\* host, or silence if the closure is graceful.
CloseStep(s) ==
  LET c == closing.socket IN
  /\ <<c, s>> \in routes
  /\ routes' = routes \ {<<c, s>>}
  /\ socketOf' = [socketOf EXCEPT ![s] = None]
  /\ told' = IF closing.reason = "graceful" THEN told ELSE [told EXCEPT ![s] = @ + 1]
  /\ UNCHANGED <<opened, held, sockets, serverVars, up, down, failures, crashed>>

CloseDone ==
  /\ closing # Idle /\ On(closing.socket, routes) = {}
  /\ closing' = Idle
  /\ UNCHANGED <<streams, connected, client, current, connecting, tasks, stopped, serverVars, up, down,
                 failures, crashed>>

\* ExecuteTasks: ~SocketEvent closes the file descriptor.
RunTask ==
  /\ closing = Idle /\ tasks # <<>>
  /\ client' = [client EXCEPT ![Head(tasks)] = "destroyed"]
  /\ tasks' = Tail(tasks)
  /\ UNCHANGED <<streams, connected, current, connecting, closing, stopped, serverVars, up, down,
                 failures, crashed>>

ClientNext ==
  \/ OpenStream \/ OpenConnection \/ CloseDone \/ RunTask
  \/ \E s \in Streams : Write(s) \/ WriteClosed(s) \/ WriteGoodbye(s) \/ Destroy(s) \/ CloseStep(s)
  \/ \E c \in Connections : \/ Receive(c) \/ Fail(c) \/ ConnectTimeout(c) \/ CollectIdle(c)
                            \/ CloseAllSocketEvents(c) \/ MarkConnected(c)

(***************************************************************************)
(* The server's loop.                                                      *)
(***************************************************************************)
clientVars == <<streams, sockets, crashed>>

ServerFlush(c, queue) == \E sent \in Flushed(queue, server'[c]) : down' = [down EXCEPT ![c] = sent]

Accept(c) ==
  /\ serverClosing = Idle /\ server[c] = "none" /\ client[c] # "none"
  /\ server' = [server EXCEPT ![c] = "open"]
  /\ UNCHANGED <<clientVars, inbound, serverRoutes, serverClosing, serverTasks, up, down, failures>>

\* UnregisterStream: the socket hands its stream over to a deferred deleter.
ServerUnregister(l) ==
  /\ serverRoutes' = {r \in serverRoutes : r[3] # l}
  /\ inbound' = [inbound EXCEPT ![l].open = FALSE]
  /\ serverTasks' = Append(serverTasks, [kind |-> "stream", of |-> l])

\* SocketEvent::Receive, inbound: a message on an unknown stream opens it.
\* Nothing arrives before the client's first WriteCallback.
ServerReceive(c) ==
  /\ serverClosing = Idle /\ server[c] = "open" /\ up[c] # <<>> /\ c \notin connecting
  /\ up' = [up EXCEPT ![c] = Tail(@)]
  /\ LET m == Head(up[c])
         found == {r \in serverRoutes : r[1] = c /\ r[2] = m.stream}
     IN  \/ /\ m.kind = "goodbye" /\ found # {}
            /\ \A r \in found : ServerUnregister(r[3])
         \/ /\ m.kind = "message" /\ found = {}
            /\ Len(inbound) < MaxInbound
            /\ inbound' = Append(inbound, [socket |-> c, id |-> m.stream, open |-> TRUE, ended |-> FALSE])
            /\ serverRoutes' = serverRoutes \cup {<<c, m.stream, Len(inbound')>>}
            /\ UNCHANGED serverTasks
         \/ /\ m.kind = "goodbye" <=> found = {}
            /\ UNCHANGED <<inbound, serverRoutes, serverTasks>>
  /\ UNCHANGED <<clientVars, server, serverClosing, down, failures>>

\* A stream of the server writes.
ServerWrite(l) ==
  LET c == inbound[l].socket IN
  /\ inbound[l].open
  /\ server[c] = "open" => Len(down[c]) < MaxQueue
  /\ down' = IF server[c] = "open" THEN [down EXCEPT ![c] = Append(@, Message(inbound[l].id))] ELSE down
  /\ UNCHANGED <<clientVars, serverVars, up, failures>>

\* Mutant: the goodbye is not sent.
ServerGoodbyeSilent(l) ==
  /\ ServerGoodbyes /\ inbound[l].open
  /\ ServerUnregister(l)
  /\ UNCHANGED <<clientVars, server, serverClosing, up, down, failures>>

ServerGoodbye(l) ==
  LET c == inbound[l].socket IN
  /\ ServerGoodbyes /\ inbound[l].open
  /\ server[c] = "open" => Len(down[c]) < MaxQueue
  /\ ServerUnregister(l)
  /\ down' = IF server[c] = "open" THEN [down EXCEPT ![c] = Append(@, Goodbye(inbound[l].id))] ELSE down
  /\ UNCHANGED <<clientVars, server, serverClosing, up, failures>>

\* SocketEvent::Close for an error.
ServerFail(c) ==
  /\ serverClosing = Idle /\ server[c] = "open"
  /\ Failing(client[c])
  /\ server' = [server EXCEPT ![c] = "closing"]
  /\ serverTasks' = Append(serverTasks, [kind |-> "socket", of |-> c])
  /\ serverClosing' = [socket |-> c, reason |-> "error"]
  /\ ServerFlush(c, down[c])
  /\ UNCHANGED <<clientVars, inbound, serverRoutes, up>>

ServerCloseStep(l) ==
  /\ \E r \in On(serverClosing.socket, serverRoutes) : r[3] = l
  /\ ServerUnregister(l)
  /\ UNCHANGED <<clientVars, server, serverClosing, up, down, failures>>

ServerCloseDone ==
  /\ serverClosing # Idle /\ On(serverClosing.socket, serverRoutes) = {}
  /\ serverClosing' = Idle
  /\ UNCHANGED <<clientVars, server, inbound, serverRoutes, serverTasks, up, down, failures>>

ServerRunTask ==
  /\ serverClosing = Idle /\ serverTasks # <<>>
  /\ LET task == Head(serverTasks) IN
     IF task.kind = "socket" THEN /\ server' = [server EXCEPT ![task.of] = "destroyed"]
                                  /\ UNCHANGED inbound
                             ELSE /\ inbound' = [inbound EXCEPT ![task.of].ended = TRUE]
                                  /\ UNCHANGED server
  /\ serverTasks' = Tail(serverTasks)
  /\ UNCHANGED <<clientVars, serverRoutes, serverClosing, up, down, failures>>

ServerNext ==
  \/ ServerCloseDone \/ ServerRunTask
  \/ \E c \in Connections : Accept(c) \/ ServerReceive(c) \/ ServerFail(c)
  \/ \E l \in 1 .. Len(inbound) : ServerWrite(l) \/ ServerGoodbye(l) \/ ServerCloseStep(l)

Next == ~crashed /\ (ClientNext \/ ServerNext)

Spec == Init /\ [][Next]_vars

\* Both loops keep running: what is received is read, the end of a connection
\* is noticed, Close loops end and deferred destructions happen.
Fairness ==
  /\ WF_vars(~crashed /\ (RunTask \/ CloseDone \/ \E s \in Streams : CloseStep(s)))
  /\ WF_vars(~crashed /\ (ServerRunTask \/ ServerCloseDone \/ \E l \in 1 .. Len(inbound) : ServerCloseStep(l)))
  /\ \A c \in Connections :
       /\ WF_vars(~crashed /\ MarkConnected(c))
       /\ SF_vars(~crashed /\ ServerReceive(c))
       /\ SF_vars(~crashed /\ client[c] = "destroyed" /\ ServerFail(c))

(***************************************************************************)
(* Properties.                                                             *)
(***************************************************************************)
States == {"none", "open", "closing", "destroyed"}

\* Streams and sockets are those allocated; queues keep to their bound.
TypeInv ==
  /\ opened \in 0 .. MaxStreams /\ connected \in 0 .. MaxConnections
  /\ socketOf \in [Streams -> 0 .. connected] /\ held \subseteq 1 .. opened
  /\ routes \subseteq (1 .. connected) \X (1 .. opened)
  /\ client \in [Connections -> States] /\ server \in [Connections -> States]
  /\ current \in 0 .. connected /\ connecting \subseteq 1 .. connected
  /\ \A l \in 1 .. Len(inbound) : inbound[l].id \in 1 .. opened /\ inbound[l].socket \in 1 .. connected
  /\ \A c \in Connections : Len(up[c]) <= MaxQueue + 1 /\ Len(down[c]) <= MaxQueue

\* A socket routes to exactly the streams that point back to it, at both ends
\* and also half way through Close: no message goes to a closed stream and no
\* open one is cut off.
RoutesMatch ==
  /\ routes = {<<socketOf[s], s>> : s \in {t \in Streams : socketOf[t] # None}}
  /\ serverRoutes = {<<inbound[l].socket, inbound[l].id, l>> : l \in {k \in 1 .. Len(inbound) : inbound[k].open}}

\* A destroyed socket has no stream left (the assertions of ~SocketEvent), and
\* a stream is closed before its deferred destruction, although the task that
\* destroys the socket is scheduled first.
NoStaleSocket ==
  /\ \A s \in Streams : socketOf[s] # None => client[socketOf[s]] \in {"open", "closing"}
  /\ \A l \in 1 .. Len(inbound) : inbound[l].open => server[inbound[l].socket] \in {"open", "closing"}
  /\ \A l \in 1 .. Len(inbound) : inbound[l].ended => ~inbound[l].open

\* The destination has one open connection at most and it is the cached one, so
\* OpenStream never finds a closing socket and CloseFromSocketEvent always has
\* one entry to remove; only open sockets can time out.
OneConnection ==
  /\ \A c \in Connections : client[c] = "open" <=> current = c
  /\ connecting \subseteq {current}

\* The receiver of a stream is told of its end once at most, and it is closed.
ToldOnce == \A s \in Streams : told[s] <= 1 /\ (told[s] = 1 => socketOf[s] = None)

\* SocketEvent::Close: "every local stream will receive a goodbye message".  A
\* stream its owner still holds is open, or its receiver was told.
EveryStreamTold == \A s \in held : socketOf[s] = None => told[s] = 1

\* A stream the server has closed is closed at the client too, or a goodbye is
\* on its way, or the connection is ending.
ClosureReachesClient ==
  \A l \in 1 .. Len(inbound) :
    LET c == inbound[l].socket
        s == inbound[l].id
    IN  ~inbound[l].open /\ socketOf[s] = c /\ client[c] = "open" /\ server[c] = "open"
          => \E i \in 1 .. Len(down[c]) : down[c][i] = Goodbye(s)

\* A stream the client has closed is closed at the server too, or a goodbye is
\* on its way, or the connection is ending and its end will do.
ClosureReachesServer ==
  \A l \in 1 .. Len(inbound) :
    LET c == inbound[l].socket
        s == inbound[l].id
    IN  inbound[l].open /\ socketOf[s] # c /\ client[c] = "open" /\ server[c] = "open"
          => \E i \in 1 .. Len(up[c]) : up[c][i] = Goodbye(s)

\* What the two loops keep together.  A client whose loop is stopped tells nobody, and a
\* message that crosses the goodbye of the server opens its stream there again.
StreamsSafe ==
  /\ TypeInv /\ RoutesMatch /\ NoStaleSocket /\ OneConnection /\ ToldOnce /\ ClosureReachesClient
  /\ ~ShutsDown => EveryStreamTold
  /\ ~ServerGoodbyes => ClosureReachesServer

\* The server ends every stream whose client closed it, be it that the goodbye
\* arrives or that it was lost with the socket.
EventuallyEnded ==
  Fairness => \A l \in 1 .. MaxInbound :
    (l <= Len(inbound) /\ socketOf[inbound[l].id] # inbound[l].socket)
      ~> ((l <= Len(inbound) /\ inbound[l].ended) \/ crashed)
=============================================================================
