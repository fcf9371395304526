----------------------------- MODULE Heartbeats -----------------------------
(***************************************************************************)
(* The heartbeats of a connection (messages/event_loop.cc,                 *)
(* messages/socket_event.cc, util/timeout_list.h).  The loop of the server *)
(* puts every inbound stream into an ObservableSet twice per period; each  *)
(* is drained as a heartbeat written to its stream, which the socket only  *)
(* captures; once per period the socket sends the captured ids as one      *)
(* aggregated message.  The client keeps the streams it has heard of in a  *)
(* TimeoutList, and reports those that were silent for too long.           *)
(*                                                                         *)
(* Time is discrete.  A timer fires from its deadline on, at most Jitter   *)
(* late, and is then set again from the moment it fired; a message travels *)
(* at most Delay.  The loop of the server may hang and go on: its timers   *)
(* are then overdue.  The connection outlives its streams                  *)
(* (connection_without_streams_keepalive); StreamSockets has its end.      *)
(***************************************************************************)
EXTENDS Naturals, Sequences, SequencesExt

CONSTANTS Streams,      \* stream ids, allocated by the client
          Period,       \* heartbeat_period
          Timeout,      \* heartbeat_timeout
          CheckPeriod,  \* heartbeat_timeout / 10
          Uint32,       \* number of values of the ids in a heartbeat
          Jitter, Delay,
          MaxTime, MaxHangs \* bounds: the clock, hangs of the server

VARIABLES now,
          inbound,    \* server: stream_id_to_stream_
          toSend,     \* server: heartbeats_to_send_
          captured,   \* server: shard_heartbeats_received_
          sendAt, flushAt, \* server: deadlines of the two hb_timer_
          up,         \* the loop of the server runs
          hangs,      \* how often it hung
          wire,       \* aggregated heartbeats under way
          outbound,   \* client: remote_id_to_stream_
          opened,     \* streams opened so far
          list,       \* client: hb_timeout_list_, a sequence of [id, at]
          checkAt,    \* client: deadline of hb_timer_
          told,       \* what NotifyHealthy told of each stream last; "unheard" is "unhealthy" of a
                      \* stream that was never healthy
          gone, goneAt, \* streams that both ends closed, and when the server did
          since       \* when each stream was opened or last heard of

serverVars == <<inbound, toSend, captured, sendAt, flushAt, up, hangs, gone, goneAt>>
clientVars == <<outbound, opened, list, checkAt, told, since>>
goneVars == <<gone, goneAt>>
vars == <<now, serverVars, wire, clientVars>>

Init ==
  /\ now = 0
  /\ inbound = {} /\ toSend = {} /\ captured = {} /\ up = TRUE /\ hangs = 0
  /\ gone = {} /\ goneAt = [s \in Streams |-> 0]
  /\ sendAt = Period \div 2 /\ flushAt = Period
  /\ wire = <<>>
  /\ outbound = {} /\ opened = {} /\ list = <<>> /\ checkAt = CheckPeriod
  /\ told = [s \in Streams |-> "nothing"] /\ since = [s \in Streams |-> 0]

-----------------------------------------------------------------------------
(* TimeoutList *)

Without(l, id) == SelectSeq(l, LAMBDA e : e.id # id)

\* Mutant: an item that is in the list keeps its place.
AddInPlace(l, id) ==
  IF \E i \in DOMAIN l : l[i].id = id
  THEN [i \in DOMAIN l |-> IF l[i].id = id THEN [id |-> id, at |-> now] ELSE l[i]]
  ELSE Append(l, [id |-> id, at |-> now])

\* Add: with the time of now, at the back
Add(l, id) == Append(Without(l, id), [id |-> id, at |-> now])

\* The items ProcessExpired stops at.
Fresh(l) == {i \in DOMAIN l : now - l[i].at <= Timeout}

\* ProcessExpired takes items from the front, up to the first that is fresh.
NumExpired(l) ==
  IF Fresh(l) = {} THEN Len(l)
  ELSE (CHOOSE i \in Fresh(l) : \A j \in Fresh(l) : i <= j) - 1

-----------------------------------------------------------------------------
(* The server *)

SendPeriod == Period \div 2

\* The timer of the loop: every inbound stream is due a heartbeat.
SendHeartbeats ==
  /\ up /\ now >= sendAt
  /\ toSend' = toSend \cup inbound
  /\ sendAt' = now + SendPeriod
  /\ UNCHANGED <<now, inbound, captured, flushAt, up, hangs, wire, goneVars, clientVars>>

\* CaptureHeartbeat, by SocketEvent::Write: the ids of a heartbeat have 32 bits.
CaptureHeartbeat(s) == captured \cup {s % Uint32}

\* The drain of heartbeats_to_send_: nothing for a stream closed since.
Drain(s) ==
  /\ up /\ s \in toSend
  /\ toSend' = toSend \ {s}
  /\ captured' = IF s \in inbound THEN CaptureHeartbeat(s) ELSE captured
  /\ UNCHANGED <<now, inbound, sendAt, flushAt, up, hangs, wire, goneVars, clientVars>>

\* What the swap leaves in shard_heartbeats_received_.
CapturedAfter == {}

\* FlushCapturedHeartbeats: one message, an empty one too.
FlushCapturedHeartbeats ==
  /\ up /\ now >= flushAt
  /\ wire' = Append(wire, [ids |-> captured, at |-> now])
  /\ captured' = CapturedAfter
  /\ flushAt' = now + Period
  /\ UNCHANGED <<now, inbound, toSend, sendAt, up, hangs, goneVars, clientVars>>

\* The first message of a stream arrives (Receive, AddInboundStream).
Arrive(s) ==
  /\ up /\ s \in outbound \ inbound
  /\ inbound' = inbound \cup {s}
  /\ UNCHANGED <<now, toSend, captured, sendAt, flushAt, up, hangs, wire, goneVars, clientVars>>

\* The goodbye of a stream arrives (UnregisterStream, CloseFromSocketEvent).
Goodbye(s) ==
  /\ up /\ s \in inbound \ outbound
  /\ inbound' = inbound \ {s} /\ toSend' = toSend \ {s}
  /\ gone' = gone \cup {s} /\ goneAt' = [goneAt EXCEPT ![s] = now]
  /\ UNCHANGED <<now, captured, sendAt, flushAt, up, hangs, wire, clientVars>>

Hang ==
  /\ up /\ hangs < MaxHangs
  /\ up' = FALSE /\ hangs' = hangs + 1
  /\ UNCHANGED <<now, inbound, toSend, captured, sendAt, flushAt, wire, goneVars, clientVars>>

Resume ==
  /\ ~up /\ up' = TRUE
  /\ UNCHANGED <<now, inbound, toSend, captured, sendAt, flushAt, hangs, wire, goneVars, clientVars>>

-----------------------------------------------------------------------------
(* The client *)

\* SocketEvent::OpenStream: the time a stream may be silent starts at once.
OpenStream(s) ==
  /\ s \in Streams \ opened
  /\ opened' = opened \cup {s} /\ outbound' = outbound \cup {s}
  /\ list' = Add(list, s) /\ since' = [since EXCEPT ![s] = now]
  /\ UNCHANGED <<now, serverVars, wire, checkAt, told>>

\* UnregisterStream: the item of the stream stays in hb_timeout_list_.
CloseStream(s) ==
  /\ s \in outbound /\ outbound' = outbound \ {s}
  /\ UNCHANGED <<now, serverVars, wire, opened, list, checkAt, told, since>>

\* DeliverAggregatedHeartbeat: ids of closed streams enter the list too.
DeliverAggregatedHeartbeat ==
  /\ wire # <<>>
  /\ \E order \in SetToSeqs(Head(wire).ids) : list' = FoldLeft(Add, list, order)
  /\ told' = [s \in Streams |-> IF s \in Head(wire).ids \cap outbound THEN "healthy" ELSE told[s]]
  /\ since' = [s \in Streams |-> IF s \in Head(wire).ids THEN now ELSE since[s]]
  /\ wire' = Tail(wire)
  /\ UNCHANGED <<now, serverVars, outbound, opened, checkAt>>

\* What NotifyHealthy(false) makes of what was told before.
Alarm(t) == IF t = "healthy" THEN "unhealthy" ELSE IF t = "nothing" THEN "unheard" ELSE t

\* CheckHeartbeats: the expired ids of streams that are open are reported.
CheckHeartbeats ==
  LET n == NumExpired(list)
      expired == {list[i].id : i \in 1..n}
  IN /\ now >= checkAt
     /\ list' = SubSeq(list, n + 1, Len(list))
     /\ told' = [s \in Streams |-> IF s \in expired \cap outbound THEN Alarm(told[s]) ELSE told[s]]
     /\ checkAt' = now + CheckPeriod
     /\ UNCHANGED <<now, serverVars, wire, outbound, opened, since>>

-----------------------------------------------------------------------------
\* Time passes while nothing that is due is late.
Tick ==
  /\ now < MaxTime
  /\ up => now < sendAt + Jitter /\ now < flushAt + Jitter /\ toSend = {}
  /\ now < checkAt + Jitter
  /\ wire # <<>> => now < Head(wire).at + Delay
  /\ now' = now + 1
  /\ UNCHANGED <<serverVars, wire, clientVars>>

Next ==
  \/ SendHeartbeats \/ FlushCapturedHeartbeats \/ Hang \/ Resume
  \/ \E s \in Streams : Drain(s) \/ Arrive(s) \/ Goodbye(s) \/ OpenStream(s) \/ CloseStream(s)
  \/ DeliverAggregatedHeartbeat \/ CheckHeartbeats \/ Tick

Spec == Init /\ [][Next]_vars

-----------------------------------------------------------------------------
Messages == [ids : SUBSET (0..(Uint32 - 1)), at : 0..MaxTime]

\* The state has its types, and the timeout list has one item per id.
TypeInv ==
  /\ inbound \subseteq opened /\ toSend \subseteq inbound /\ outbound \subseteq opened
  /\ captured \subseteq 0..(Uint32 - 1) /\ wire \in Seq(Messages)
  /\ \A i, j \in DOMAIN list : list[i].id = list[j].id => i = j
  /\ told \in [Streams -> {"nothing", "healthy", "unhealthy", "unheard"}]

\* The items of hb_timeout_list_ are in ascending order of time ("no more to
\* process, as this is in ascending order"), so that ProcessExpired, which
\* stops at the first fresh item, misses no expired one.
Ascending == \A i, j \in DOMAIN list : i <= j => list[i].at <= list[j].at

Late == Timeout + CheckPeriod + Jitter

\* A stream that is not heard of, from its start or not any more, is reported no later than one check
\* after the timeout ("A timeout may be observed after up to: period + (1/10 * period)"), whatever was
\* added to and removed from the list.
SilenceReported ==
  \A s \in outbound : told[s] \in {"nothing", "healthy"} => now - since[s] <= Late

\* While the loop of the server runs, no stream that was healthy is reported: two sends per period
\* leave a heartbeat of every stream in every aggregated message ("divide by 2 to ensure we're within
\* the period even after some overhead drift"), and the messages are closer together than the timeout.
\* (A stream on which the client sends nothing is unknown to the server and is reported.)
NoFalseAlarm == hangs = 0 => \A s \in Streams : told[s] # "unhealthy"

\* A stream that both ends have closed is forgotten.  UnregisterStream leaves
\* its id captured at the server and in the list of the client, and a late
\* heartbeat puts it back into the list; but the swap of one flush ends that,
\* and then the id expires.
Forgotten ==
  hangs = 0 => \A i \in DOMAIN list : list[i].id \in gone =>
                 now - goneAt[list[i].id] <= Period + Jitter + Delay + Late

\* What the heartbeats of a connection tell, and do not tell.
HeartbeatsSafe ==
  /\ TypeInv /\ Ascending /\ SilenceReported /\ Forgotten
  /\ Timeout >= 2 * Period => NoFalseAlarm
=============================================================================
