--------------------------- MODULE ProxySessions ---------------------------
(***************************************************************************)
(* A worker of the proxy library (proxy.cc): the application forwards the  *)
(* messages of its sessions from any thread, numbered from 0 and in any    *)
(* order; an OrderedProcessor puts each session's messages back in order   *)
(* (ordered_processor.h); a UniqueStreamMap gives the streams of a session *)
(* ids of their own towards pilot and copilot (unique_stream_map.h).  What *)
(* the servers answer is numbered per session for the application.         *)
(* Commands of the worker to itself are executed by its event loop later,  *)
(* in order, between other events.                                         *)
(***************************************************************************)
EXTENDS Integers, Sequences, FiniteSets, SequencesExt

CONSTANTS
  Sessions,
  Script,        \* Script[s][q + 1]: type and local stream of the message numbered q
  Urgent,        \* messages that may be forwarded with the number -1
  Locals,        \* local stream ids
  BufferSize,    \* ordering_buffer_size
  MaxCalls,      \* how often the application forwards one message
  MaxUrgent,     \* how many messages it forwards with the number -1
  MaxAnswers,    \* how many answers the servers send
  MaxDestroys    \* how many sessions the application destroys

VARIABLES
  sessions,      \* open_sessions_: numbering, processor and its queue
  toGlobal,      \* open_streams_, context_to_map_: 0 or a global id
  toLocal,       \* open_streams_, global_to_local_: <<session, local>> per global id
  out,           \* commands of the worker to its event loop
  loop,          \* streams the event loop knows
  calls, urgent, sentAnswers, destroys,   \* what application and servers did
  handed,        \* numbers handed to the servers in this life of a session
  answers,       \* answers given to the application in this life of a session
  life,          \* how often a session was created
  lifeOf         \* life of the session a global id was made for
\* The members of UniqueStreamMap.
open_streams == <<toGlobal, toLocal>>
vars == <<sessions, toGlobal, toLocal, out, loop, calls, urgent, sentAnswers, destroys,
          handed, answers, life, lifeOf>>

Seqnos(s) == 0 .. Len(Script[s]) - 1
NoQueue(s) == [q \in Seqnos(s) |-> 0]
NoSession(s) == [open |-> FALSE, next_seqno |-> 0, expected |-> 0, queue |-> NoQueue(s)]
NewSession(s) == [NoSession(s) EXCEPT !.open = TRUE]

Init ==
  /\ sessions = [s \in Sessions |-> NoSession(s)]
  /\ toGlobal = [s \in Sessions |-> [l \in Locals |-> 0]]
  /\ toLocal = <<>>
  /\ out = <<>> /\ loop = {}
  /\ calls = [s \in Sessions |-> NoQueue(s)]
  /\ urgent = 0 /\ sentAnswers = 0 /\ destroys = 0
  /\ handed = [s \in Sessions |-> <<>>]
  /\ answers = [s \in Sessions |-> <<>>]
  /\ life = [s \in Sessions |-> 0]
  /\ lifeOf = <<>>

-----------------------------------------------------------------------------
(* OrderedProcessor in its lossless mode.                                  *)

QueueSize(p) == FoldFunction(LAMBDA x, y : x + y, 0, p.queue)

\* The number after the last one that ProcessHead finds in its place.
HeadEnd(s, p, q) == CHOOSE k \in q + 1 .. Len(Script[s]) :
  /\ \A i \in q + 1 .. k - 1 : p.queue[i] > 0
  /\ k = Len(Script[s]) \/ p.queue[k] = 0

\* What is below the next number is dropped from the queue, copies included.
AfterProcessing(s, p, end) ==
  [p EXCEPT !.expected = end, !.queue = [q \in Seqnos(s) |-> IF q < end THEN 0 ELSE @[q]]]

\* Process: the numbers processed, the processor after it and the status.
Process(s, p, q) ==
  CASE q = p.expected -> [ok |-> TRUE, after |-> AfterProcessing(s, p, HeadEnd(s, p, q)),
                          run |-> [i \in 1 .. HeadEnd(s, p, q) - q |-> q + i - 1]]
    [] q # p.expected /\ QueueSize(p) >= BufferSize -> [ok |-> FALSE, after |-> p, run |-> <<>>]
    [] q < p.expected /\ QueueSize(p) < BufferSize -> [ok |-> FALSE, after |-> p, run |-> <<>>]
    [] q > p.expected /\ QueueSize(p) < BufferSize ->
         [ok |-> TRUE, after |-> [p EXCEPT !.queue[q] = @ + 1], run |-> <<>>]

-----------------------------------------------------------------------------
(* Messages to the servers.  The worker's part of the state is passed on   *)
(* as a record through the messages of one run.                            *)

\* GetGlobal with allocate.
GetGlobal(w, s, l) ==
  IF w.toGlobal[s][l] # 0 THEN w
  ELSE [w EXCEPT !.toGlobal[s][l] = Len(w.toLocal) + 1,
                 !.toLocal = Append(@, [session |-> s, local |-> l, open |-> TRUE]),
                 !.lifeOf = Append(@, w.life)]

\* The server that the first message of a stream opens it to, if any.
HostFor(type, pilotUp) ==
  CASE type = "publish" -> IF pilotUp THEN "pilot" ELSE "none"
    [] type = "subscribe" -> "copilot"
    [] OTHER -> "none"

HandleMessageForwardedInorder(w, s, m, pilotUp) ==
  LET known == w.toGlobal[s][m.local] # 0
      v == GetGlobal(w, s, m.local)
      host == IF known THEN "none" ELSE HostFor(m.type, pilotUp)
      command == [global |-> v.toGlobal[s][m.local], type |-> m.type, host |-> host]
  IN  IF known \/ host # "none" THEN [v EXCEPT !.out = Append(@, command)] ELSE v

Worker(s) == [toGlobal |-> toGlobal, toLocal |-> toLocal, lifeOf |-> lifeOf, out |-> out,
              life |-> life[s] + (IF sessions[s].open THEN 0 ELSE 1)]

\* The session exists from here on and the messages ms go out in order.
Hand(s, ms, pilotUp) ==
  LET w == FoldLeft(LAMBDA v, m : HandleMessageForwardedInorder(v, s, m, pilotUp), Worker(s), ms) IN
  /\ toGlobal' = w.toGlobal /\ toLocal' = w.toLocal /\ lifeOf' = w.lifeOf /\ out' = w.out
  /\ life' = [life EXCEPT ![s] = w.life]

-----------------------------------------------------------------------------
\* Mutant: the streams of the session stay in the map.
RemoveContextNot(s) == UNCHANGED <<toGlobal, toLocal>>

\* RemoveContext
RemoveContext(s) ==
  /\ toGlobal' = [toGlobal EXCEPT ![s] = [l \in Locals |-> 0]]
  /\ toLocal' = [g \in DOMAIN toLocal |->
                   IF toLocal[g].session = s THEN [toLocal[g] EXCEPT !.open = FALSE] ELSE toLocal[g]]

\* FindLocalAndContext: whether the stream is in the map; what it finds is toLocal[g].
FindLocalAndContext(g) == toLocal[g].open

\* RemoveGlobal, and whether it was the last stream of its session (kRemovedLast).
RemoveGlobal(g) ==
  /\ toGlobal' = [toGlobal EXCEPT ![toLocal[g].session][toLocal[g].local] = 0]
  /\ toLocal' = [toLocal EXCEPT ![g].open = FALSE]
RemovedLast(g) == \A l \in Locals : toGlobal[toLocal[g].session][l] \in {0, g}

\* The life of the session ends; what was noted of it is forgotten.
EndLife(s) ==
  /\ sessions' = [sessions EXCEPT ![s] = NoSession(s)]
  /\ handed' = [handed EXCEPT ![s] = <<>>]
  /\ answers' = [answers EXCEPT ![s] = <<>>]

\* Goodbyes go as responses: a stream that is not open is not opened for them.
Goodbyes(s) ==
  LET gs == SetToSeq({toGlobal[s][l] : l \in Locals} \ {0})
  IN  [i \in 1 .. Len(gs) |-> [global |-> gs[i], type |-> "goodbye", host |-> "none"]]

HandleDestroySession(s) ==
  IF sessions[s].open
    THEN /\ EndLife(s) /\ RemoveContext(s)
         /\ out' = out \o Goodbyes(s)
         /\ UNCHANGED <<life, lifeOf>>
    ELSE UNCHANGED <<sessions, toGlobal, toLocal, out, handed, answers, life, lifeOf>>

\* A message that cannot be parsed or must not be forwarded kills the session, and so does one
\* that the processor refuses.
HandleMessageForwarded(s, q, pilotUp) ==
  LET p == IF sessions[s].open THEN sessions[s] ELSE NewSession(s)
      r == Process(s, p, q)
  IN  IF Script[s][q + 1].type = "invalid" \/ ~ r.ok
        THEN HandleDestroySession(s)
        ELSE /\ sessions' = [sessions EXCEPT ![s] = r.after]
             /\ Hand(s, [i \in 1 .. Len(r.run) |-> Script[s][r.run[i] + 1]], pilotUp)
             /\ handed' = [handed EXCEPT ![s] = @ \o r.run]
             /\ UNCHANGED answers

Forward(s, q, pilotUp) ==
  /\ calls[s][q] < MaxCalls /\ calls' = [calls EXCEPT ![s][q] = @ + 1]
  /\ HandleMessageForwarded(s, q, pilotUp)
  /\ UNCHANGED <<loop, urgent, sentAnswers, destroys>>

\* A message with the number -1 passes the processor by.
ForwardUrgent(s, m, pilotUp) ==
  /\ urgent < MaxUrgent /\ urgent' = urgent + 1
  /\ IF m.type = "invalid" THEN HandleDestroySession(s)
     ELSE /\ sessions' = [sessions EXCEPT ![s].open = TRUE]
          /\ Hand(s, <<m>>, pilotUp)
          /\ UNCHANGED <<handed, answers>>
  /\ UNCHANGED <<loop, calls, sentAnswers, destroys>>

DestroySession(s) ==
  /\ destroys < MaxDestroys /\ destroys' = destroys + 1
  /\ HandleDestroySession(s)
  /\ UNCHANGED <<loop, calls, urgent, sentAnswers>>

-----------------------------------------------------------------------------
(* The event loop and the servers.                                         *)

\* HandleSendCommand on the next command: a stream is opened if a host is named, and closed by a
\* goodbye.
Execute(opens) ==
  LET c == Head(out) IN
  /\ out # <<>> /\ out' = Tail(out)
  /\ loop' = IF c.type = "goodbye" THEN loop \ {c.global}
             ELSE IF c.host # "none" /\ opens THEN loop \cup {c.global}
             ELSE loop
  /\ UNCHANGED <<sessions, toGlobal, toLocal, calls, urgent, sentAnswers, destroys, handed, answers,
                 life, lifeOf>>

\* Answers on streams that are not in the map any more are dropped.
HandleMessageReceived(g) ==
  LET s == toLocal[g].session IN
  /\ sentAnswers < MaxAnswers /\ sentAnswers' = sentAnswers + 1
  /\ IF FindLocalAndContext(g)
       THEN /\ sessions' = [sessions EXCEPT ![s].next_seqno = @ + 1]
            /\ answers' = [answers EXCEPT ![s] = Append(@, [seqno |-> sessions[s].next_seqno, global |-> g])]
       ELSE UNCHANGED <<sessions, answers>>
  /\ UNCHANGED <<toGlobal, toLocal, out, loop, calls, urgent, destroys, handed, life, lifeOf>>

\* The server or the connection ended the stream; the session goes with its last one.
HandleGoodbyeMessage(g) ==
  /\ loop' = loop \ {g}
  /\ IF FindLocalAndContext(g)
       THEN /\ RemoveGlobal(g)
            /\ IF RemovedLast(g) THEN EndLife(toLocal[g].session)
               ELSE UNCHANGED <<sessions, handed, answers>>
       ELSE UNCHANGED <<sessions, toGlobal, toLocal, handed, answers>>
  /\ UNCHANGED <<out, calls, urgent, sentAnswers, destroys, life, lifeOf>>

Next ==
  \/ \E s \in Sessions : \E q \in Seqnos(s), pilotUp \in BOOLEAN : Forward(s, q, pilotUp)
  \/ \E s \in Sessions, m \in Urgent, pilotUp \in BOOLEAN : ForwardUrgent(s, m, pilotUp)
  \/ \E s \in Sessions : DestroySession(s)
  \/ \E opens \in BOOLEAN : Execute(opens)
  \/ \E g \in loop : HandleMessageReceived(g)
  \/ \E g \in loop : HandleGoodbyeMessage(g)

-----------------------------------------------------------------------------

\* The processor's queue stays within its bound and global ids are in one of their tables at most once.
TypeInv ==
  /\ \A s \in Sessions : QueueSize(sessions[s]) <= BufferSize /\ sessions[s].expected \in 0 .. Len(Script[s])
  /\ loop \subseteq DOMAIN toLocal

\* The servers are handed the messages of a session as they are numbered, from 0 and without a gap
\* or a repetition, in whatever order and however often they are forwarded (ordered_processor.h).
HandedInOrder == \A s \in Sessions : handed[s] = [i \in 1 .. sessions[s].expected |-> i - 1]

\* The application gets answers numbered from 0 without a gap in each life of a session, and none
\* that belongs to a stream of an earlier life (HandleMessageReceived).
AnswersOfThisLife ==
  \A s \in Sessions : \A i \in DOMAIN answers[s] :
    answers[s][i].seqno = i - 1 /\ lifeOf[answers[s][i].global] = life[s]

\* The tables of the stream map are inverse to each other, and a stream in them has an open session:
\* the assertions of RemoveGlobal, GetGlobal and HandleMessageReceived ("This shall never happen").
StreamsMatch ==
  /\ \A s \in Sessions, l \in Locals : toGlobal[s][l] # 0 =>
       toLocal[toGlobal[s][l]] = [session |-> s, local |-> l, open |-> TRUE]
  /\ \A g \in DOMAIN toLocal : toLocal[g].open =>
       toGlobal[toLocal[g].session][toLocal[g].local] = g /\ sessions[toLocal[g].session].open

\* A stream the event loop knows belongs to an open session, or its goodbye is on the way: no
\* stream to a server outlives its session (HandleDestroySession).
NoOrphanStream ==
  \A g \in loop : \/ toLocal[g].open
                  \/ \E i \in DOMAIN out : out[i].global = g /\ out[i].type = "goodbye"

\* What the proxy promises its sessions.
ProxySafe == TypeInv /\ HandedInOrder /\ AnswersOfThisLife /\ StreamsMatch /\ NoOrphanStream
=============================================================================
