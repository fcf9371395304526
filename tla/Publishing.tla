----------------------------- MODULE Publishing -----------------------------
(***************************************************************************)
(* client/publisher.cc and pilot/pilot.cc: a message from the application  *)
(* to the log and its acknowledgement back.  A worker of the publisher     *)
(* keeps what it sent until an ack, a timeout or the end of its stream     *)
(* answers it; the pilot appends to the log with a closure from a pool,    *)
(* the storage answers on a thread of its own, and the response comes back *)
(* through a queue to the worker that has the stream.                      *)
(*                                                                         *)
(* A publish is one call of Publish; its message id comes from the         *)
(* application or from a generator.  A stream may break at any time: what  *)
(* is under way on it is lost, and the worker learns of it later.  Time is *)
(* abstract: the oldest messages may have timed out whenever the timer     *)
(* fires.                                                                  *)
(***************************************************************************)
EXTENDS Naturals, Sequences, FiniteSets, SequencesExt

CONSTANTS Publishes,  \* 1..n
          MsgId,      \* the message id of each publish
          Callback,   \* publishes with a callback
          MaxStreams, MaxNoPilot \* bounds: streams opened, failures of GetPilot

VARIABLES calls,     \* publishes made
          commands,  \* commands to the worker of the publisher
          stream,    \* number of pilot_stream_, 0 without
          opened,    \* streams opened
          broken,    \* the stream broke and the goodbye is under way
          sent,      \* messages_sent_: pairs of message id and publish
          timeouts,  \* timeouts_: a sequence of message ids
          results,   \* what the callback of each publish was called with
          noPilot,   \* failures of GetPilot
          link, back,\* messages to the pilot, acks to the publisher
          closures,  \* closures of the pool in use: [publish, origin]
          appends,   \* appends under way in the storage
          responses, \* queue of append responses
          log        \* the log: publishes in order

publisherVars == <<stream, opened, sent, timeouts, results, noPilot>>
pilotVars == <<closures, appends, responses, log>>
vars == <<calls, commands, publisherVars, broken, link, back, pilotVars>>

MessageIds == {MsgId[p] : p \in Publishes}
Waiting == {e.id : e \in sent}
Result(status, seqno) == [status |-> status, seqno |-> seqno]
Ack(id, status, seqno) == [id |-> id, status |-> status, seqno |-> seqno]

Init ==
  /\ calls = {} /\ commands = <<>> /\ stream = 0 /\ opened = 0 /\ broken = FALSE
  /\ sent = {} /\ timeouts = <<>> /\ results = [p \in Publishes |-> <<>>]
  /\ noPilot = 0 /\ link = <<>> /\ back = <<>>
  /\ closures = {} /\ appends = {} /\ responses = <<>> /\ log = <<>>

-----------------------------------------------------------------------------
(* The publisher *)

\* The callbacks of the publishes ps that have one are called.
CalledBack(ps, result) ==
  [p \in Publishes |-> IF p \in ps \cap Callback THEN Append(results[p], result) ELSE results[p]]

\* PublisherImpl::Publish: a command to the worker of the topic.
Publish(p) ==
  /\ p \notin calls /\ calls' = calls \cup {p} /\ commands' = Append(commands, p)
  /\ UNCHANGED <<publisherVars, broken, link, back, pilotVars>>

\* GetPilot fails: the callback is called at once, without a look whether
\* there is one.
NoPilot(p) ==
  /\ stream = 0 /\ noPilot < MaxNoPilot /\ noPilot' = noPilot + 1
  /\ results' = CalledBack({p}, Result("error", 0))
  /\ UNCHANGED <<stream, opened, sent, timeouts, link>>

\* Mutant: the message waits for its ack without a timeout.
SentUntimed(p) ==
  /\ sent' = sent \cup {[id |-> MsgId[p], pub |-> p]}
  /\ UNCHANGED timeouts

\* The message is added to the list of timeouts, and to the messages sent
\* unless one with its id is there.
Sent(p) ==
  /\ sent' = IF MsgId[p] \in Waiting THEN sent ELSE sent \cup {[id |-> MsgId[p], pub |-> p]}
  /\ timeouts' = Append(SelectSeq(timeouts, LAMBDA i : i # MsgId[p]), MsgId[p])

\* PublisherWorkerData::Publish, on a stream that is opened if there is none.
WriteMessage(p) ==
  /\ stream = 0 => opened < MaxStreams
  /\ stream' = (IF stream = 0 THEN opened + 1 ELSE stream)
  /\ opened' = (IF stream = 0 THEN opened + 1 ELSE opened)
  /\ link' = IF broken THEN link ELSE Append(link, p)
  /\ Sent(p)
  /\ UNCHANGED <<results, noPilot>>

WorkerPublish ==
  /\ commands # <<>> /\ commands' = Tail(commands)
  /\ NoPilot(Head(commands)) \/ WriteMessage(Head(commands))
  /\ UNCHANGED <<calls, broken, back, pilotVars>>

Erased(id) == SelectSeq(timeouts, LAMBDA i : i # id)

\* Mutant: the message is kept for a second ack.
ForgetNot(id) == sent

Forget(id) == {e \in sent : e.id # id}

\* ReceiveDataAck: an ack for a message that does not wait is ignored.
ReceiveDataAck ==
  /\ back # <<>> /\ ~broken /\ back' = Tail(back)
  /\ LET ack == Head(back)
     IN /\ results' = CalledBack({e.pub : e \in {f \in sent : f.id = ack.id}}, Result(ack.status, ack.seqno))
        /\ sent' = Forget(ack.id)
        /\ timeouts' = Erased(ack.id)
  /\ UNCHANGED <<calls, commands, stream, opened, noPilot, broken, link, pilotVars>>

\* ReceiveGoodbye: every message that waits has failed.
ReceiveGoodbye ==
  /\ broken /\ broken' = FALSE /\ stream' = 0
  /\ results' = CalledBack({e.pub : e \in sent}, Result("disconnected", 0))
  /\ sent' = {} /\ timeouts' = <<>>
  /\ UNCHANGED <<calls, commands, opened, noPilot, link, back, pilotVars>>

\* CheckTimeouts: a message without a callback stays in messages_sent_.
CheckTimeouts(n) ==
  LET expired == {timeouts[i] : i \in 1..n}
      late == {e \in sent : e.id \in expired /\ e.pub \in Callback}
  IN /\ n \in 1..Len(timeouts)
     /\ timeouts' = SubSeq(timeouts, n + 1, Len(timeouts))
     /\ results' = CalledBack({e.pub : e \in late}, Result("timeout", 0))
     /\ sent' = sent \ late
     /\ UNCHANGED <<calls, commands, stream, opened, noPilot, broken, link, back, pilotVars>>

\* The stream breaks.
Break ==
  /\ stream # 0 /\ ~broken /\ broken' = TRUE /\ link' = <<>> /\ back' = <<>>
  /\ UNCHANGED <<calls, commands, publisherVars, pilotVars>>

-----------------------------------------------------------------------------
(* The pilot *)

\* SendAck, to the stream the message came from: lost when that is gone.
Acked(p, origin, status, seqno) ==
  IF origin = stream /\ ~broken THEN Append(back, Ack(MsgId[p], status, seqno)) ELSE back

\* If AppendAsync fails, the closure will never be invoked.
ClosuresAfter(c, refused) == IF refused THEN closures ELSE closures \cup {c}

\* ProcessPublish: an append, or a failure ack if the storage refuses it
ProcessPublish ==
  /\ link # <<>> /\ link' = Tail(link)
  /\ LET c == [pub |-> Head(link), origin |-> stream]
     IN \E refused \in BOOLEAN :
          /\ closures' = ClosuresAfter(c, refused)
          /\ appends' = IF refused THEN appends ELSE appends \cup {c}
          /\ back' = IF refused THEN Acked(c.pub, c.origin, "failure", 0) ELSE back
  /\ UNCHANGED <<calls, commands, publisherVars, broken, responses, log>>

\* The storage answers (AppendClosure), from a thread of its own: the
\* response is in the queue even if its Write returned false.
AppendResponse(c) ==
  /\ c \in appends /\ appends' = appends \ {c}
  /\ \/ log' = Append(log, c.pub) /\ responses' = Append(responses, [c |-> c, status |-> "ok", seqno |-> Len(log) + 1])
     \/ /\ UNCHANGED log \/ log' = Append(log, c.pub)
        /\ responses' = Append(responses, [c |-> c, status |-> "failure", seqno |-> 0])
  /\ UNCHANGED <<calls, commands, publisherVars, broken, link, back, closures>>

\* The sequence number that an ack has
Seqno(r) == r.seqno

\* AppendCallback on the worker of the pilot
AppendCallback ==
  /\ responses # <<>> /\ responses' = Tail(responses)
  /\ LET r == Head(responses)
     IN /\ back' = Acked(r.c.pub, r.c.origin, r.status, Seqno(r))
        /\ closures' = closures \ {r.c}
  /\ UNCHANGED <<calls, commands, publisherVars, broken, link, appends, log>>

Next ==
  \/ \E p \in Publishes : Publish(p)
  \/ WorkerPublish \/ ReceiveDataAck \/ ReceiveGoodbye \/ Break
  \/ \E n \in 1..Cardinality(Publishes) : CheckTimeouts(n)
  \/ ProcessPublish \/ AppendCallback
  \/ \E c \in appends : AppendResponse(c)

Spec == Init /\ [][Next]_vars

\* The worker of the publisher runs its commands, the goodbyes and its timer.
Fairness ==
  /\ WF_vars(WorkerPublish) /\ WF_vars(ReceiveGoodbye)
  /\ WF_vars(\E n \in 1..Cardinality(Publishes) : CheckTimeouts(n))

-----------------------------------------------------------------------------
\* The state has its types; an id is in messages_sent_ once and in the list of
\* timeouts once, and whatever may time out is there (the assertion of
\* CheckTimeouts).
TypeInv ==
  /\ \A e, f \in sent : e.id = f.id => e = f
  /\ \A i, j \in DOMAIN timeouts : timeouts[i] = timeouts[j] => i = j
  /\ Range(timeouts) \subseteq Waiting
  /\ \A p \in Publishes \ Callback : results[p] = <<>>
  /\ \A i \in DOMAIN back : back[i].id \in MessageIds

\* A callback is called at most once: of an ack, a timeout and a goodbye that
\* race, one answers the publish, and a late ack on the same or a later
\* stream is ignored.
AnsweredOnce == \A p \in Publishes : Len(results[p]) <= 1

\* A result that is ok has the sequence number of the message in the log,
\* whatever other appends and failures came between.
TruthfulResult ==
  \A p \in Publishes : \A i \in DOMAIN results[p] :
    results[p][i].status = "ok" =>
      results[p][i].seqno \in DOMAIN log /\ MsgId[log[results[p][i].seqno]] = MsgId[p]

\* The closures in use are those of the appends under way and of the responses
\* that wait: none is given back twice or never.
ClosuresInUse == closures = appends \cup {responses[i].c : i \in DOMAIN responses}

\* What publisher, pilot and storage keep together.
PublishSafe == TypeInv /\ AnsweredOnce /\ TruthfulResult /\ ClosuresInUse

\* Every publish with a callback is answered, also when the pilot never acks
\* it and the stream breaks: the timer and the goodbye see to it.
Answered == Fairness => \A p \in Callback : (p \in calls) ~> (results[p] # <<>>)
=============================================================================
