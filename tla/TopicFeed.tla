----------------------------- MODULE TopicFeed -----------------------------
(***************************************************************************)
(* What a control tower promises a copilot subscription, as the copilot    *)
(* relies on it in AdvanceTowers and ProcessData: a subscription is a      *)
(* cursor over the log that only moves with a message, the message covers  *)
(* the cursor, and every record of the topic that the cursor passes is     *)
(* delivered.  No readers, no merging, no lag, no tail estimates.          *)
(***************************************************************************)
EXTENDS Integers, Sequences

CONSTANTS Topics, Subs, Gap, NoTopic

VARIABLES log,      \* the log: a topic or Gap per sequence number
          topic,    \* topic of a subscription, NoTopic when not subscribed
          cursor,   \* next sequence number of a subscription, 0 = not known yet
          out,      \* messages sent in the last step
          requests  \* Subscribe requests so far: only one can move a subscription

vars == <<log, topic, cursor, out>>

Sent(s) == {m \in out' : m.sub = s}

\* The cursor of s moves from q past message m, which covers no record but its own.
Covers(m, q, t) ==
  /\ m.prev # 0 /\ m.prev <= q /\ q <= m.seqno /\ m.seqno <= Len(log)
  /\ \A n \in m.prev .. m.seqno - 1 : log[n] # t
  /\ m.kind = "data" <=> log[m.seqno] = t

Init ==
  /\ log = <<>>
  /\ topic = [s \in Subs |-> NoTopic]
  /\ cursor = [s \in Subs |-> 0]
  /\ out = {}

AppendEntry ==
  /\ \E e \in Topics \cup {Gap} : log' = Append(log, e)
  /\ out' = {}
  /\ UNCHANGED <<topic, cursor>>

\* A subscription appears or moves, to a sequence number or to a start that
\* is not known yet.
Subscribe(s) ==
  /\ topic[s] # NoTopic => requests' # requests
  /\ \E t \in Topics : topic' = [topic EXCEPT ![s] = t]
  /\ cursor'[s] \in Nat /\ cursor' = [cursor EXCEPT ![s] = cursor'[s]]
  /\ \/ out' = {}
     \/ /\ 0 < cursor'[s] /\ cursor'[s] <= Len(log) + 1
        /\ out' = {[sub |-> s, kind |-> "gap", prev |-> 0, seqno |-> cursor'[s] - 1]}
  /\ UNCHANGED log

\* Subscriptions waiting for the tail learn it: a position of the log so far.
FoundTail ==
  /\ \E q \in 1 .. Len(log) + 1, S \in SUBSET {s \in Subs : topic[s] # NoTopic /\ cursor[s] = 0} :
       /\ cursor' = [s \in Subs |-> IF s \in S THEN q ELSE cursor[s]]
       /\ out' = {[sub |-> s, kind |-> "gap", prev |-> 0, seqno |-> q - 1] : s \in S}
  /\ UNCHANGED <<log, topic>>

\* Some subscriptions advance, each by the one message sent to it.
Advance ==
  /\ \A s \in Subs :
       \/ Sent(s) = {} /\ cursor'[s] = cursor[s]
       \/ /\ topic[s] # NoTopic
          /\ \E m \in out' : /\ Sent(s) = {m}
                             /\ Covers(m, cursor[s], topic[s])
                             /\ cursor'[s] = m.seqno + 1
  /\ cursor' \in [Subs -> Nat]
  /\ UNCHANGED <<log, topic>>

Unsubscribe ==
  /\ \E S \in SUBSET Subs :
       /\ topic' = [s \in Subs |-> IF s \in S THEN NoTopic ELSE topic[s]]
       /\ cursor' = [s \in Subs |-> IF s \in S THEN 0 ELSE cursor[s]]
  /\ out' = {}
  /\ UNCHANGED log

Next == AppendEntry \/ (\E s \in Subs : Subscribe(s)) \/ FoundTail \/ Advance \/ Unsubscribe

Spec == Init /\ [][Next]_vars
=============================================================================
