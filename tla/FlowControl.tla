---------------------------- MODULE FlowControl ----------------------------
(***************************************************************************)
(* messages/flow_control.{h,cc}: backpressure between the sources and the  *)
(* sinks of one event loop.  A handler runs for an item read from a source *)
(* (or for no source: a SourcelessFlow) and writes to sinks through its    *)
(* Flow; a sink that asks the writer to back off blocks the source until   *)
(* the sink is writable again and its pending writes are flushed.          *)
(* Sources and sinks come and go: sockets close while they block others or *)
(* are blocked themselves.                                                 *)
(***************************************************************************)
EXTENDS Integers, FiniteSets

CONSTANTS Sources, Sinks,
          None,       \* no handler runs
          NoSource,   \* a handler of a SourcelessFlow runs
          MaxWrites   \* bound on the writes of one handler

ASSUME RunningAssumption == None \notin Sources /\ NoSource \notin Sources /\ None # NoSource
ASSUME WritesAssumption == MaxWrites \in Nat

VARIABLES registered,    \* sources with a read callback
          enabled,       \* sources whose read event is enabled
          blockers,      \* SourceState::blockers of sources_
          backpressure,  \* SinkState::backpressure of sinks_
          sinkEvent,    \* sinks whose write event is enabled
          blockedList,   \* blocked_sources_, the list behind WarnOnBlockedSources
          running,       \* source of the handler that runs
          writes,        \* writes it has made
          failed         \* Flow::write_failed_, what Flow::Write returns from then on

flow == <<running, writes, failed>>
flowVars == <<registered, enabled, blockers, backpressure, sinkEvent, blockedList, flow>>

FlowInit ==
  /\ registered = {} /\ enabled = {} /\ blockedList = {} /\ sinkEvent = {}
  /\ blockers = [s \in Sources |-> {}]
  /\ backpressure = [k \in Sinks |-> {}]
  /\ running = None /\ writes = 0
  /\ failed = FALSE

Register(s) ==
  /\ s \notin registered
  /\ registered' = registered \cup {s}
  /\ enabled' = enabled \cup {s}
  /\ UNCHANGED <<blockers, backpressure, sinkEvent, blockedList, flow>>

\* An item is read: Register's read_cb makes a Flow and calls on_read.
StartHandler(s) ==
  /\ running = None
  /\ s = NoSource \/ s \in enabled
  /\ running' = s /\ writes' = 0 /\ failed' = FALSE
  /\ UNCHANGED <<registered, enabled, blockers, backpressure, sinkEvent, blockedList>>

EndHandler ==
  /\ running # None
  /\ running' = None
  /\ UNCHANGED <<registered, enabled, blockers, backpressure, sinkEvent, blockedList, writes,
                 failed>>

\* Mutant: a source already blocked by another sink is not recorded again.
ApplyBackpressureOnce(k, s) ==
  /\ enabled' = enabled \ {s}
  /\ blockedList' = blockedList \cup {s}
  /\ backpressure' = [backpressure EXCEPT ![k] = @ \cup {s}]
  /\ blockers' = IF blockers[s] = {} THEN [blockers EXCEPT ![s] = {k}] ELSE blockers

ApplyBackpressure(k, s) ==
  /\ enabled' = enabled \ {s}
  /\ blockedList' = IF blockers[s] = {} THEN blockedList \cup {s} ELSE blockedList
  /\ backpressure' = [backpressure EXCEPT ![k] = @ \cup {s}]
  /\ blockers' = [blockers EXCEPT ![s] = @ \cup {k}]

\* Flow::Write and FlowControl::Write; delayed is what sink->Write reports.
FlowWrite(k) ==
  /\ running # None /\ writes < MaxWrites
  /\ writes' = writes + 1
  /\ \E delayed \in BOOLEAN :
     /\ failed' = (failed \/ delayed)
     /\ IF delayed
          THEN /\ IF running = NoSource
                    THEN UNCHANGED <<enabled, blockers, backpressure, blockedList>>
                    ELSE ApplyBackpressure(k, running)
               /\ sinkEvent' = sinkEvent \cup {k}
          ELSE UNCHANGED <<enabled, blockers, backpressure, sinkEvent, blockedList>>
  /\ UNCHANGED <<registered, running>>

RemoveBackpressure(k) ==
  LET freed == {s \in backpressure[k] : blockers[s] \ {k} = {}} IN
  /\ blockers' = [s \in Sources |-> IF s \in backpressure[k] THEN blockers[s] \ {k} ELSE blockers[s]]
  /\ enabled' = enabled \cup freed
  /\ blockedList' = blockedList \ freed
  /\ backpressure' = [backpressure EXCEPT ![k] = {}]

\* The write event fires and FlushPending writes everything out.
SinkFlushed(k) ==
  /\ running = None /\ k \in sinkEvent
  /\ sinkEvent' = sinkEvent \ {k}
  /\ RemoveBackpressure(k)
  /\ UNCHANGED <<registered, flow>>

\* The write event fires but not everything can be flushed: enabled again.
SinkStillFull(k) ==
  /\ running = None /\ k \in sinkEvent
  /\ UNCHANGED flowVars

\* The tables forget a source that goes away.
Forget(s) ==
  /\ s \in registered
  /\ registered' = registered \ {s}
  /\ enabled' = enabled \ {s}
  /\ backpressure' = [k \in Sinks |-> IF k \in blockers[s] THEN backpressure[k] \ {s}
                                                           ELSE backpressure[k]]
  /\ blockers' = [blockers EXCEPT ![s] = {}]
  /\ blockedList' = blockedList \ {s}
  /\ UNCHANGED <<sinkEvent, flow>>

\* A source goes away (a socket closes, a queue is destroyed).
UnregisterSource(s) == s # running /\ Forget(s)

\* A sink goes away, perhaps within a handler (a stream closes on a goodbye).
UnregisterSink(k) ==
  /\ RemoveBackpressure(k)
  /\ sinkEvent' = sinkEvent \ {k}
  /\ UNCHANGED <<registered, flow>>

FlowNext ==
  \/ \E s \in Sources : Register(s) \/ UnregisterSource(s)
  \/ \E s \in Sources \cup {NoSource} : StartHandler(s)
  \/ \E k \in Sinks : FlowWrite(k) \/ SinkFlushed(k) \/ SinkStillFull(k) \/ UnregisterSink(k)
  \/ EndHandler

\* Handlers of sources that outlive them: queues, and sockets on most messages.
FlowSpec == FlowInit /\ [][FlowNext]_flowVars

\* Handlers return, and every sink is writable and flushed again and again.
FlowFairness == WF_flowVars(EndHandler) /\ \A k \in Sinks : SF_flowVars(SinkFlushed(k))

-----------------------------------------------------------------------------
(* Properties.                                                             *)

\* Type invariant of the flow control tables and of the running flow.
FlowTypeInv ==
  /\ registered \subseteq Sources /\ enabled \subseteq Sources /\ blockedList \subseteq Sources
  /\ sinkEvent \subseteq Sinks
  /\ blockers \in [Sources -> SUBSET Sinks]
  /\ backpressure \in [Sinks -> SUBSET Sources]
  /\ running \in Sources \cup {None, NoSource} /\ writes \in 0 .. MaxWrites

\* The two tables mirror each other, as the assertions in RemoveBackpressure
\* and UnregisterSource demand ("has backpressure on source not blocked by
\* sink", "blocked by sink without backpressure on source").
TablesMatch == \A s \in Sources, k \in Sinks : s \in backpressure[k] <=> k \in blockers[s]

\* A registered source is read exactly when no sink blocks it: it is neither
\* read under backpressure nor left disabled once the last blocker is gone.
ReadUnlessBlocked == \A s \in registered : s \in enabled <=> blockers[s] = {}

\* A sink that blocks somebody waits for its write event: no source can stay
\* blocked by a sink that nothing will flush.
BlockingSinkWaits == \A k \in Sinks : backpressure[k] # {} => k \in sinkEvent

\* Tables never name a source that is gone, and the list of the blocked
\* sources that WarnOnBlockedSources walks is exactly the blocked ones.
NoDanglingSource ==
  /\ \A k \in Sinks : backpressure[k] \subseteq registered
  /\ blockedList = {s \in Sources : blockers[s] # {}}

\* Flow control tables are exact: sources and sinks agree on who waits for
\* whom, only blocked sources go unread and none waits for a silent sink.
FlowSafe == FlowTypeInv /\ TablesMatch /\ ReadUnlessBlocked /\ BlockingSinkWaits /\ NoDanglingSource

\* A blocked source is unblocked again, or goes away.
BlockedSourceResumes == FlowFairness => \A s \in Sources : blockers[s] # {} ~> blockers[s] = {}
=============================================================================
