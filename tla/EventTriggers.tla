--------------------------- MODULE EventTriggers ---------------------------
(***************************************************************************)
(* The in-process events of an EventLoop (messages/event_loop.cc,          *)
(* triggerable_callback.cc): a trigger that is notified keeps the enabled  *)
(* callbacks bound to it running until it is unnotified.  The loop sleeps  *)
(* on an eventfd, clears it when it wakes, runs a bounded number of        *)
(* callbacks and re-arms it.  A callback may itself notify, unnotify,      *)
(* create, enable, disable and destroy, so every table changes under the   *)
(* loop that walks it.                                                     *)
(***************************************************************************)
EXTENDS Integers

CONSTANTS Callbacks, Triggers,
          NoTrigger,  \* the callback does not exist
          NoCallback, \* no callback runs
          Attempts    \* callbacks run by one wake-up: 32 in the code

ASSUME TriggerAssumption == NoTrigger \notin Triggers
ASSUME CallbackAssumption == NoCallback \notin Callbacks
ASSUME AttemptsAssumption == Attempts \in Nat \ {0}

VARIABLES bound,       \* GetTriggerID of every callback that exists
          enabledCallbacks, \* callbacks with enabled_ set
          filed,       \* trigger_to_enabled_callbacks_
          notified,    \* notified_triggers_
          ready,       \* notified_enabled_callbacks_
          fd,          \* notified_triggers_fd_ is readable
          pc,          \* "poll": asleep or in another event, "handle": HandlePendingTriggers
          invoked,     \* the callback it has invoked
          attempts     \* attempts left of the wake-up

tables == <<bound, enabledCallbacks, filed, notified, ready>>
loop == <<pc, invoked, attempts>>
triggersVars == <<tables, fd, loop>>

Exists == {cb \in Callbacks : bound[cb] # NoTrigger}

TriggersInit ==
  /\ bound = [cb \in Callbacks |-> NoTrigger]
  /\ filed = [t \in Triggers |-> {}]
  /\ enabledCallbacks = {} /\ notified = {} /\ ready = {}
  /\ fd = FALSE /\ pc = "poll" /\ invoked = NoCallback /\ attempts = 0

\* Code of the application runs: in some other event or in a callback.
Outside == pc = "poll" \/ invoked # NoCallback

CreateEventCallback(cb, t) ==
  /\ Outside
  /\ bound[cb] = NoTrigger
  /\ bound' = [bound EXCEPT ![cb] = t]
  /\ UNCHANGED <<enabledCallbacks, filed, notified, ready, fd, loop>>

Enable(cb) ==
  /\ Outside
  /\ cb \in Exists
  /\ enabledCallbacks' = enabledCallbacks \cup {cb}
  /\ filed' = [filed EXCEPT ![bound[cb]] = @ \cup {cb}]
  /\ ready' = IF bound[cb] \in notified THEN ready \cup {cb} ELSE ready
  /\ fd' = TRUE
  /\ UNCHANGED <<bound, notified, loop>>

Disable(cb) ==
  /\ Outside
  /\ cb \in Exists
  /\ enabledCallbacks' = enabledCallbacks \ {cb}
  /\ filed' = [filed EXCEPT ![bound[cb]] = @ \ {cb}]
  /\ ready' = ready \ {cb}
  /\ UNCHANGED <<bound, notified, fd, loop>>

\* Mutant: the destructor takes the callback off the ready set only.
CloseDangling(cb) ==
  /\ Outside
  /\ cb \in Exists
  /\ bound' = [bound EXCEPT ![cb] = NoTrigger]
  /\ enabledCallbacks' = enabledCallbacks \ {cb}
  /\ ready' = ready \ {cb}
  /\ UNCHANGED <<filed, notified, fd, loop>>

\* ~TriggerableCallback: the callback is gone, its flag with it.
Close(cb) ==
  /\ Outside
  /\ cb \in Exists
  /\ bound' = [bound EXCEPT ![cb] = NoTrigger]
  /\ enabledCallbacks' = enabledCallbacks \ {cb}
  /\ filed' = [filed EXCEPT ![bound[cb]] = @ \ {cb}]
  /\ ready' = ready \ {cb}
  /\ UNCHANGED <<notified, fd, loop>>

\* Without an enabled callback the loop is not woken.
Notify(t) ==
  /\ Outside
  /\ notified' = notified \cup {t}
  /\ ready' = ready \cup filed[t]
  /\ fd' = (fd \/ filed[t] # {})
  /\ UNCHANGED <<bound, enabledCallbacks, filed, loop>>

Unnotify(t) ==
  /\ Outside
  /\ notified' = notified \ {t}
  /\ ready' = ready \ filed[t]
  /\ UNCHANGED <<bound, enabledCallbacks, filed, fd, loop>>

(***************************************************************************)
(* HandlePendingTriggers.                                                  *)
(***************************************************************************)
Wake ==
  /\ pc = "poll" /\ fd
  /\ fd' = FALSE /\ pc' = "handle" /\ attempts' = Attempts
  /\ UNCHANGED <<tables, invoked>>

Invoke(cb) ==
  /\ pc = "handle" /\ invoked = NoCallback /\ attempts > 0
  /\ cb \in ready
  /\ invoked' = cb /\ attempts' = attempts - 1
  /\ UNCHANGED <<tables, fd, pc>>

Return ==
  /\ invoked # NoCallback
  /\ invoked' = NoCallback
  /\ UNCHANGED <<tables, fd, pc, attempts>>

Sleep ==
  /\ pc = "handle" /\ invoked = NoCallback
  /\ ready = {} \/ attempts = 0
  /\ pc' = "poll" /\ fd' = (fd \/ ready # {})
  /\ UNCHANGED <<tables, invoked, attempts>>

TriggersNext ==
  \/ \E cb \in Callbacks, t \in Triggers : CreateEventCallback(cb, t)
  \/ \E cb \in Callbacks : Enable(cb) \/ Disable(cb) \/ Close(cb) \/ Invoke(cb)
  \/ \E t \in Triggers : Notify(t) \/ Unnotify(t)
  \/ Wake \/ Return \/ Sleep

TriggersSpec == TriggersInit /\ [][TriggersNext]_triggersVars

\* The loop runs, callbacks return, and the random choice among the ready
\* callbacks passes none of them over for ever.
TriggersFairness ==
  /\ WF_triggersVars(Wake) /\ WF_triggersVars(Return) /\ WF_triggersVars(Sleep)
  /\ \A cb \in Callbacks : SF_triggersVars(Invoke(cb))

(***************************************************************************)
(* Properties.                                                             *)
(***************************************************************************)
\* The tables range over callbacks and triggers; a wake-up has a budget.
TriggersTypeInv ==
  /\ bound \in [Callbacks -> Triggers \cup {NoTrigger}]
  /\ enabledCallbacks \subseteq Exists
  /\ filed \in [Triggers -> SUBSET Callbacks]
  /\ notified \subseteq Triggers /\ ready \subseteq Callbacks
  /\ fd \in BOOLEAN /\ pc \in {"poll", "handle"}
  /\ invoked \in Callbacks \cup {NoCallback}
  /\ invoked # NoCallback => pc = "handle"
  /\ attempts \in 0 .. Attempts

\* The set the loop picks from holds exactly the enabled callbacks of notified
\* triggers, whatever callbacks did while it was walked: the two assertions of
\* HandlePendingTriggers hold and no pointer to a destroyed callback is left.
ReadyExact == ready = {cb \in enabledCallbacks : bound[cb] \in notified}

\* A callback is filed under its own trigger exactly while it is enabled, so
\* Notify and Unnotify reach all of them and none that is gone.
FiledUnderTrigger == \A t \in Triggers : filed[t] = {cb \in enabledCallbacks : bound[cb] = t}

\* No lost wake-up: the loop does not sleep on a clear eventfd while a callback
\* is ready, although Notify skips the write and Unnotify never clears it.
NoLostWakeup == pc = "poll" /\ ready # {} => fd

\* The trigger tables stay exact while callbacks change them under the loop
\* that walks them, and the loop never sleeps with work to do.
TriggersSafe == TriggersTypeInv /\ ReadyExact /\ FiledUnderTrigger /\ NoLostWakeup

\* A callback that becomes ready is run, or stops being ready, even if others
\* are ready all the time and use up every wake-up's attempts.
EventuallyInvoked ==
  TriggersFairness => \A cb \in Callbacks : cb \in ready ~> cb \notin ready \/ invoked = cb
=============================================================================
