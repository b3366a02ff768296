----------------------------- MODULE AlarmUpdates -----------------------------
(***************************************************************************)
(* Alarm subscriptions.  A receiver asks the PLC for alarm updates unless  *)
(* it is thought to send them already; the receive loop queues each        *)
(* indication at every subscription; the disposal of the last subscription *)
(* and the end of the connection disable the updates.  Each subscription   *)
(* has one receiver, and it is not disposed of while he receives.          *)
(* Nobody looks at the answer to an update request, and the wait for it    *)
(* may end by its timeout at any time: the answers themselves are left     *)
(* out.  The event of a subscription is signaled or not (EventMailbox);    *)
(* its value is ignored too.                                               *)
(***************************************************************************)
EXTENDS Naturals, FiniteSets

CONSTANTS
  Subs,         \* alarm subscriptions, each with its receiver
  Permits,      \* the negotiated MaxAmQCalling
  MaxAlarms,    \* bound: number of indications the PLC sends
  MaxEpoch,     \* bound: number of connections that are made
  Disturbances  \* bound: of "close" and "break", what happens to them

ASSUME AlarmAssumption ==
  /\ Subs \cap Nat = {}
  /\ Permits \in Nat \ {0}
  /\ MaxAlarms \in Nat /\ MaxEpoch \in Nat
  /\ Disturbances \subseteq {"close", "break"}

(* Who disables: the disposal of a subscription, CloseAsync (0) and the    *)
(* end of each connection (1, 2, ...).                                     *)
Closers == Subs \cup (0..MaxEpoch)

VARIABLES
  pc,             \* progress of each receiver
  cancelled,      \* whether its token is cancelled
  signaled,       \* whether the event of the subscription holds a value
  queue,          \* number of datagrams in _alarms
  registered,     \* keys of _subscriptions and _alarmIndicationHandler

  enabled,        \* whether _alarmUpdateHandler has an id
  permits,        \* free permits of _concurrentJobs
  stage,          \* progress of each closer
  todo,           \* subscriptions a cancellation still has to wake

  opened,         \* ConnectionState is Opened
  closeCalled,    \* _closeCalled
  socket,         \* "none", "up" or "broken" (the peer is gone)
  epoch,          \* number of the current connection
  updating,       \* whether the PLC sends updates on it
  arrived,        \* indications on their way to the receive loop
  sent,           \* number of indications so far
  adding,         \* subscriptions the loop has not yet added its datagram to
  setting         \* the subscriptions whose event it sets next: one or none

subVars == <<cancelled, signaled, queue, registered>>
closeVars == <<stage, todo>>
linkVars == <<opened, closeCalled, socket, epoch>>
plcVars == <<updating, arrived, sent>>
loopVars == <<adding, setting>>
vars == <<pc, subVars, enabled, permits, closeVars, linkVars, plcVars,
          loopVars>>

Init ==
  /\ pc = [s \in Subs |-> "idle"]
  /\ cancelled = [s \in Subs |-> FALSE]
  /\ signaled = [s \in Subs |-> FALSE]
  /\ queue = [s \in Subs |-> 0]
  /\ registered = {}
  /\ enabled = FALSE
  /\ permits = Permits
  /\ stage = [c \in Closers |-> "idle"]
  /\ todo = [c \in Closers |-> {}]
  /\ opened = FALSE
  /\ closeCalled = FALSE
  /\ socket = "none"
  /\ epoch = 0
  /\ updating = FALSE
  /\ arrived = 0
  /\ sent = 0
  /\ adding = {}
  /\ setting = {}

-----------------------------------------------------------------------------
(* Helpers.                                                                *)

(* A receiver that waits for the event; a deaf one missed the cancellation *)
(* of his token and waits until somebody sets the event.                   *)
Waits(s) == pc[s] \in {"waiting", "deaf"}

(* Event.Set of a subscription: for the receiver that waits, or the slot.  *)
(* A receiver that registers holds the lock Set asks for.                  *)
SetEvent(s) ==
  /\ pc[s] # "registering"
  /\ pc' = [pc EXCEPT ![s] = IF Waits(s) THEN "woken" ELSE @]
  /\ signaled' = [signaled EXCEPT ![s] = @ \/ ~Waits(s)]

(* SendAsync of an update request succeeds: the PLC has it, or it is lost  *)
(* with the peer.                                                          *)
Request(on) ==
  /\ socket # "none"
  /\ updating' = IF socket = "up" THEN on ELSE updating
  /\ UNCHANGED <<arrived, sent>>

Return(s) == pc' = [pc EXCEPT ![s] = "idle"]

(* Where a closer is after DisableAlarmUpdatesAsync.                       *)
Ended(c) == IF c \in Subs THEN "done" ELSE IF c = 0 THEN "closing" ELSE "idle"

(* TryGetDatagram succeeds.                                                *)
Take(s) ==
  /\ queue[s] > 0
  /\ queue' = [queue EXCEPT ![s] = @ - 1]
  /\ Return(s)

-----------------------------------------------------------------------------
(* Slips a change of this code could make.  No specification uses them;    *)
(* each one is noticed by a property below, README.md says by which.       *)

(* A woken receiver takes it for granted that there is a datagram.         *)
WokenWithAlarms(s) ==
  /\ pc[s] = "woken"
  /\ queue' = [queue EXCEPT ![s] = @ - 1]
  /\ Return(s)
  /\ UNCHANGED <<cancelled, signaled, registered, enabled, permits, closeVars,
                 linkVars, plcVars, loopVars>>

(* The event is reset right before the wait, not before the look.          *)
ResetThenWait(s) ==
  /\ pc[s] = "wait"
  /\ signaled' = [signaled EXCEPT ![s] = FALSE]
  /\ pc' = [pc EXCEPT ![s] = IF cancelled[s] THEN "woken" ELSE "registering"]
  /\ UNCHANGED <<cancelled, queue, registered, enabled, permits, closeVars,
                 linkVars, plcVars, loopVars>>

(* An enabling that fails keeps its permit.                                *)
EnableFailsHolding(s) ==
  /\ pc[s] = "sendEnable" /\ socket # "up"
  /\ Return(s)
  /\ UNCHANGED <<subVars, enabled, permits, closeVars, linkVars, plcVars, loopVars>>

(* The disposal asks for other subscriptions before its own is removed.    *)
DisposeAskingFirst(s) ==
  /\ stage[s] = "idle" /\ s \in registered /\ pc[s] = "idle"
  /\ registered' = registered \ {s}
  /\ queue' = [queue EXCEPT ![s] = 0]
  /\ stage' = [stage EXCEPT ![s] =
                 IF registered = {} /\ enabled THEN "disable" ELSE Ended(s)]
  /\ UNCHANGED <<pc, cancelled, signaled, enabled, permits, todo, linkVars,
                 plcVars, loopVars>>

-----------------------------------------------------------------------------
(* CreateAlarmSubscription, and Dispose with RemoveAlarmSubscriptionAsync: *)
(* the last one disables the updates.                                      *)

Create(s) ==
  /\ stage[s] = "idle" /\ s \notin registered
  /\ registered' = registered \cup {s}
  /\ UNCHANGED <<pc, cancelled, signaled, queue, enabled, permits, closeVars,
                 linkVars, plcVars, loopVars>>

Dispose(s) ==
  /\ stage[s] = "idle" /\ s \in registered /\ pc[s] = "idle"
  /\ registered' = registered \ {s}
  /\ queue' = [queue EXCEPT ![s] = 0]
  /\ stage' = [stage EXCEPT ![s] =
                 IF registered' = {} /\ enabled THEN "disable" ELSE Ended(s)]
  /\ UNCHANGED <<pc, cancelled, signaled, enabled, permits, todo, linkVars,
                 plcVars, loopVars>>

-----------------------------------------------------------------------------
(* ReceiveAlarmUpdatesAsync with EnableAlarmUpdatesAsync.                  *)

NotConnected == closeCalled \/ ~opened

(* On a closed connection the call throws and changes nothing.             *)
Receive(s) ==
  /\ pc[s] = "idle" /\ s \in registered /\ ~cancelled[s]
  /\ ~NotConnected
  /\ pc' = [pc EXCEPT ![s] = IF enabled THEN "reset" ELSE "enable"]
  /\ UNCHANGED <<subVars, enabled, permits, closeVars, linkVars, plcVars,
                 loopVars>>

(* Under a permit it looks again, and the updates count as enabled before  *)
(* the request is sent.                                                    *)
Enable(s) ==
  /\ pc[s] = "enable" /\ permits > 0
  /\ enabled' = TRUE
  /\ IF enabled
       THEN /\ pc' = [pc EXCEPT ![s] = "reset"]
            /\ UNCHANGED permits
       ELSE /\ pc' = [pc EXCEPT ![s] = "sendEnable"]
            /\ permits' = permits - 1
  /\ UNCHANGED <<subVars, closeVars, linkVars, plcVars, loopVars>>

SendEnable(s) ==
  /\ pc[s] = "sendEnable"
  /\ Request(TRUE)
  /\ pc' = [pc EXCEPT ![s] = "enabling"]
  /\ UNCHANGED <<subVars, enabled, permits, closeVars, linkVars, loopVars>>

(* They still count as enabled.                                            *)
EnableFails(s) ==
  /\ pc[s] = "sendEnable" /\ socket # "up"
  /\ permits' = permits + 1
  /\ Return(s)
  /\ UNCHANGED <<subVars, enabled, closeVars, linkVars, plcVars, loopVars>>

(* Answered, cancelled or after the timeout.                               *)
Enabled(s) ==
  /\ pc[s] = "enabling"
  /\ permits' = permits + 1
  /\ pc' = [pc EXCEPT ![s] = "reset"]
  /\ UNCHANGED <<subVars, enabled, closeVars, linkVars, plcVars, loopVars>>

ResetEvent(s) ==
  /\ pc[s] = "reset"
  /\ signaled' = [signaled EXCEPT ![s] = FALSE]
  /\ pc' = [pc EXCEPT ![s] = "look"]
  /\ UNCHANGED <<cancelled, queue, registered, enabled, permits, closeVars,
                 linkVars, plcVars, loopVars>>

Look(s) ==
  /\ pc[s] = "look"
  /\ \/ Take(s)
     \/ /\ queue[s] = 0
        /\ pc' = [pc EXCEPT ![s] = "wait"]
        /\ UNCHANGED queue
  /\ UNCHANGED <<cancelled, signaled, registered, enabled, permits, closeVars,
                 linkVars, plcVars, loopVars>>

(* WaitAsync with the caller's token: the slot and the token are looked at *)
(* first; then the token's callback is registered and the waiter enqueued, *)
(* still under the lock.                                                   *)
Wait(s) ==
  /\ pc[s] = "wait"
  /\ signaled' = [signaled EXCEPT ![s] = FALSE]
  /\ pc' = [pc EXCEPT ![s] =
              IF signaled[s] \/ cancelled[s] THEN "woken" ELSE "registering"]
  /\ UNCHANGED <<cancelled, queue, registered, enabled, permits, closeVars,
                 linkVars, plcVars, loopVars>>

Register(s) ==
  /\ pc[s] = "registering"
  /\ pc' = [pc EXCEPT ![s] = "waiting"]
  /\ UNCHANGED <<subVars, enabled, permits, closeVars, linkVars, plcVars,
                 loopVars>>

Woken(s) ==
  /\ pc[s] = "woken"
  /\ \/ Take(s)
     \/ queue[s] = 0 /\ Return(s) /\ UNCHANGED queue
  /\ UNCHANGED <<cancelled, signaled, registered, enabled, permits, closeVars,
                 linkVars, plcVars, loopVars>>

(* The caller cancels the token; he does not receive any more.  Before the *)
(* callback is registered, it runs during the registration, finds no       *)
(* waiter to remove, and the waiter is enqueued all the same.              *)
CancelToken(s) ==
  /\ ~cancelled[s]
  /\ cancelled' = [cancelled EXCEPT ![s] = TRUE]
  /\ pc' = [pc EXCEPT ![s] = CASE @ = "waiting" -> "woken"
                               [] @ = "registering" -> "deaf"
                               [] OTHER -> @]
  /\ UNCHANGED <<signaled, queue, registered, enabled, permits, closeVars,
                 linkVars, plcVars, loopVars>>

Receiving(s) ==
  \/ Enable(s) \/ SendEnable(s) \/ EnableFails(s) \/ Enabled(s) \/ ResetEvent(s)
  \/ Look(s) \/ Wait(s) \/ Register(s) \/ Woken(s)

-----------------------------------------------------------------------------
(* DisableAlarmUpdatesAsync.                                               *)

Disable(c) ==
  /\ stage[c] = "disable" /\ permits > 0
  /\ IF enabled
       THEN /\ stage' = [stage EXCEPT ![c] = "sendDisable"]
            /\ permits' = permits - 1
       ELSE /\ stage' = [stage EXCEPT ![c] = Ended(c)]
            /\ UNCHANGED permits
  /\ UNCHANGED <<pc, subVars, enabled, todo, linkVars, plcVars, loopVars>>

SendDisable(c) ==
  /\ stage[c] = "sendDisable"
  /\ Request(FALSE)
  /\ stage' = [stage EXCEPT ![c] = "disabling"]
  /\ UNCHANGED <<pc, subVars, enabled, permits, todo, linkVars, loopVars>>

(* The updates still count as enabled.                                     *)
DisableFails(c) ==
  /\ stage[c] = "sendDisable" /\ socket # "up"
  /\ permits' = permits + 1
  /\ stage' = [stage EXCEPT ![c] = Ended(c)]
  /\ UNCHANGED <<pc, subVars, enabled, todo, linkVars, plcVars, loopVars>>

(* Answered, cancelled or after the timeout; a handler that has come in    *)
(* the meantime is replaced as well.                                       *)
Disabled(c) ==
  /\ stage[c] = "disabling"
  /\ enabled' = FALSE
  /\ permits' = permits + 1
  /\ stage' = [stage EXCEPT ![c] = Ended(c)]
  /\ UNCHANGED <<pc, subVars, todo, linkVars, plcVars, loopVars>>

-----------------------------------------------------------------------------
(* CancelAlarmHandlingAsync wakes the receivers, then disables.            *)

StartCancel(c) ==
  /\ stage' = [stage EXCEPT ![c] = "cancel"]
  /\ todo' = [todo EXCEPT ![c] = registered]

CancelOne(c) ==
  /\ \E s \in todo[c] : SetEvent(s) /\ todo' = [todo EXCEPT ![c] = @ \ {s}]
  /\ UNCHANGED <<cancelled, queue, registered, enabled, permits, stage,
                 linkVars, plcVars, loopVars>>

CancelUpdates(c) ==
  /\ stage[c] = "cancel" /\ todo[c] = {}
  /\ stage' = [stage EXCEPT ![c] = IF enabled THEN "disable" ELSE Ended(c)]
  /\ UNCHANGED <<pc, subVars, enabled, permits, todo, linkVars, plcVars,
                 loopVars>>

Closing(c) ==
  \/ Disable(c) \/ SendDisable(c) \/ DisableFails(c) \/ Disabled(c) \/ CancelOne(c)
  \/ CancelUpdates(c)

-----------------------------------------------------------------------------
(* The receive loop: ReceivedS7AlarmIndicationDatagram and AddDatagram.    *)

Indication ==
  /\ arrived > 0 /\ adding = {} /\ setting = {}
  /\ arrived' = arrived - 1
  /\ adding' = registered
  /\ UNCHANGED <<pc, subVars, enabled, permits, closeVars, linkVars,
                 updating, sent, setting>>

AddDatagram ==
  /\ setting = {}
  /\ \E s \in adding :
       /\ queue' = [queue EXCEPT ![s] = @ + 1]
       /\ setting' = {s}
       /\ adding' = adding \ {s}
  /\ UNCHANGED <<pc, cancelled, signaled, registered, enabled, permits,
                 closeVars, linkVars, plcVars>>

SetAdded ==
  /\ \E s \in setting : SetEvent(s)
  /\ setting' = {}
  /\ UNCHANGED <<cancelled, queue, registered, enabled, permits, closeVars,
                 linkVars, plcVars, adding>>

Loop == Indication \/ AddDatagram \/ SetAdded

-----------------------------------------------------------------------------
(* The connection, as far as alarms see it.                                *)

(* Connected and set up, by OpenAsync or a reconnect.                      *)
Connect ==
  /\ ~opened /\ stage[0] = "idle" /\ epoch < MaxEpoch
  /\ opened' = TRUE
  /\ closeCalled' = FALSE
  /\ socket' = "up"
  /\ epoch' = epoch + 1
  /\ UNCHANGED <<pc, subVars, enabled, permits, closeVars, plcVars, loopVars>>

(* InternalCloseAsync.                                                     *)
Close ==
  /\ "close" \in Disturbances
  /\ ~closeCalled
  /\ closeCalled' = TRUE
  /\ StartCancel(0)
  /\ UNCHANGED <<pc, subVars, enabled, permits, opened, socket, epoch,
                 plcVars, loopVars>>

CloseSocket ==
  /\ stage[0] = "closing"
  /\ stage' = [stage EXCEPT ![0] = "idle"]
  /\ socket' = "none"
  /\ updating' = FALSE /\ arrived' = 0
  /\ UNCHANGED <<pc, subVars, enabled, permits, todo, opened, closeCalled,
                 epoch, sent, loopVars>>

(* The receive loop ends, and the state becomes Closed.                    *)
LoopEnds ==
  /\ opened /\ socket # "up" /\ adding = {} /\ setting = {}
  /\ opened' = FALSE
  /\ arrived' = 0
  /\ StartCancel(epoch)
  /\ UNCHANGED <<pc, subVars, enabled, permits, closeCalled, socket, epoch,
                 updating, sent, loopVars>>

(* The peer ends the connection, and with it its updates; what has arrived *)
(* may still be received.                                                  *)
Breaks ==
  /\ "break" \in Disturbances
  /\ socket = "up"
  /\ socket' = "broken"
  /\ updating' = FALSE
  /\ UNCHANGED <<pc, subVars, enabled, permits, closeVars, opened,
                 closeCalled, epoch, arrived, sent, loopVars>>

Alarm ==
  /\ updating /\ sent < MaxAlarms
  /\ sent' = sent + 1
  /\ arrived' = arrived + 1
  /\ UNCHANGED <<pc, subVars, enabled, permits, closeVars, linkVars,
                 updating, loopVars>>

Link == Connect \/ Close \/ CloseSocket \/ LoopEnds \/ Breaks \/ Alarm

-----------------------------------------------------------------------------
Next ==
  \/ \E s \in Subs :
       \/ Create(s) \/ Dispose(s) \/ Receive(s) \/ CancelToken(s)
       \/ Receiving(s)
  \/ \E c \in Closers : Closing(c)
  \/ Loop
  \/ Link

Spec == Init /\ [][Next]_vars

(* A receiver, a closer and the loop go on while they can, timers          *)
(* included.  Permits are asked for too seldom to need more: an update     *)
(* handler that has an id stays until a closer has run.  Nothing is        *)
(* assumed of the callers, the PLC and the connection.                     *)
FairSpec ==
  /\ Spec
  /\ \A s \in Subs : WF_vars(Receiving(s))
  /\ \A c \in Closers : WF_vars(Closing(c))
  /\ WF_vars(Loop)

-----------------------------------------------------------------------------
(* Properties.                                                             *)

(* Every variable has its type.                                            *)
TypeOK ==
  /\ pc \in [Subs -> {"idle", "enable", "sendEnable", "enabling", "reset", "look",
                      "wait", "registering", "waiting", "deaf", "woken"}]
  /\ cancelled \in [Subs -> BOOLEAN] /\ signaled \in [Subs -> BOOLEAN]
  /\ queue \in [Subs -> Nat]
  /\ registered \subseteq Subs
  /\ enabled \in BOOLEAN
  /\ permits \in Nat
  /\ stage \in [Closers -> {"idle", "cancel", "disable", "sendDisable", "disabling",
                            "closing", "done"}]
  /\ todo \in [Closers -> SUBSET Subs]
  /\ opened \in BOOLEAN /\ closeCalled \in BOOLEAN /\ updating \in BOOLEAN
  /\ socket \in {"none", "up", "broken"}
  /\ epoch \in 0..MaxEpoch
  /\ arrived \in Nat /\ sent \in Nat
  /\ adding \subseteq Subs /\ setting \subseteq Subs

(* No alarm is missed: while a receiver waits and has a datagram in his    *)
(* queue, the receive loop is about to set the event, although the         *)
(* receiver resets it before each look at the queue.                       *)
NoMissedAlarm ==
  \A s \in Subs : Waits(s) /\ queue[s] > 0 => s \in setting

Busy(s) == pc[s] # "idle" /\ ~Waits(s)

(* No updates for nobody: when the last subscription has been disposed of  *)
(* and all is quiet, a connected PLC has been told to stop.  One permit    *)
(* keeps requests apart; with more, a disabling that ends late takes the   *)
(* handler of the next enabling away.                                      *)
LastOneOut ==
  /\ Permits = 1
  /\ registered = {} /\ socket = "up"
  /\ \A s \in Subs : pc[s] = "idle"
  /\ \A c \in Closers : stage[c] \in {"idle", "done"}
  => ~updating

(* A call of ReceiveAlarmUpdatesAsync whose token is cancelled returns,    *)
(* whether it waits for an alarm, for the PLC or for a permit, unless the  *)
(* cancellation fell between the look at the token and the registration of *)
(* its callback: that call returns once the event is set.                  *)
CancelledReceiveReturns == \A s \in Subs : cancelled[s] ~> pc[s] \in {"idle", "deaf"}

(* "Wait for a alarm event": who waits on an opened connection is one the  *)
(* PLC sends its updates to, unless somebody is about to change that.      *)
WaitingMeansUpdating ==
  \A s \in Subs :
    pc[s] = "waiting" /\ opened /\ socket = "up"
    /\ (\A t \in Subs : ~Busy(t)) /\ (\A c \in Closers : stage[c] \in {"idle", "done"})
    => updating
=============================================================================
