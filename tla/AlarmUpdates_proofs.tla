------------------------- MODULE AlarmUpdates_proofs -------------------------
(***************************************************************************)
(* The types of AlarmUpdates, and that no alarm is missed: the event of a  *)
(* subscription is signaled from when a datagram comes that the receiver   *)
(* has not seen.  And that the last subscription ends the updates, if      *)
(* there is one permit.                                                    *)
(***************************************************************************)
EXTENDS AlarmUpdates, TLAPS

(* Between the look at the queue and the wake-up, a datagram is in the     *)
(* queue only if its Set is still to come or has left its mark.            *)
Announced ==
  \A s \in Subs :
    pc[s] \in {"wait", "registering", "waiting", "deaf"} /\ queue[s] > 0 =>
      s \in setting \/ (pc[s] = "wait" /\ signaled[s])

OneAtATime == \A s, t \in setting : s = t

AlarmInv == TypeOK /\ Announced /\ OneAtATime

Unannounced == <<pc, queue, signaled, setting>>

(* What leaves receivers, queues and events alone preserves the rest.      *)
LEMMA Quiet ==
  ASSUME AlarmInv, TypeOK', UNCHANGED Unannounced
  PROVE  AlarmInv'
BY DEF AlarmInv, Announced, OneAtATime, Unannounced

(* Creating and disposing.                                                 *)
LEMMA CreateInv ==
  ASSUME AlarmInv, NEW s \in Subs, Create(s)
  PROVE  AlarmInv'
<1>1. TypeOK'
  BY DEF AlarmInv, TypeOK, Create, closeVars, linkVars, plcVars, loopVars
<1> QED
  BY <1>1, Quiet DEF Create, Unannounced, closeVars, linkVars, plcVars, loopVars

LEMMA DisposeInv ==
  ASSUME AlarmInv, NEW s \in Subs, Dispose(s)
  PROVE  AlarmInv'
<1> USE DEF Dispose, linkVars, plcVars, loopVars
<1>1. TypeOK'
  BY DEF AlarmInv, TypeOK, Ended, Closers
<1>2. Announced'
  BY DEF AlarmInv, Announced, TypeOK
<1> QED
  BY <1>1, <1>2 DEF AlarmInv, OneAtATime

(* A receiver.                                                             *)
LEMMA ReceiveInv ==
  ASSUME AlarmInv, NEW s \in Subs, Receive(s) \/ CancelToken(s) \/ Receiving(s)
  PROVE  AlarmInv'
<1> USE DEF subVars, closeVars, linkVars, plcVars, loopVars
<1>1. CASE Receive(s)
  BY <1>1 DEF Receive, AlarmInv, TypeOK, Announced, OneAtATime
<1>2. CASE CancelToken(s)
  BY <1>2 DEF CancelToken, AlarmInv, TypeOK, Announced, OneAtATime
<1>3. CASE Enable(s)
  BY <1>3 DEF Enable, AlarmInv, TypeOK, Announced, OneAtATime
<1>4. CASE SendEnable(s)
  BY <1>4 DEF SendEnable, Request, AlarmInv, TypeOK, Announced, OneAtATime
<1>5. CASE EnableFails(s)
  BY <1>5 DEF EnableFails, Return, AlarmInv, TypeOK, Announced, OneAtATime
<1>6. CASE Enabled(s)
  BY <1>6 DEF Enabled, AlarmInv, TypeOK, Announced, OneAtATime
<1>7. CASE ResetEvent(s)
  BY <1>7 DEF ResetEvent, AlarmInv, TypeOK, Announced, OneAtATime
<1>8. CASE Look(s)
  BY <1>8 DEF Look, Take, Return, AlarmInv, TypeOK, Announced, OneAtATime
<1>9. CASE Wait(s)
  BY <1>9 DEF Wait, AlarmInv, TypeOK, Announced, OneAtATime
<1>10. CASE Register(s)
  BY <1>10 DEF Register, AlarmInv, TypeOK, Announced, OneAtATime
<1>11. CASE Woken(s)
  BY <1>11 DEF Woken, Take, Return, AlarmInv, TypeOK, Announced, OneAtATime
<1> QED
  BY <1>1, <1>2, <1>3, <1>4, <1>5, <1>6, <1>7, <1>8, <1>9, <1>10, <1>11 DEF Receiving

(* A closer.                                                               *)
LEMMA ClosingInv ==
  ASSUME AlarmInv, NEW c \in Closers, Closing(c)
  PROVE  AlarmInv'
<1> USE DEF subVars, linkVars, plcVars, loopVars
<1>1. CASE CancelOne(c)
  <2>1. PICK s \in todo[c] : SetEvent(s) /\ todo' = [todo EXCEPT ![c] = @ \ {s}]
    BY <1>1 DEF CancelOne
  <2>2. TypeOK'
    BY <1>1, <2>1 DEF CancelOne, SetEvent, Waits, AlarmInv, TypeOK
  <2>3. Announced'
    BY <1>1, <2>1 DEF CancelOne, SetEvent, Waits, AlarmInv, TypeOK, Announced
  <2> QED
    BY <1>1, <2>2, <2>3 DEF CancelOne, AlarmInv, OneAtATime
<1>2. CASE Disable(c)
  <2>1. TypeOK'
    BY <1>2 DEF Disable, AlarmInv, TypeOK, Ended
  <2> QED
    BY <1>2, <2>1, Quiet DEF Disable, Unannounced
<1>3. CASE SendDisable(c)
  <2>1. TypeOK'
    BY <1>3 DEF SendDisable, Request, AlarmInv, TypeOK
  <2> QED
    BY <1>3, <2>1, Quiet DEF SendDisable, Unannounced
<1>4. CASE DisableFails(c)
  <2>1. TypeOK'
    BY <1>4 DEF DisableFails, AlarmInv, TypeOK, Ended
  <2> QED
    BY <1>4, <2>1, Quiet DEF DisableFails, Unannounced
<1>5. CASE Disabled(c)
  <2>1. TypeOK'
    <3>1. Ended(c) \in {"idle", "closing", "done"}
      BY DEF Ended
    <3>2. stage' \in [Closers -> {"idle", "cancel", "disable", "sendDisable",
                                  "disabling", "closing", "done"}]
      BY <1>5, <3>1 DEF Disabled, AlarmInv, TypeOK
    <3>3. permits' \in Nat
      BY <1>5 DEF Disabled, AlarmInv, TypeOK
    <3>4. enabled' \in BOOLEAN
      BY <1>5 DEF Disabled
    <3> QED
      BY <1>5, <3>2, <3>3, <3>4 DEF Disabled, AlarmInv, TypeOK
  <2> QED
    BY <1>5, <2>1, Quiet DEF Disabled, Unannounced
<1>6. CASE CancelUpdates(c)
  <2>1. TypeOK'
    BY <1>6 DEF CancelUpdates, AlarmInv, TypeOK, Ended
  <2> QED
    BY <1>6, <2>1, Quiet DEF CancelUpdates, Unannounced
<1> QED
  BY <1>1, <1>2, <1>3, <1>4, <1>5, <1>6 DEF Closing

(* The receive loop.                                                       *)
LEMMA LoopInv ==
  ASSUME AlarmInv, Loop
  PROVE  AlarmInv'
<1> USE DEF subVars, closeVars, linkVars, plcVars
<1>1. CASE Indication
  <2>1. TypeOK'
    BY <1>1 DEF Indication, AlarmInv, TypeOK
  <2> QED
    BY <1>1, <2>1, Quiet DEF Indication, Unannounced
<1>2. CASE AddDatagram
  <2>1. PICK s \in adding :
          /\ queue' = [queue EXCEPT ![s] = @ + 1]
          /\ setting' = {s}
          /\ adding' = adding \ {s}
    BY <1>2 DEF AddDatagram
  <2>2. TypeOK'
    BY <1>2, <2>1 DEF AddDatagram, AlarmInv, TypeOK
  <2>3. Announced'
    BY <1>2, <2>1 DEF AddDatagram, AlarmInv, TypeOK, Announced
  <2> QED
    BY <2>1, <2>2, <2>3 DEF AlarmInv, OneAtATime
<1>3. CASE SetAdded
  <2>1. PICK s \in setting : SetEvent(s)
    BY <1>3 DEF SetAdded
  <2>2. TypeOK'
    BY <1>3, <2>1 DEF SetAdded, SetEvent, Waits, AlarmInv, TypeOK
  <2>3. Announced'
    BY <1>3, <2>1 DEF SetAdded, SetEvent, Waits, AlarmInv, TypeOK, Announced, OneAtATime
  <2> QED
    BY <1>3, <2>2, <2>3 DEF SetAdded, AlarmInv, OneAtATime
<1> QED
  BY <1>1, <1>2, <1>3 DEF Loop

(* The connection.                                                         *)
LEMMA LinkInv ==
  ASSUME AlarmInv, Link
  PROVE  AlarmInv'
<1> USE AlarmAssumption DEF subVars, closeVars, loopVars, plcVars, linkVars
<1>1. TypeOK'
  <2>1. CASE Connect
    <3>1. epoch' \in 0..MaxEpoch
      BY <2>1 DEF Connect, AlarmInv, TypeOK
    <3> QED
      BY <2>1, <3>1 DEF Connect, AlarmInv, TypeOK
  <2>2. CASE Close
    BY <2>2 DEF Close, StartCancel, AlarmInv, TypeOK, Closers
  <2>3. CASE CloseSocket
    BY <2>3 DEF CloseSocket, AlarmInv, TypeOK, Closers
  <2>4. CASE LoopEnds
    BY <2>4 DEF LoopEnds, StartCancel, AlarmInv, TypeOK, Closers
  <2>5. CASE Breaks
    BY <2>5 DEF Breaks, AlarmInv, TypeOK
  <2>6. CASE Alarm
    BY <2>6 DEF Alarm, AlarmInv, TypeOK
  <2> QED
    BY <2>1, <2>2, <2>3, <2>4, <2>5, <2>6 DEF Link
<1>2. UNCHANGED Unannounced
  BY DEF Link, Connect, Close, CloseSocket, LoopEnds, Breaks, Alarm, Unannounced
<1> QED
  BY <1>1, <1>2, Quiet

(* The inductive invariant behind the other two results.                   *)
THEOREM AlarmInvHolds == Spec => []AlarmInv
<1>1. Init => AlarmInv
  <2> SUFFICES ASSUME Init PROVE AlarmInv
    OBVIOUS
  <2>1. TypeOK
    <3>1. epoch \in 0..MaxEpoch /\ permits \in Nat
      BY AlarmAssumption DEF Init
    <3>2. todo \in [Closers -> SUBSET Subs]
      BY DEF Init
    <3> QED
      BY <3>1, <3>2 DEF Init, TypeOK
  <2> QED
    BY <2>1 DEF Init, AlarmInv, Announced, OneAtATime
<1>2. AlarmInv /\ [Next]_vars => AlarmInv'
  <2> SUFFICES ASSUME AlarmInv, [Next]_vars PROVE AlarmInv'
    OBVIOUS
  <2>1. CASE UNCHANGED vars
    BY <2>1 DEF vars, subVars, closeVars, linkVars, plcVars, loopVars, AlarmInv,
                TypeOK, Announced, OneAtATime
  <2>2. CASE Next
    BY <2>2, CreateInv, DisposeInv, ReceiveInv, ClosingInv, LoopInv, LinkInv
       DEF Next
  <2> QED
    BY <2>1, <2>2
<1> QED
  BY <1>1, <1>2, PTL DEF Spec

(* Every variable has its type, for any number of subscriptions.           *)
THEOREM AlarmTypes == Spec => []TypeOK
<1>1. AlarmInv => TypeOK
  BY DEF AlarmInv
<1> QED
  BY <1>1, AlarmInvHolds, PTL

(* While a receiver waits and has a datagram in his queue, the receive     *)
(* loop is about to set his event: AddDatagram enqueues before it sets,    *)
(* and the receiver resets before he looks.                                *)
THEOREM NoAlarmIsMissed == Spec => []NoMissedAlarm
<1>1. AlarmInv => NoMissedAlarm
  BY DEF AlarmInv, Announced, NoMissedAlarm, Waits
<1> QED
  BY <1>1, AlarmInvHolds, PTL

-----------------------------------------------------------------------------
(* The last one out.  Who holds the permit is alone.                       *)
Enables(s) == pc[s] \in {"sendEnable", "enabling"}
Disables(c) == stage[c] \in {"sendDisable", "disabling"}

OneHolder ==
  /\ permits \in {0, 1}
  /\ permits = 1 => (\A s \in Subs : ~Enables(s)) /\ (\A c \in Closers : ~Disables(c))
  /\ \A s, t \in Subs : Enables(s) /\ Enables(t) => s = t
  /\ \A s \in Subs, c \in Closers : ~(Enables(s) /\ Disables(c))
  /\ \A c, d \in Closers : Disables(c) /\ Disables(d) => c = d

(* Each connection's end is a closer of its own, and so is CloseAsync.     *)
FreshClosers ==
  /\ ~closeCalled => stage[0] = "idle"
  /\ opened => epoch > 0 /\ stage[epoch] = "idle"
  /\ \A e \in 0..MaxEpoch : e > epoch => stage[e] = "idle"

(* What the PLC has been asked for is what the handler's id says, unless a *)
(* request is under way, and nobody receives without his subscription.     *)
Asked ==
  /\ updating => enabled /\ socket = "up"
  /\ \A s \in Subs : Enables(s) => enabled
  /\ \A c \in Closers : stage[c] = "disabling" => ~updating
  /\ \A s \in Subs : pc[s] # "idle" => s \in registered

(* When there is nobody left, somebody is about to disable the updates.    *)
SomebodyDisables ==
  registered = {} /\ updating =>
    \E c \in Closers : stage[c] \in {"disable", "sendDisable"}

LastInv == TypeOK /\ OneHolder /\ FreshClosers /\ Asked /\ SomebodyDisables

LEMMA LastInit == Permits = 1 /\ Init => OneHolder /\ FreshClosers /\ Asked /\ SomebodyDisables
BY AlarmAssumption DEF Init, OneHolder, FreshClosers, Asked, SomebodyDisables, Enables,
   Disables, Closers

(* A subscription that comes or goes, and its receiver.                    *)
LEMMA LastReceiver ==
  ASSUME LastInv, NEW s \in Subs,
         Create(s) \/ Dispose(s) \/ Receive(s) \/ CancelToken(s) \/ Receiving(s)
  PROVE  OneHolder' /\ FreshClosers' /\ Asked' /\ SomebodyDisables'
<1> USE AlarmAssumption
    DEF LastInv, TypeOK, subVars, closeVars, linkVars, plcVars, loopVars
<1>1. CASE Create(s)
  BY <1>1 DEF Create, OneHolder, FreshClosers, Asked, SomebodyDisables, Enables, Disables
<1>2. CASE Dispose(s)
  <2>1. s \in Closers /\ s \notin 0..MaxEpoch
    BY DEF Closers
  <2>2. OneHolder'
    BY <1>2, <2>1 DEF Dispose, Ended, OneHolder, Enables, Disables
  <2>3. FreshClosers'
    BY <1>2, <2>1 DEF Dispose, FreshClosers
  <2>4. Asked'
    BY <1>2, <2>1 DEF Dispose, Ended, Asked, Enables
  <2>5. SomebodyDisables'
    BY <1>2, <2>1 DEF Dispose, Ended, Asked, SomebodyDisables
  <2> QED BY <2>2, <2>3, <2>4, <2>5
<1>3. CASE Receive(s) \/ CancelToken(s)
  BY <1>3 DEF Receive, CancelToken, OneHolder, FreshClosers, Asked, SomebodyDisables,
     Enables, Disables
<1>4. CASE Enable(s)
  BY <1>4 DEF Enable, OneHolder, FreshClosers, Asked, SomebodyDisables, Enables, Disables
<1>5. CASE SendEnable(s)
  <2>1. OneHolder'
    BY <1>5 DEF SendEnable, OneHolder, Enables, Disables
  <2>2. FreshClosers'
    BY <1>5 DEF SendEnable, FreshClosers
  <2>3. Asked'
    BY <1>5 DEF SendEnable, Request, OneHolder, Asked, Enables, Disables
  <2>4. SomebodyDisables'
    BY <1>5 DEF SendEnable, Asked, SomebodyDisables
  <2> QED BY <2>1, <2>2, <2>3, <2>4
<1>6. CASE EnableFails(s) \/ Enabled(s)
  <2>1. pc'[s] \in {"idle", "reset"} /\ \A t \in Subs \ {s} : pc'[t] = pc[t]
    BY <1>6 DEF EnableFails, Enabled, Return
  <2>2. permits = 0 /\ permits' = 1 /\ Enables(s)
    BY <1>6 DEF EnableFails, Enabled, OneHolder, Enables
  <2>3. OneHolder'
    BY <1>6, <2>1, <2>2 DEF EnableFails, Enabled, OneHolder, Enables, Disables
  <2>4. FreshClosers' /\ SomebodyDisables'
    BY <1>6 DEF EnableFails, Enabled, FreshClosers, SomebodyDisables
  <2>5. Asked'
    BY <1>6, <2>1 DEF EnableFails, Enabled, Asked, Enables
  <2> QED BY <2>3, <2>4, <2>5
<1>7. CASE ResetEvent(s) \/ Look(s) \/ Wait(s) \/ Register(s) \/ Woken(s)
  BY <1>7 DEF ResetEvent, Look, Wait, Register, Woken, Take, Return, OneHolder, FreshClosers, Asked,
     SomebodyDisables, Enables, Disables
<1> QED BY <1>1, <1>2, <1>3, <1>4, <1>5, <1>6, <1>7 DEF Receiving

(* A closer.                                                               *)
LEMMA LastCloser ==
  ASSUME LastInv, NEW c \in Closers, Closing(c)
  PROVE  OneHolder' /\ FreshClosers' /\ Asked' /\ SomebodyDisables'
<1> USE AlarmAssumption
    DEF LastInv, TypeOK, subVars, closeVars, linkVars, plcVars, loopVars
<1>1. CASE CancelOne(c)
  <2>1. PICK s \in todo[c] : SetEvent(s)
    BY <1>1 DEF CancelOne
  <2>2. /\ \A t \in Subs : Enables(t)' <=> Enables(t)
        /\ \A t \in Subs : pc'[t] # "idle" <=> pc[t] # "idle"
    BY <2>1 DEF SetEvent, Waits, Enables
  <2>3. UNCHANGED <<permits, stage, registered, enabled, linkVars, plcVars>>
    BY <1>1 DEF CancelOne
  <2>4. OneHolder'
    BY <2>2, <2>3 DEF OneHolder, Disables
  <2> QED BY <2>2, <2>3, <2>4 DEF FreshClosers, Asked, SomebodyDisables
<1>2. ASSUME stage[c] # "idle", NEW x, stage' = [stage EXCEPT ![c] = x],
             UNCHANGED linkVars
      PROVE  FreshClosers'
  BY <1>2 DEF FreshClosers, Closers
<1>3. Ended(c) \in {"idle", "closing", "done"}
  BY DEF Ended
<1>4. CASE Disable(c)
  <2>1. FreshClosers'
    BY <1>2, <1>4 DEF Disable
  <2>2. OneHolder'
    BY <1>3, <1>4 DEF Disable, OneHolder, Enables, Disables
  <2>3. Asked'
    BY <1>3, <1>4 DEF Disable, Asked, Enables
  <2>4. SomebodyDisables'
    BY <1>4 DEF Disable, Asked, SomebodyDisables
  <2> QED BY <2>1, <2>2, <2>3, <2>4
<1>5. CASE SendDisable(c)
  <2>1. FreshClosers'
    BY <1>2, <1>5 DEF SendDisable
  <2>2. OneHolder'
    BY <1>5 DEF SendDisable, OneHolder, Enables, Disables
  <2>3. updating' = FALSE
    BY <1>5 DEF SendDisable, Request, Asked
  <2>4. Asked' /\ SomebodyDisables'
    BY <1>5, <2>3 DEF SendDisable, Asked, SomebodyDisables, Enables
  <2> QED BY <2>1, <2>2, <2>4
<1>6. CASE DisableFails(c) \/ Disabled(c)
  <2>1. FreshClosers'
    BY <1>2, <1>6 DEF DisableFails, Disabled
  <2>2. permits = 0 /\ permits' = 1 /\ Disables(c)
    BY <1>6 DEF DisableFails, Disabled, OneHolder, Disables
  <2>3. /\ stage'[c] = Ended(c) /\ UNCHANGED pc
        /\ \A d \in Closers \ {c} : stage'[d] = stage[d]
    BY <1>6 DEF DisableFails, Disabled
  <2>4. OneHolder'
    BY <1>3, <2>2, <2>3 DEF OneHolder, Enables, Disables
  <2>5. updating = FALSE /\ updating' = FALSE
    BY <1>6 DEF DisableFails, Disabled, Asked
  <2>6. \A s \in Subs : ~Enables(s)
    BY <2>2 DEF OneHolder
  <2>7. Asked' /\ SomebodyDisables'
    BY <1>6, <2>3, <2>5, <2>6 DEF DisableFails, Disabled, Asked, SomebodyDisables, Enables
  <2> QED BY <2>1, <2>4, <2>7
<1>7. CASE CancelUpdates(c)
  <2>1. FreshClosers'
    BY <1>2, <1>7 DEF CancelUpdates
  <2>2. OneHolder'
    BY <1>3, <1>7 DEF CancelUpdates, OneHolder, Enables, Disables
  <2>3. Asked'
    BY <1>3, <1>7 DEF CancelUpdates, Asked, Enables
  <2>4. SomebodyDisables'
    BY <1>7 DEF CancelUpdates, SomebodyDisables
  <2> QED BY <2>1, <2>2, <2>3, <2>4
<1> QED BY <1>1, <1>4, <1>5, <1>6, <1>7 DEF Closing

(* The receive loop and the connection.                                    *)
LEMMA LastLink ==
  ASSUME LastInv, Loop \/ Link
  PROVE  OneHolder' /\ FreshClosers' /\ Asked' /\ SomebodyDisables'
<1> USE AlarmAssumption
    DEF LastInv, TypeOK, subVars, closeVars, linkVars, plcVars, loopVars
<1>1. CASE Indication \/ AddDatagram \/ Breaks \/ Alarm
  BY <1>1 DEF Indication, AddDatagram, Breaks, Alarm, OneHolder, FreshClosers, Asked,
     SomebodyDisables, Enables, Disables
<1>2. CASE SetAdded
  <2>1. PICK s \in setting : SetEvent(s)
    BY <1>2 DEF SetAdded
  <2>2. /\ \A t \in Subs : Enables(t)' <=> Enables(t)
        /\ \A t \in Subs : pc'[t] # "idle" <=> pc[t] # "idle"
    BY <2>1 DEF SetEvent, Waits, Enables
  <2>3. UNCHANGED <<permits, stage, registered, enabled, linkVars, plcVars>>
    BY <1>2 DEF SetAdded
  <2>4. OneHolder'
    BY <2>2, <2>3 DEF OneHolder, Disables
  <2> QED BY <2>2, <2>3, <2>4 DEF FreshClosers, Asked, SomebodyDisables
<1>3. CASE Connect
  <2>1. FreshClosers'
    BY <1>3 DEF Connect, FreshClosers
  <2> QED BY <1>3, <2>1 DEF Connect, OneHolder, Asked, SomebodyDisables, Enables, Disables
<1>4. CASE Close
  <2>1. stage[0] = "idle" /\ stage' = [stage EXCEPT ![0] = "cancel"] /\ 0 \in Closers
    BY <1>4 DEF Close, StartCancel, FreshClosers, Closers
  <2>2. FreshClosers'
    BY <1>4, <2>1 DEF Close, FreshClosers
  <2> QED BY <1>4, <2>1, <2>2 DEF Close, OneHolder, Asked, SomebodyDisables, Enables, Disables
<1>5. CASE CloseSocket
  <2>1. FreshClosers'
    BY <1>5 DEF CloseSocket, FreshClosers, Closers
  <2> QED BY <1>5, <2>1 DEF CloseSocket, OneHolder, Asked, SomebodyDisables, Enables, Disables
<1>6. CASE LoopEnds
  <2>1. /\ stage[epoch] = "idle" /\ stage' = [stage EXCEPT ![epoch] = "cancel"]
        /\ epoch \in Closers /\ ~updating
    BY <1>6 DEF LoopEnds, StartCancel, FreshClosers, Closers, Asked
  <2>2. FreshClosers'
    BY <1>6, <2>1 DEF LoopEnds, FreshClosers
  <2> QED BY <1>6, <2>1, <2>2 DEF LoopEnds, OneHolder, Asked, SomebodyDisables, Enables, Disables
<1> QED BY <1>1, <1>2, <1>3, <1>4, <1>5, <1>6 DEF Loop, Link

(* With one permit: once the last subscription is gone and nobody is at    *)
(* work, the PLC of a connected client sends no updates.                   *)
THEOREM LastOneDisables == Spec => []LastOneOut
<1>1. CASE Permits = 1
  <2>1. Init => OneHolder /\ FreshClosers /\ Asked /\ SomebodyDisables
    BY <1>1, LastInit
  <2>2. /\ OneHolder /\ FreshClosers /\ Asked /\ SomebodyDisables
        /\ TypeOK /\ [Next]_vars
        => (OneHolder /\ FreshClosers /\ Asked /\ SomebodyDisables)'
    <3> SUFFICES ASSUME LastInv, [Next]_vars
                 PROVE  (OneHolder /\ FreshClosers /\ Asked /\ SomebodyDisables)'
      BY DEF LastInv
    <3>1. CASE UNCHANGED vars
      BY <3>1 DEF vars, subVars, closeVars, linkVars, plcVars, loopVars, LastInv,
         OneHolder, FreshClosers, Asked, SomebodyDisables, Enables, Disables
    <3>2. CASE Next
      BY <3>2, LastReceiver, LastCloser, LastLink DEF Next
    <3> QED BY <3>1, <3>2
  <2>3. OneHolder /\ FreshClosers /\ Asked /\ SomebodyDisables => LastOneOut
    BY DEF SomebodyDisables, LastOneOut
  <2> QED BY <2>1, <2>2, <2>3, AlarmTypes, PTL DEF Spec
<1>2. CASE Permits # 1
  <2>1. LastOneOut
    BY <1>2 DEF LastOneOut
  <2> QED BY <2>1, PTL
<1> QED BY <1>1, <1>2
=============================================================================
