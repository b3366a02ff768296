--------------------- MODULE AsyncAutoResetEvent_proofs ---------------------
(***************************************************************************)
(* Proofs about AsyncAutoResetEvent for any number of callers: its types,  *)
(* the soundness of the queue, and that each value is received once.       *)
(***************************************************************************)
EXTENDS AsyncAutoResetEvent, SequenceTheorems, TLAPS

(* A call that has not begun, or whose token is live, has no callback; one *)
(* that has not ended has no result.                                       *)
Untouched ==
  \A w \in Waiters :
    /\ waiter[w] = "new" => canceller[w] = "idle"
    /\ token[w] # "cancelled" => canceller[w] = "idle"
    /\ waiter[w] # "done" => result[w] = Empty

(* The inductive invariant.                                                *)
EventInv ==
  /\ TypeOK
  /\ NoLostWakeup
  /\ QueueSound
  /\ ClaimsDisjoint
  /\ ReceivedOnce
  /\ Untouched

(* The queue r is q without its entry w, which is there once: the others   *)
(* are kept, and none is doubled.                                          *)
TakenOut(r, q, w) ==
  /\ Len(r) = Len(q) - 1
  /\ \A i \in 1..(Len(q) - 1) : \E m \in 1..Len(q) : q[m] = r[i] /\ q[m] # w
  /\ \A m \in 1..Len(q) : q[m] # w => \E i \in 1..(Len(q) - 1) : r[i] = q[m]
  /\ \A i, j \in 1..(Len(q) - 1) : r[i] = r[j] => i = j

Occurs(q, w) == \E i \in 1..Len(q) : q[i] = w
Distinct(q) == \A i, j \in 1..Len(q) : q[i] = q[j] => i = j

(* RemoveMidQueue takes the entry of one caller out of the queue and no    *)
(* other (InternalExtensions.cs).                                          *)
LEMMA RemoveMidQueueProps ==
  ASSUME NEW S, NEW q \in Seq(S), NEW w \in S, Occurs(q, w), Distinct(q)
  PROVE  /\ RemoveMidQueue(q, w) \in Seq(S)
         /\ TakenOut(RemoveMidQueue(q, w), q, w)
<1> USE DEF Occurs, Distinct
<1> DEFINE IsFirst(i) == q[i] = w /\ \A j \in 1..(i - 1) : q[j] # w
           k == CHOOSE i \in 1..Len(q) : IsFirst(i)
           r == [i \in 1..(Len(q) - 1) |-> IF i < k THEN q[i] ELSE q[i + 1]]
<1>1. PICK p \in 1..Len(q) : q[p] = w
  OBVIOUS
<1>2. IsFirst(p)
  BY <1>1
<1>3. k \in 1..Len(q) /\ IsFirst(k)
  BY <1>2
<1>4. r = RemoveMidQueue(q, w)
  BY DEF RemoveMidQueue
<1> HIDE DEF k
<1>5. r \in Seq(S) /\ Len(r) = Len(q) - 1
  <2>1. Len(q) \in Nat /\ Len(q) - 1 \in Nat
    BY <1>1
  <2>2. r \in [1..(Len(q) - 1) -> S]
    BY <1>3, <2>1
  <2>3. QED
    BY <2>1, <2>2
<1>6. ASSUME NEW i \in 1..(Len(q) - 1)
      PROVE  \E m \in 1..Len(q) : q[m] = r[i] /\ q[m] # w /\ m = (IF i < k THEN i ELSE i + 1)
  BY <1>3, <1>6
<1>7. ASSUME NEW i \in 1..(Len(q) - 1), NEW j \in 1..(Len(q) - 1), r[i] = r[j]
      PROVE  i = j
  BY <1>3, <1>6, <1>7
<1>8. \A i \in 1..(Len(q) - 1) : \E m \in 1..Len(q) : q[m] = r[i] /\ q[m] # w
  BY <1>6
<1>9. \A i, j \in 1..(Len(q) - 1) : r[i] = r[j] => i = j
  BY <1>7
<1>10. ASSUME NEW m \in 1..Len(q), q[m] # w
       PROVE  \E i \in 1..(Len(q) - 1) : r[i] = q[m]
  <2>1. CASE m < k
    <3>1. m \in 1..(Len(q) - 1) /\ r[m] = q[m]
      BY <1>3, <2>1
    <3> QED
      BY <3>1
  <2>2. CASE m > k
    <3>1. m - 1 \in 1..(Len(q) - 1) /\ ~(m - 1 < k) /\ (m - 1) + 1 = m
      BY <1>3, <2>2
    <3>2. r[m - 1] = q[m]
      BY <3>1
    <3> QED
      BY <3>1, <3>2
  <2> QED
    BY <1>3, <1>10, <2>1, <2>2
<1> HIDE DEF r
<1> QED
  BY <1>4, <1>5, <1>8, <1>9, <1>10 DEF TakenOut

(* Initially nobody waits and nothing is stored.                           *)
LEMMA InitEventInv == Init => EventInv
<1> SUFFICES ASSUME Init PROVE EventInv
  OBVIOUS
<1> USE EventAssumption DEF Init
<1>1. TypeOK
  <2>1. waits \in Seq(Waiters)
    OBVIOUS
  <2> QED
    BY <2>1 DEF TypeOK
<1>2. NoLostWakeup
  BY DEF NoLostWakeup
<1>3. QueueSound
  BY DEF QueueSound
<1>4. ClaimsDisjoint
  BY DEF ClaimsDisjoint
<1>5. ReceivedOnce
  BY DEF ReceivedOnce
<1>6. Untouched
  BY DEF Untouched
<1> QED
  BY <1>1, <1>2, <1>3, <1>4, <1>5, <1>6 DEF EventInv

(* Set claims the head of the queue, fills the slot or is refused.         *)
LEMMA SetInv ==
  ASSUME EventInv, NEW s \in Setters, Set(s)
  PROVE  EventInv'
<1> USE EventAssumption DEF EventInv, Set, fields
<1>1. TypeOK'
  <2>1. waits' \in Seq(Waiters)
    <3>1. waits # <<>> => Tail(waits) \in Seq(Waiters)
      BY HeadTailProperties DEF TypeOK
    <3> QED
      BY <3>1 DEF TypeOK
  <2>2. waits # <<>> => Head(waits) \in Waiters
    BY HeadTailProperties DEF TypeOK
  <2>3. toRelease' \in [Setters -> Waiters \cup {Empty}]
    BY <2>2 DEF TypeOK
  <2> QED
    BY <2>1, <2>3 DEF TypeOK
<1>2. NoLostWakeup'
  BY DEF NoLostWakeup
<1>3. QueueSound'
  <2>1. CASE waits # <<>>
    <3>1. /\ waits' = Tail(waits)
          /\ toRelease' = [toRelease EXCEPT ![s] = Head(waits)]
          /\ setter' = [setter EXCEPT ![s] = "releasing"]
          /\ UNCHANGED <<waiter, canceller>>
      BY <2>1
    <3>2. waits \in Seq(Waiters) /\ Len(waits) \in Nat /\ 1 \in 1..Len(waits)
      BY <2>1 DEF TypeOK
    <3>3. Head(waits) = waits[1]
      BY <2>1, <3>2
    <3>4. /\ Len(waits') = Len(waits) - 1
          /\ \A i \in 1..Len(waits') : waits'[i] = waits[i + 1]
      BY <2>1, <3>1, <3>2, HeadTailProperties
    <3>5. \A i \in 1..Len(waits') : i + 1 \in 1..Len(waits) /\ waits'[i] # Head(waits)
      BY <3>2, <3>3, <3>4 DEF QueueSound
    <3> QED
      BY <3>1, <3>2, <3>4, <3>5 DEF TypeOK, QueueSound
  <2>2. CASE waits = <<>>
    BY <2>2 DEF TypeOK, QueueSound
  <2> QED
    BY <2>1, <2>2
<1>4. ClaimsDisjoint'
  BY DEF TypeOK, QueueSound, ClaimsDisjoint, Untouched
<1>5. ReceivedOnce'
  BY DEF TypeOK, ReceivedOnce, ClaimsDisjoint, Untouched
<1>6. Untouched'
  BY DEF TypeOK, QueueSound, ClaimsDisjoint, Untouched
<1> QED
  BY <1>1, <1>2, <1>3, <1>4, <1>5, <1>6

(* The release of a claimed waiter completes it.                           *)
LEMMA ReleaseInv ==
  ASSUME EventInv, NEW s \in Setters, Release(s)
  PROVE  EventInv'
<1> USE EventAssumption DEF EventInv, Release, TrySetResult, fields
<1>1. TypeOK'
  BY DEF TypeOK
<1>2. NoLostWakeup'
  BY DEF NoLostWakeup
<1>3. QueueSound'
  BY DEF TypeOK, QueueSound, ClaimsDisjoint, Untouched
<1>4. ClaimsDisjoint'
  BY DEF TypeOK, QueueSound, ClaimsDisjoint, Untouched
<1>5. ReceivedOnce'
  <2>1. /\ toRelease[s] \in Waiters
        /\ result' = [result EXCEPT ![toRelease[s]] = s]
        /\ setter' = [setter EXCEPT ![s] = "accepted"]
    BY DEF ClaimsDisjoint
  <2>2. /\ \A w \in Waiters : result[w] # s
        /\ lastValue # s
    BY DEF ReceivedOnce
  <2>3. \A w \in Waiters : result'[w] = IF w = toRelease[s] THEN s ELSE result[w]
    BY <2>1 DEF TypeOK
  <2>4. \A t \in Setters : setter[t] = "accepted" => setter'[t] = "accepted"
    BY <2>1 DEF TypeOK
  <2>5. setter'[s] = "accepted"
    BY <2>1 DEF TypeOK
  <2> QED
    BY <2>2, <2>3, <2>4, <2>5 DEF ReceivedOnce
<1>6. Untouched'
  BY DEF TypeOK, QueueSound, ClaimsDisjoint, Untouched
<1> QED
  BY <1>1, <1>2, <1>3, <1>4, <1>5, <1>6

(* A caller consumes the stored value.                                     *)
LEMMA TakeSignalInv ==
  ASSUME EventInv, NEW w \in Waiters, TakeSignal(w)
  PROVE  EventInv'
<1> USE EventAssumption DEF EventInv, TakeSignal, fields
<1>1. TypeOK'
  BY DEF TypeOK
<1>2. NoLostWakeup'
  BY DEF NoLostWakeup
<1>3. QueueSound'
  BY DEF TypeOK, QueueSound, ClaimsDisjoint, Untouched
<1>4. ClaimsDisjoint'
  BY DEF TypeOK, QueueSound, ClaimsDisjoint, Untouched
<1>5. ReceivedOnce'
  BY DEF TypeOK, ReceivedOnce, ClaimsDisjoint, Untouched
<1>6. Untouched'
  BY DEF TypeOK, QueueSound, ClaimsDisjoint, Untouched
<1> QED
  BY <1>1, <1>2, <1>3, <1>4, <1>5, <1>6

(* A caller with a cancelled token does not wait.                          *)
LEMMA WaitCancelledInv ==
  ASSUME EventInv, NEW w \in Waiters, WaitCancelled(w)
  PROVE  EventInv'
<1> USE EventAssumption DEF EventInv, WaitCancelled, fields
<1>1. TypeOK'
  BY DEF TypeOK
<1>2. NoLostWakeup'
  BY DEF NoLostWakeup
<1>3. QueueSound'
  BY DEF TypeOK, QueueSound, ClaimsDisjoint, Untouched
<1>4. ClaimsDisjoint'
  BY DEF TypeOK, QueueSound, ClaimsDisjoint, Untouched
<1>5. ReceivedOnce'
  BY DEF TypeOK, ReceivedOnce, ClaimsDisjoint, Untouched
<1>6. Untouched'
  BY DEF TypeOK, QueueSound, ClaimsDisjoint, Untouched
<1> QED
  BY <1>1, <1>2, <1>3, <1>4, <1>5, <1>6

(* A caller that queues up is not in the queue yet.                        *)
LEMMA EnqueueInv ==
  ASSUME EventInv, NEW w \in Waiters, NEW t \in {"none", "live"}, Enqueue(w, t)
  PROVE  EventInv'
<1> USE EventAssumption DEF EventInv, Enqueue, fields
<1>1. TypeOK'
  BY DEF TypeOK
<1>2. NoLostWakeup'
  BY DEF NoLostWakeup
<1>3. QueueSound'
  <2>1. /\ waits \in Seq(Waiters)
        /\ Len(waits') = Len(waits) + 1
        /\ waits'[Len(waits) + 1] = w
        /\ \A i \in 1..Len(waits) : waits'[i] = waits[i]
    BY DEF TypeOK
  <2>2. \A i \in 1..Len(waits) : waits[i] \in Waiters /\ waits[i] # w
    BY <2>1 DEF QueueSound
  <2> QED
    BY <2>1, <2>2 DEF TypeOK, QueueSound, ClaimsDisjoint, Untouched
<1>4. ClaimsDisjoint'
  BY DEF TypeOK, QueueSound, ClaimsDisjoint, Untouched
<1>5. ReceivedOnce'
  BY DEF TypeOK, ReceivedOnce, ClaimsDisjoint, Untouched
<1>6. Untouched'
  BY DEF TypeOK, QueueSound, ClaimsDisjoint, Untouched
<1> QED
  BY <1>1, <1>2, <1>3, <1>4, <1>5, <1>6

(* A missed cancellation leaves a caller in the queue, and nothing worse.  *)
LEMMA EnqueueMissingCancelInv ==
  ASSUME EventInv, NEW w \in Waiters, EnqueueMissingCancel(w)
  PROVE  EventInv'
<1> USE EventAssumption DEF EventInv, EnqueueMissingCancel, fields
<1>1. TypeOK'
  BY DEF TypeOK
<1>2. NoLostWakeup'
  BY DEF NoLostWakeup
<1>3. QueueSound'
  <2>1. /\ waits \in Seq(Waiters)
        /\ Len(waits') = Len(waits) + 1
        /\ waits'[Len(waits) + 1] = w
        /\ \A i \in 1..Len(waits) : waits'[i] = waits[i]
    BY DEF TypeOK
  <2>2. \A i \in 1..Len(waits) : waits[i] \in Waiters /\ waits[i] # w
    BY <2>1 DEF QueueSound
  <2> QED
    BY <2>1, <2>2 DEF TypeOK, QueueSound, ClaimsDisjoint, Untouched
<1>4. ClaimsDisjoint'
  BY DEF TypeOK, QueueSound, ClaimsDisjoint, Untouched
<1>5. ReceivedOnce'
  BY DEF TypeOK, ReceivedOnce, ClaimsDisjoint, Untouched
<1>6. Untouched'
  BY DEF TypeOK, QueueSound, ClaimsDisjoint, Untouched
<1> QED
  BY <1>1, <1>2, <1>3, <1>4, <1>5, <1>6

(* A cancellation takes its caller out of the queue, or finds it claimed.  *)
LEMMA CancelInv ==
  ASSUME EventInv, NEW w \in Waiters, Cancel(w)
  PROVE  EventInv'
<1> USE EventAssumption DEF EventInv, Cancel, fields
<1>0. CASE InQueue(w)
  <2> DEFINE r == RemoveMidQueue(waits, w)
  <2>0. waits' = r /\ r \in Seq(Waiters) /\ TakenOut(r, waits, w)
    <3>1. waits \in Seq(Waiters) /\ Occurs(waits, w) /\ Distinct(waits)
      BY <1>0 DEF InQueue, TypeOK, QueueSound, Occurs, Distinct
    <3>2. waits' = r
      BY <1>0
    <3> QED
      BY <3>1, <3>2, RemoveMidQueueProps
  <2> HIDE DEF r
  <2>1. TypeOK'
    BY <1>0, <2>0 DEF TakenOut, TypeOK, InQueue
  <2>2. NoLostWakeup'
    BY <1>0, <2>0 DEF TakenOut, NoLostWakeup, InQueue
  <2>3. QueueSound'
    BY <1>0, <2>0 DEF TakenOut, TypeOK, QueueSound, ClaimsDisjoint, Untouched, InQueue
  <2>4. ClaimsDisjoint'
    BY <1>0, <2>0 DEF TakenOut, TypeOK, QueueSound, ClaimsDisjoint, Untouched, InQueue
  <2>5. ReceivedOnce'
    BY <1>0, <2>0 DEF TakenOut, TypeOK, ReceivedOnce, ClaimsDisjoint, Untouched, InQueue
  <2>6. Untouched'
    BY <1>0, <2>0 DEF TakenOut, TypeOK, QueueSound, ClaimsDisjoint, Untouched, InQueue
  <2> QED
    BY <2>1, <2>2, <2>3, <2>4, <2>5, <2>6
<1>1. CASE ~InQueue(w)
  <2>1. TypeOK'
    BY <1>1 DEF TypeOK, InQueue
  <2>2. NoLostWakeup'
    BY <1>1 DEF NoLostWakeup, InQueue
  <2>3. QueueSound'
    BY <1>1 DEF TypeOK, QueueSound, ClaimsDisjoint, Untouched, InQueue
  <2>4. ClaimsDisjoint'
    BY <1>1 DEF TypeOK, QueueSound, ClaimsDisjoint, Untouched, InQueue
  <2>5. ReceivedOnce'
    BY <1>1 DEF TypeOK, ReceivedOnce, ClaimsDisjoint, Untouched, InQueue
  <2>6. Untouched'
    BY <1>1 DEF TypeOK, QueueSound, ClaimsDisjoint, Untouched, InQueue
  <2> QED
    BY <2>1, <2>2, <2>3, <2>4, <2>5, <2>6
<1> QED
  BY <1>0, <1>1

(* The callback completes the caller it has removed.                       *)
LEMMA FinishCancelInv ==
  ASSUME EventInv, NEW w \in Waiters, FinishCancel(w)
  PROVE  EventInv'
<1> USE EventAssumption DEF EventInv, FinishCancel, TrySetResult, fields
<1>1. TypeOK'
  BY DEF TypeOK
<1>2. NoLostWakeup'
  BY DEF NoLostWakeup
<1>3. QueueSound'
  BY DEF TypeOK, QueueSound, ClaimsDisjoint, Untouched
<1>4. ClaimsDisjoint'
  BY DEF TypeOK, QueueSound, ClaimsDisjoint, Untouched
<1>5. ReceivedOnce'
  <2>1. /\ waiter[w] = "queued"
        /\ result' = [result EXCEPT ![w] = Default]
        /\ UNCHANGED <<signaled, lastValue, setter>>
    BY DEF ClaimsDisjoint
  <2> QED
    BY ONLY EventInv, EventAssumption, <2>1 DEF EventInv, TypeOK, ReceivedOnce
<1>6. Untouched'
  BY DEF TypeOK, QueueSound, ClaimsDisjoint, Untouched
<1> QED
  BY <1>1, <1>2, <1>3, <1>4, <1>5, <1>6

(* Reset empties the slot in two steps.                                    *)
LEMMA ResetInv ==
  ASSUME EventInv, NEW r \in Resetters, ResetValue(r) \/ ResetSignal(r)
  PROVE  EventInv'
<1> USE EventAssumption DEF EventInv, ResetValue, ResetSignal, fields
<1>1. TypeOK'
  BY DEF TypeOK
<1>2. NoLostWakeup'
  BY DEF NoLostWakeup
<1>3. QueueSound'
  BY DEF TypeOK, QueueSound, ClaimsDisjoint, Untouched
<1>4. ClaimsDisjoint'
  BY DEF TypeOK, QueueSound, ClaimsDisjoint, Untouched
<1>5. ReceivedOnce'
  BY DEF TypeOK, ReceivedOnce, ClaimsDisjoint, Untouched
<1>6. Untouched'
  BY DEF TypeOK, QueueSound, ClaimsDisjoint, Untouched
<1> QED
  BY <1>1, <1>2, <1>3, <1>4, <1>5, <1>6

(* A step that changes nothing keeps the invariant.                        *)
LEMMA StutterInv ==
  ASSUME EventInv, UNCHANGED vars
  PROVE  EventInv'
BY DEF EventInv, vars, TypeOK, NoLostWakeup, QueueSound, ClaimsDisjoint,
       ReceivedOnce, Untouched

(* The event keeps its invariant for any number of callers and under every *)
(* interleaving of Set, WaitAsync, timeouts and Reset.                     *)
THEOREM EventSafety == Spec => []EventInv
<1>1. EventInv /\ [Next]_vars => EventInv'
  <2> SUFFICES ASSUME EventInv, [Next]_vars PROVE EventInv'
    OBVIOUS
  <2> QED
    BY SetInv, ReleaseInv, TakeSignalInv, WaitCancelledInv, EnqueueInv,
       EnqueueMissingCancelInv, CancelInv, FinishCancelInv, ResetInv, StutterInv
       DEF Next, WaitAsync
<1> QED
  BY <1>1, InitEventInv, PTL DEF Spec

(* No wakeup is lost: nobody queues at a signaled event.                   *)
THEOREM WakeupsAreKept == Spec => []NoLostWakeup
BY EventSafety, PTL DEF EventInv

(* The variables keep their types.                                         *)
THEOREM EventTypes == Spec => []TypeOK
BY EventSafety, PTL DEF EventInv

(* A value reaches at most one caller.                                     *)
THEOREM ValuesReachOneCaller == Spec => []ReceivedOnce
BY EventSafety, PTL DEF EventInv

(* A caller is completed either by one Set or by its own cancellation.     *)
THEOREM ClaimsAreDisjoint == Spec => []ClaimsDisjoint
BY EventSafety, PTL DEF EventInv

(* A caller is in the queue exactly while nobody has claimed it.           *)
THEOREM QueueIsSound == Spec => []QueueSound
BY EventSafety, PTL DEF EventInv

-----------------------------------------------------------------------------
(* Nobody has called Reset yet.                                            *)
NotReset == \A r \in Resetters : resetter[r] = "new"

(* Until somebody calls Reset, Set answers true only for values that       *)
(* arrive.                                                                 *)
LEMMA DeliveryStep ==
  ASSUME EventInv, AcceptedIsDelivered, NotReset', [Next]_vars
  PROVE  AcceptedIsDelivered'
<1> USE EventAssumption DEF EventInv, TypeOK, fields
<1>0. NotReset
  BY DEF Next, WaitAsync, TakeSignal, WaitCancelled, Enqueue,
         EnqueueMissingCancel, Cancel, FinishCancel, Set, Release, ResetValue,
         ResetSignal, NotReset, vars
<1> USE <1>0 DEF AcceptedIsDelivered, NotReset
<1>1. ASSUME NEW s \in Setters, Set(s) PROVE AcceptedIsDelivered'
  <2>1. CASE waits # <<>>
    BY <1>1, <2>1 DEF Set, NoLostWakeup
  <2>2. CASE waits = <<>>
    BY <1>1, <2>2 DEF Set
  <2> QED
    BY <2>1, <2>2
<1>2. ASSUME NEW s \in Setters, Release(s) PROVE AcceptedIsDelivered'
  BY <1>2 DEF Release, TrySetResult, ClaimsDisjoint, Untouched
<1>3. ASSUME NEW w \in Waiters, TakeSignal(w) PROVE AcceptedIsDelivered'
  BY <1>3 DEF TakeSignal, Untouched
<1>4. ASSUME NEW w \in Waiters, WaitCancelled(w) PROVE AcceptedIsDelivered'
  BY <1>4 DEF WaitCancelled, Untouched
<1>5. ASSUME NEW w \in Waiters,
             \/ \E t \in {"none", "live"} : Enqueue(w, t)
             \/ EnqueueMissingCancel(w)
             \/ Cancel(w)
      PROVE  AcceptedIsDelivered'
  BY <1>5 DEF Enqueue, EnqueueMissingCancel, Cancel
<1>6. ASSUME NEW w \in Waiters, FinishCancel(w) PROVE AcceptedIsDelivered'
  BY <1>6 DEF FinishCancel, TrySetResult, Untouched
<1>8. ASSUME NEW r \in Resetters, ResetValue(r) \/ ResetSignal(r)
      PROVE  AcceptedIsDelivered'
  BY <1>8 DEF ResetValue, ResetSignal
<1>7. CASE UNCHANGED vars
  BY <1>7 DEF vars
<1> QED
  BY <1>1, <1>2, <1>3, <1>4, <1>5, <1>6, <1>7, <1>8 DEF Next, WaitAsync

(* Until somebody resets the event, a Set that answers true has stored     *)
(* its value or brought it to a caller, whatever times out meanwhile.      *)
THEOREM AcceptedValuesArrive == Spec => []AcceptedIsDelivered
<1>1. Init => AcceptedIsDelivered
  BY DEF Init, AcceptedIsDelivered
<1>2. EventInv /\ AcceptedIsDelivered /\ [Next]_vars => AcceptedIsDelivered'
  <2>1. CASE NotReset'
    BY <2>1, DeliveryStep
  <2>2. CASE ~NotReset'
    BY <2>2 DEF AcceptedIsDelivered, NotReset
  <2> QED
    BY <2>1, <2>2
<1> QED
  BY <1>1, <1>2, EventSafety, PTL DEF Spec

-----------------------------------------------------------------------------
(***************************************************************************)
(* AsyncAutoResetEvent implements EventMailbox: each of its steps is a     *)
(* step of the mailbox or changes nothing the mailbox shows.               *)
(***************************************************************************)

MailboxSlot == IF signaled THEN lastValue ELSE Empty
MailboxPending == {w \in Waiters : InQueue(w)}
MailboxPosted ==
  [s \in Setters |-> IF setter[s] = "releasing" THEN "accepted" ELSE setter[s]]

(* A queued caller has no outcome yet, a claimed one has its claimer's.    *)
LEMMA OutcomeProps ==
  ASSUME EventInv
  PROVE  /\ \A w \in Waiters : waiter[w] = "done" => Outcome[w] = result[w]
         /\ \A w \in Waiters : waiter[w] = "new" => Outcome[w] = Empty
         /\ \A w \in Waiters : InQueue(w) => Outcome[w] = Empty
         /\ \A s \in Setters : setter[s] = "releasing" => Outcome[toRelease[s]] = s
         /\ \A w \in Waiters : canceller[w] = "removed" => Outcome[w] = Default
<1> USE EventAssumption DEF EventInv, TypeOK
<1>1. ASSUME NEW w \in Waiters, waiter[w] = "done" PROVE Outcome[w] = result[w]
  BY <1>1 DEF Outcome
<1>2. ASSUME NEW w \in Waiters, waiter[w] = "new" PROVE Outcome[w] = Empty
  <2>1. ~ \E s \in Setters : setter[s] = "releasing" /\ toRelease[s] = w
    BY <1>2 DEF ClaimsDisjoint
  <2> QED
    BY <1>2, <2>1 DEF Outcome, Untouched
<1>3. ASSUME NEW w \in Waiters, InQueue(w) PROVE Outcome[w] = Empty
  <2>1. /\ waiter[w] = "queued"
        /\ canceller[w] # "removed"
        /\ ~ \E s \in Setters : setter[s] = "releasing" /\ toRelease[s] = w
    BY <1>3 DEF InQueue, QueueSound
  <2> QED
    BY <2>1 DEF Outcome
<1>4. ASSUME NEW s \in Setters, setter[s] = "releasing"
      PROVE  Outcome[toRelease[s]] = s
  <2> DEFINE w == toRelease[s]
  <2>1. w \in Waiters /\ waiter[w] = "queued"
    BY <1>4 DEF ClaimsDisjoint
  <2>2. \A t \in Setters : setter[t] = "releasing" /\ toRelease[t] = w => t = s
    BY <1>4 DEF ClaimsDisjoint
  <2>3. (CHOOSE t \in Setters : setter[t] = "releasing" /\ toRelease[t] = w) = s
    BY <1>4, <2>2
  <2> QED
    BY <1>4, <2>1, <2>3 DEF Outcome
<1>5. ASSUME NEW w \in Waiters, canceller[w] = "removed" PROVE Outcome[w] = Default
  <2>1. /\ waiter[w] = "queued"
        /\ ~ \E s \in Setters : setter[s] = "releasing" /\ toRelease[s] = w
    BY <1>5 DEF ClaimsDisjoint
  <2> QED
    BY <1>5, <2>1 DEF Outcome
<1> QED
  BY <1>1, <1>2, <1>3, <1>4, <1>5

(* Callers that a step does not touch keep their outcome.                  *)
LEMMA OutcomeFrame ==
  ASSUME NEW w \in Waiters,
         waiter'[w] = waiter[w], result'[w] = result[w],
         canceller'[w] = canceller[w],
         \A s \in Setters :
           (setter'[s] = "releasing" /\ toRelease'[s] = w)
             <=> (setter[s] = "releasing" /\ toRelease[s] = w)
  PROVE  Outcome'[w] = Outcome[w]
<1> DEFINE P(s) == setter[s] = "releasing" /\ toRelease[s] = w
           Q(s) == setter'[s] = "releasing" /\ toRelease'[s] = w
<1>1. (CHOOSE s \in Setters : P(s)) = (CHOOSE s \in Setters : Q(s))
  OBVIOUS
<1>2. (\E s \in Setters : P(s)) <=> (\E s \in Setters : Q(s))
  OBVIOUS
<1> QED
  BY <1>1, <1>2 DEF Outcome

(* The outcome of one caller changes, those of the others do not.          *)
LEMMA OutcomeUpdate ==
  ASSUME NEW w \in Waiters, NEW v, Outcome'[w] = v,
         \A u \in Waiters \ {w} : Outcome'[u] = Outcome[u]
  PROVE  Outcome' = [Outcome EXCEPT ![w] = v]
<1>1. Outcome = [u \in Waiters |-> Outcome[u]]
  BY DEF Outcome
<1>2. Outcome' = [u \in Waiters |-> Outcome'[u]]
  BY DEF Outcome
<1> QED
  BY <1>1, <1>2

(* A step that touches no caller and no claim changes no outcome.          *)
LEMMA OutcomeUnchanged ==
  ASSUME \A u \in Waiters : Outcome'[u] = Outcome[u]
  PROVE  Outcome' = Outcome
<1>1. Outcome = [u \in Waiters |-> Outcome[u]]
  BY DEF Outcome
<1>2. Outcome' = [u \in Waiters |-> Outcome'[u]]
  BY DEF Outcome
<1> QED
  BY <1>1, <1>2

(* What the mailbox sees.                                                  *)
MailboxView == <<MailboxSlot, MailboxPending, Outcome, MailboxPosted, resetter>>

-----------------------------------------------------------------------------
(* The steps of WaitAsync.                                                 *)

(* Taking the stored value is Take.                                        *)
LEMMA TakeSignalMaps ==
  ASSUME EventInv, EventInv', NEW w \in Waiters, TakeSignal(w)
  PROVE  Mailbox!Take(w)
<1> USE EventAssumption DEF EventInv, TypeOK
<1>9. UNCHANGED resetter
  BY DEF TakeSignal
<1> USE <1>9
<1>1. Outcome[w] = Empty /\ w \notin MailboxPending
  BY OutcomeProps DEF TakeSignal, MailboxPending, InQueue, QueueSound
<1>2. MailboxSlot = lastValue /\ MailboxSlot # Empty /\ MailboxSlot' = Empty
  BY DEF TakeSignal, MailboxSlot
<1>3. Outcome'[w] = lastValue
  BY DEF TakeSignal, Outcome
<1>4. \A v \in Waiters \ {w} : Outcome'[v] = Outcome[v]
  BY OutcomeFrame DEF TakeSignal
<1>5. Outcome' = [Outcome EXCEPT ![w] = lastValue]
  BY <1>3, <1>4, OutcomeUpdate
<1>6. UNCHANGED <<MailboxPending, MailboxPosted>>
  BY DEF TakeSignal, MailboxPending, MailboxPosted, InQueue
<1> QED
  BY <1>1, <1>2, <1>5, <1>6
     DEF Mailbox!Take, MailboxSlot, MailboxPending, MailboxPosted

(* A wait with a cancelled token gives up.                                 *)
LEMMA WaitCancelledMaps ==
  ASSUME EventInv, EventInv', NEW w \in Waiters, WaitCancelled(w)
  PROVE  Mailbox!GiveUp(w)
<1> USE EventAssumption DEF EventInv, TypeOK
<1>9. UNCHANGED resetter
  BY DEF WaitCancelled
<1> USE <1>9
<1>1. Outcome[w] = Empty /\ w \notin MailboxPending
  BY OutcomeProps DEF WaitCancelled, MailboxPending, InQueue, QueueSound
<1>2. MailboxSlot = Empty /\ MailboxSlot' = Empty
  BY DEF WaitCancelled, MailboxSlot, fields
<1>3. Outcome'[w] = Default
  BY DEF WaitCancelled, Outcome
<1>4. \A v \in Waiters \ {w} : Outcome'[v] = Outcome[v]
  BY OutcomeFrame DEF WaitCancelled
<1>5. Outcome' = [Outcome EXCEPT ![w] = Default]
  BY <1>3, <1>4, OutcomeUpdate
<1>6. UNCHANGED <<MailboxPending, MailboxPosted>>
  BY DEF WaitCancelled, MailboxPending, MailboxPosted, InQueue, fields
<1>7. MailboxPending \ {w} = MailboxPending
  BY <1>1
<1> QED
  BY <1>1, <1>2, <1>5, <1>6, <1>7
     DEF Mailbox!GiveUp, MailboxSlot, MailboxPending, MailboxPosted

(* Queueing up is Join, whatever the token does.                           *)
LEMMA EnqueueMaps ==
  ASSUME EventInv, EventInv', NEW w \in Waiters,
         \/ \E t \in {"none", "live"} : Enqueue(w, t)
         \/ EnqueueMissingCancel(w)
  PROVE  Mailbox!Join(w)
<1> USE EventAssumption DEF EventInv, TypeOK
<1>9. UNCHANGED resetter
  BY DEF Enqueue, EnqueueMissingCancel
<1> USE <1>9
<1>0. /\ waiter[w] = "new" /\ ~signaled
      /\ waits' = Append(waits, w)
      /\ waiter' = [waiter EXCEPT ![w] = "queued"]
      /\ \A v \in Waiters : v # w => canceller'[v] = canceller[v]
      /\ canceller'[w] # "removed"
      /\ UNCHANGED <<signaled, lastValue, result, setter, toRelease>>
  BY DEF Enqueue, EnqueueMissingCancel, Untouched
<1>1. Outcome[w] = Empty /\ w \notin MailboxPending
  BY <1>0, OutcomeProps DEF MailboxPending, InQueue, QueueSound
<1>2. MailboxSlot = Empty /\ MailboxSlot' = Empty
  BY <1>0 DEF MailboxSlot
<1>3. /\ 1..Len(waits') = (1..Len(waits)) \cup {Len(waits) + 1}
      /\ Len(waits) + 1 \notin 1..Len(waits)
      /\ waits'[Len(waits) + 1] = w
      /\ \A i \in 1..Len(waits) : waits'[i] = waits[i]
  BY <1>0
<1>4. MailboxPending' = MailboxPending \cup {w}
  <2>1. ASSUME NEW v \in Waiters PROVE InQueue(v)' <=> InQueue(v) \/ v = w
    BY ONLY <1>3 DEF InQueue
  <2> QED
    BY <2>1 DEF MailboxPending
<1>6. Outcome'[w] = Outcome[w]
  <2>1. ~ \E s \in Setters : setter'[s] = "releasing" /\ toRelease'[s] = w
    BY <1>0 DEF ClaimsDisjoint
  <2> QED
    BY <1>0, <1>1, <2>1 DEF Outcome
<1>7. \A v \in Waiters \ {w} : Outcome'[v] = Outcome[v]
  BY <1>0, OutcomeFrame
<1>8. UNCHANGED <<Outcome, MailboxPosted>>
  BY <1>0, <1>6, <1>7, OutcomeUnchanged DEF MailboxPosted
<1> QED
  BY <1>1, <1>2, <1>4, <1>8
     DEF Mailbox!Join, MailboxSlot, MailboxPending, MailboxPosted

-----------------------------------------------------------------------------
(* The steps of Set.                                                       *)

(* Set is Post: the claimed caller has its outcome at once.                *)
LEMMA SetMaps ==
  ASSUME EventInv, EventInv', NEW s \in Setters, Set(s)
  PROVE  Mailbox!Post(s)
<1> USE EventAssumption DEF EventInv, TypeOK
<1>9. UNCHANGED resetter
  BY DEF Set
<1> USE <1>9
<1>0. /\ MailboxPosted[s] = "new"
      /\ UNCHANGED <<waiter, result, canceller>>
  BY DEF Set, MailboxPosted
<1>1. CASE waits # <<>>
  <2> DEFINE w == Head(waits)
  <2>1. /\ waits' = Tail(waits)
        /\ toRelease' = [toRelease EXCEPT ![s] = w]
        /\ setter' = [setter EXCEPT ![s] = "releasing"]
        /\ UNCHANGED <<signaled, lastValue>>
    BY <1>1 DEF Set
  <2>2. /\ w \in Waiters /\ w = waits[1]
        /\ Len(waits) \in Nat /\ 1 \in 1..Len(waits)
        /\ Len(waits') = Len(waits) - 1
        /\ \A i \in 1..Len(waits') : waits'[i] = waits[i + 1]
    BY <1>1, <2>1, HeadTailProperties
  <2> HIDE DEF w
  <2>3. w \in MailboxPending
    BY <2>2 DEF MailboxPending, InQueue
  <2>4. MailboxPending' = MailboxPending \ {w}
    <3>1. ASSUME NEW v \in Waiters, InQueue(v)' PROVE InQueue(v) /\ v # w
      <4>1. PICK i \in 1..Len(waits') : waits'[i] = v
        BY <3>1 DEF InQueue
      <4>2. i + 1 \in 1..Len(waits) /\ waits[i + 1] = v /\ i + 1 # 1
        BY <2>2, <4>1
      <4> QED
        BY <2>2, <4>2 DEF InQueue, QueueSound
    <3>2. ASSUME NEW v \in Waiters, InQueue(v), v # w PROVE InQueue(v)'
      <4>1. PICK i \in 1..Len(waits) : waits[i] = v
        BY <3>2 DEF InQueue
      <4>2. i - 1 \in 1..Len(waits') /\ waits'[i - 1] = v
        BY <2>2, <3>2, <4>1
      <4> QED
        BY <4>2 DEF InQueue
    <3> QED
      BY <3>1, <3>2 DEF MailboxPending
  <2>5. Outcome'[w] = s
    <3>1. waiter[w] = "queued"
      BY <2>2 DEF QueueSound
    <3>2. \A t \in Setters : setter'[t] = "releasing" /\ toRelease'[t] = w <=> t = s
      BY <2>1, <2>2 DEF QueueSound
    <3>3. (CHOOSE t \in Setters : setter'[t] = "releasing" /\ toRelease'[t] = w) = s
      BY <3>2
    <3> QED
      BY <1>0, <2>2, <3>1, <3>2, <3>3 DEF Outcome
  <2>6. \A v \in Waiters \ {w} : Outcome'[v] = Outcome[v]
    <3>1. ASSUME NEW v \in Waiters \ {w}, NEW t \in Setters
          PROVE  (setter'[t] = "releasing" /\ toRelease'[t] = v)
                   <=> (setter[t] = "releasing" /\ toRelease[t] = v)
      BY <2>1 DEF Set
    <3> QED
      BY <1>0, <3>1, OutcomeFrame
  <2>7. Outcome' = [Outcome EXCEPT ![w] = s]
    BY <2>2, <2>5, <2>6, OutcomeUpdate
  <2>8. MailboxPosted' = [MailboxPosted EXCEPT ![s] = "accepted"]
    BY <2>1 DEF MailboxPosted
  <2>9. MailboxSlot' = MailboxSlot
    BY <2>1 DEF MailboxSlot
  <2> QED
    BY <1>0, <2>3, <2>4, <2>7, <2>8, <2>9
       DEF Mailbox!Post, MailboxSlot, MailboxPending, MailboxPosted
<1>2. CASE waits = <<>>
  <2>1. MailboxPending = {} /\ MailboxPending' = {}
    BY <1>2 DEF Set, MailboxPending, InQueue, fields
  <2>2. Outcome' = Outcome
    <3>1. ASSUME NEW v \in Waiters, NEW t \in Setters
          PROVE  (setter'[t] = "releasing" /\ toRelease'[t] = v)
                   <=> (setter[t] = "releasing" /\ toRelease[t] = v)
      BY <1>2 DEF Set
    <3> QED
      BY <1>0, <3>1, OutcomeFrame, OutcomeUnchanged
  <2>3. CASE ~signaled
    <3>1. MailboxSlot = Empty /\ MailboxSlot' = s
      BY <1>2, <2>3 DEF Set, MailboxSlot
    <3>2. setter' = [setter EXCEPT ![s] = "accepted"]
      BY <1>2, <2>3 DEF Set
    <3>3. MailboxPosted' = [MailboxPosted EXCEPT ![s] = "accepted"]
      BY <3>2 DEF MailboxPosted
    <3> QED
      BY <1>0, <2>1, <2>2, <3>1, <3>3
         DEF Mailbox!Post, MailboxSlot, MailboxPending, MailboxPosted
  <2>4. CASE signaled
    <3>1. MailboxSlot # Empty /\ MailboxSlot' = MailboxSlot
      BY <1>2, <2>4 DEF Set, MailboxSlot, fields
    <3>2. setter' = [setter EXCEPT ![s] = "refused"]
      BY <1>2, <2>4 DEF Set
    <3>3. MailboxPosted' = [MailboxPosted EXCEPT ![s] = "refused"]
      BY <3>2 DEF MailboxPosted
    <3> QED
      BY <1>0, <2>1, <2>2, <3>1, <3>3
         DEF Mailbox!Post, MailboxSlot, MailboxPending, MailboxPosted
  <2> QED
    BY <2>3, <2>4
<1> QED
  BY <1>1, <1>2

(* The release of a claimed caller shows the mailbox nothing new.          *)
LEMMA ReleaseMaps ==
  ASSUME EventInv, NEW s \in Setters, Release(s)
  PROVE  MailboxView' = MailboxView
<1> USE EventAssumption DEF EventInv, TypeOK
<1>9. UNCHANGED resetter
  BY DEF Release
<1> USE <1>9
<1> DEFINE w == toRelease[s]
<1>1. /\ setter[s] = "releasing"
      /\ w \in Waiters /\ waiter[w] = "queued"
      /\ \A t \in Setters : setter[t] = "releasing" /\ toRelease[t] = w => t = s
  BY DEF Release, ClaimsDisjoint
<1>2. /\ setter' = [setter EXCEPT ![s] = "accepted"]
      /\ result' = [result EXCEPT ![w] = s]
      /\ waiter' = [waiter EXCEPT ![w] = "done"]
      /\ UNCHANGED <<fields, canceller, toRelease>>
  BY <1>1 DEF Release, TrySetResult
<1>3. Outcome[w] = s
  BY <1>1, OutcomeProps
<1> HIDE DEF w
<1>4. Outcome'[w] = s
  BY <1>1, <1>2 DEF Outcome
<1>5. \A v \in Waiters \ {w} : Outcome'[v] = Outcome[v]
  <2>1. ASSUME NEW v \in Waiters \ {w}, NEW t \in Setters
        PROVE  (setter'[t] = "releasing" /\ toRelease'[t] = v)
                 <=> (setter[t] = "releasing" /\ toRelease[t] = v)
    BY <1>2 DEF w
  <2> QED
    BY <1>2, <2>1, OutcomeFrame
<1>6. Outcome' = Outcome
  BY <1>3, <1>4, <1>5, OutcomeUnchanged
<1>7. MailboxPosted' = MailboxPosted
  BY <1>1, <1>2 DEF MailboxPosted
<1>8. UNCHANGED <<MailboxSlot, MailboxPending>>
  BY <1>2 DEF MailboxSlot, MailboxPending, InQueue, fields
<1> QED
  BY <1>6, <1>7, <1>8 DEF MailboxView

-----------------------------------------------------------------------------
(* The steps of a cancellation.                                            *)

(* Only the cancelled caller leaves the queue.                             *)
LEMMA RemovedFromQueue ==
  ASSUME EventInv, NEW w \in Waiters, InQueue(w),
         waits' = RemoveMidQueue(waits, w)
  PROVE  \A v \in Waiters : InQueue(v)' <=> InQueue(v) /\ v # w
<1> DEFINE r == RemoveMidQueue(waits, w)
<1>1. TakenOut(r, waits, w)
  <2>1. waits \in Seq(Waiters) /\ Occurs(waits, w) /\ Distinct(waits)
    BY DEF InQueue, EventInv, TypeOK, QueueSound, Occurs, Distinct
  <2> QED
    BY <2>1, RemoveMidQueueProps
<1>2. waits' = r
  OBVIOUS
<1>3. Len(waits) \in Nat
  BY DEF EventInv, TypeOK
<1> HIDE DEF r
<1> QED
  BY ONLY <1>1, <1>2, <1>3 DEF InQueue, TakenOut

(* A caller that is taken out of the queue has given up; one that a Set    *)
(* has claimed before goes on.                                             *)
LEMMA CancelMaps ==
  ASSUME EventInv, EventInv', NEW w \in Waiters, Cancel(w)
  PROVE  Mailbox!GiveUp(w) \/ MailboxView' = MailboxView
<1> USE EventAssumption DEF EventInv, TypeOK
<1>9. UNCHANGED resetter
  BY DEF Cancel
<1> USE <1>9
<1>0. /\ waiter[w] = "queued"
      /\ UNCHANGED <<signaled, lastValue, waiter, result, setter, toRelease>>
  BY DEF Cancel
<1>1. CASE InQueue(w)
  <2> DEFINE r == RemoveMidQueue(waits, w)
  <2>1. /\ waits' = r
        /\ canceller' = [canceller EXCEPT ![w] = "removed"]
    BY <1>1 DEF Cancel
  <2>2. Outcome[w] = Empty /\ w \in MailboxPending
    BY <1>1, OutcomeProps DEF MailboxPending
  <2>3. MailboxSlot = Empty /\ MailboxSlot' = Empty
    BY <1>0, <1>1 DEF MailboxSlot, InQueue, NoLostWakeup
  <2>4. Outcome'[w] = Default
    <3>1. ~ \E s \in Setters : setter[s] = "releasing" /\ toRelease[s] = w
      BY <1>1 DEF InQueue, QueueSound
    <3> QED
      BY <1>0, <2>1, <3>1 DEF Outcome
  <2>5. \A v \in Waiters \ {w} : Outcome'[v] = Outcome[v]
    BY <1>0, <2>1, OutcomeFrame
  <2>6. Outcome' = [Outcome EXCEPT ![w] = Default]
    BY <2>4, <2>5, OutcomeUpdate
  <2>7. MailboxPending' = MailboxPending \ {w}
    BY <1>1, <2>1, RemovedFromQueue DEF MailboxPending
  <2>8. MailboxPosted' = MailboxPosted
    BY <1>0 DEF MailboxPosted
  <2> QED
    BY <2>2, <2>3, <2>6, <2>7, <2>8
       DEF Mailbox!GiveUp, MailboxSlot, MailboxPending, MailboxPosted
<1>2. CASE ~InQueue(w)
  <2>1. UNCHANGED <<MailboxSlot, MailboxPending, MailboxPosted>>
    BY <1>0, <1>2 DEF Cancel, MailboxSlot, MailboxPending, MailboxPosted, InQueue
  <2>2. Outcome' = Outcome
    <3>1. /\ canceller' = [canceller EXCEPT ![w] = "done"]
          /\ canceller[w] # "removed"
      BY <1>2 DEF Cancel, Untouched
    <3> QED
      BY <1>0, <3>1, OutcomeUnchanged DEF Outcome
  <2> QED
    BY <2>1, <2>2 DEF MailboxView
<1> QED
  BY <1>1, <1>2

(* Completing a removed caller shows nothing new.                          *)
LEMMA FinishCancelMaps ==
  ASSUME EventInv, NEW w \in Waiters, FinishCancel(w)
  PROVE  MailboxView' = MailboxView
<1> USE EventAssumption DEF EventInv, TypeOK
<1>9. UNCHANGED resetter
  BY DEF FinishCancel
<1> USE <1>9
<1>1. /\ canceller[w] = "removed" /\ waiter[w] = "queued"
      /\ canceller' = [canceller EXCEPT ![w] = "done"]
      /\ result' = [result EXCEPT ![w] = Default]
      /\ waiter' = [waiter EXCEPT ![w] = "done"]
      /\ UNCHANGED <<fields, setter, toRelease>>
  BY DEF FinishCancel, TrySetResult, ClaimsDisjoint
<1>2. Outcome[w] = Default /\ Outcome'[w] = Default
  BY <1>1, OutcomeProps DEF Outcome
<1>3. \A v \in Waiters \ {w} : Outcome'[v] = Outcome[v]
  BY <1>1, OutcomeFrame
<1>4. Outcome' = Outcome
  BY <1>2, <1>3, OutcomeUnchanged
<1>5. UNCHANGED <<MailboxSlot, MailboxPending, MailboxPosted>>
  BY <1>1 DEF MailboxSlot, MailboxPending, MailboxPosted, InQueue, fields
<1> QED
  BY <1>4, <1>5 DEF MailboxView

-----------------------------------------------------------------------------
(* The event starts as an empty mailbox.                                   *)
LEMMA InitMaps == Init => Mailbox!MailboxInit
<1> SUFFICES ASSUME Init PROVE Mailbox!MailboxInit
  OBVIOUS
<1>1. MailboxSlot = Empty /\ MailboxPending = {}
  BY DEF Init, MailboxSlot, MailboxPending, InQueue
<1>2. Outcome = [w \in Waiters |-> Empty]
  BY DEF Init, Outcome
<1>3. MailboxPosted = [s \in Setters |-> "new"]
  BY DEF Init, MailboxPosted
<1> QED
  BY <1>1, <1>2, <1>3
     DEF Init, Mailbox!MailboxInit, MailboxSlot, MailboxPending, MailboxPosted

(* A Reset erases the slot in its two steps.                               *)
LEMMA ResetMaps ==
  ASSUME EventInv, NEW r \in Resetters, ResetValue(r) \/ ResetSignal(r)
  PROVE  Mailbox!Blank(r) \/ Mailbox!Erase(r)
<1> USE EventAssumption DEF EventInv, TypeOK
<1>1. UNCHANGED <<waits, waiter, result, canceller, setter, toRelease>>
  BY DEF ResetValue, ResetSignal
<1>2. UNCHANGED <<Outcome, MailboxPending, MailboxPosted>>
  BY <1>1 DEF Outcome, MailboxPending, MailboxPosted, InQueue
<1>3. CASE ResetValue(r)
  <2>1. MailboxSlot' = IF MailboxSlot = Empty THEN Empty ELSE Default
    BY <1>3 DEF ResetValue, MailboxSlot
  <2> QED
    BY <1>2, <1>3, <2>1
       DEF ResetValue, Mailbox!Blank, MailboxSlot, MailboxPending, MailboxPosted
<1>4. CASE ResetSignal(r)
  <2>1. MailboxSlot' = Empty
    BY <1>4 DEF ResetSignal, MailboxSlot
  <2> QED
    BY <1>2, <1>4, <2>1
       DEF ResetSignal, Mailbox!Erase, MailboxSlot, MailboxPending, MailboxPosted
<1> QED
  BY <1>3, <1>4

(* Every step is a step of the mailbox or shows nothing.                   *)
LEMMA StepMaps ==
  ASSUME EventInv, EventInv', [Next]_vars
  PROVE  [Mailbox!MailboxNext]_(Mailbox!mvars)
<1>1. MailboxView' = MailboxView => UNCHANGED Mailbox!mvars
  BY DEF MailboxView, Mailbox!mvars, MailboxSlot, MailboxPending, MailboxPosted
<1>2. CASE UNCHANGED vars
  BY <1>1, <1>2 DEF vars, MailboxView, MailboxSlot, MailboxPending, MailboxPosted,
                    Outcome, InQueue
<1>3. ASSUME NEW s \in Setters, Set(s) \/ Release(s)
      PROVE  [Mailbox!MailboxNext]_(Mailbox!mvars)
  BY <1>1, <1>3, SetMaps, ReleaseMaps DEF Mailbox!MailboxNext
<1>4. ASSUME NEW w \in Waiters, WaitAsync(w) \/ Cancel(w) \/ FinishCancel(w)
      PROVE  [Mailbox!MailboxNext]_(Mailbox!mvars)
  BY <1>1, <1>4, TakeSignalMaps, WaitCancelledMaps, EnqueueMaps, CancelMaps,
     FinishCancelMaps DEF Mailbox!MailboxNext, WaitAsync
<1>5. ASSUME NEW r \in Resetters, ResetValue(r) \/ ResetSignal(r)
      PROVE  [Mailbox!MailboxNext]_(Mailbox!mvars)
  BY <1>5, ResetMaps DEF Mailbox!MailboxNext
<1> QED
  BY <1>2, <1>3, <1>4, <1>5 DEF Next

(* The event implements the mailbox.                                       *)
THEOREM EventImplementsMailbox == Spec => ImplementsMailbox
<1>1. EventInv /\ EventInv' /\ [Next]_vars => [Mailbox!MailboxNext]_(Mailbox!mvars)
  BY StepMaps
<1> QED
  BY <1>1, InitMaps, EventSafety, PTL DEF Spec, ImplementsMailbox, Mailbox!MailboxSpec

=============================================================================
