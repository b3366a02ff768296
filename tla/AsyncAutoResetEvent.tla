------------------------- MODULE AsyncAutoResetEvent -------------------------
(***************************************************************************)
(* The one-shot signalling primitive of the library                        *)
(* (Helper/AsyncAutoResetEvent.cs): every request to the PLC waits for its *)
(* answer in one, and so does ConnectAsync.  Set and WaitAsync work under  *)
(* the lock of the queue, but the release of a dequeued waiter, the        *)
(* cancellation of a token and Reset do not; those are steps of their own. *)
(***************************************************************************)
EXTENDS Naturals, Sequences

CONSTANTS
  Waiters,    \* calls of WaitAsync, one caller each
  Setters,    \* calls of Set; the call s sets the value s
  Resetters,  \* calls of Reset
  Default,    \* default(T)
  Empty       \* no result yet; nobody to release

ASSUME EventAssumption ==
  /\ Default \notin Setters
  /\ Empty \notin Setters \cup Waiters
  /\ Default # Empty

VARIABLES
  waits,      \* _waits: the queue of task sources, one per waiting caller
  signaled,   \* _signaled
  lastValue,  \* _lastValue
  waiter,     \* progress of each WaitAsync: "new", "queued", "done"
  result,     \* the result of its task
  token,      \* its token: "none", "live", "cancelled"
  canceller,  \* its cancel callback: "idle", "removed", "missed", "done"
  setter,     \* progress of each Set: "new", "releasing", "accepted", "refused"
  toRelease,  \* the waiter a Set took from the queue
  resetter    \* progress of each Reset: "new", "cleared", "done"

fields == <<waits, signaled, lastValue>>
vars == <<waits, signaled, lastValue, waiter, result, token, canceller,
          setter, toRelease, resetter>>

Init ==
  /\ waits = <<>>
  /\ signaled = FALSE
  /\ lastValue = Default
  /\ waiter = [w \in Waiters |-> "new"]
  /\ result = [w \in Waiters |-> Empty]
  /\ token = [w \in Waiters |-> "none"]
  /\ canceller = [w \in Waiters |-> "idle"]
  /\ setter = [s \in Setters |-> "new"]
  /\ toRelease = [s \in Setters |-> Empty]
  /\ resetter = [r \in Resetters |-> "new"]

-----------------------------------------------------------------------------
(* The queue.                                                              *)

InQueue(w) == \E i \in 1..Len(waits) : waits[i] = w

(* RemoveMidQueue: the queue without its first entry for w.                *)
RemoveMidQueue(q, w) ==
  LET k == CHOOSE i \in 1..Len(q) : q[i] = w /\ \A j \in 1..(i - 1) : q[j] # w
  IN  [i \in 1..(Len(q) - 1) |-> IF i < k THEN q[i] ELSE q[i + 1]]

(* TrySetResult: the first result of a task stays.                         *)
TrySetResult(w, value) ==
  IF waiter[w] = "queued"
    THEN /\ result' = [result EXCEPT ![w] = value]
         /\ waiter' = [waiter EXCEPT ![w] = "done"]
    ELSE UNCHANGED <<result, waiter>>

-----------------------------------------------------------------------------
(* Slips a change of this code could make.  No specification uses them;    *)
(* each one is noticed by a property below, README.md says by which.       *)

(* Reset stores null instead of default(T).                                *)
ResetValueToEmpty(r) ==
  /\ resetter[r] = "new"
  /\ resetter' = [resetter EXCEPT ![r] = "cleared"]
  /\ lastValue' = Empty
  /\ UNCHANGED <<waits, signaled, waiter, result, token, canceller, setter,
                 toRelease>>

(* Set does not look whether somebody waits.                               *)
SetIgnoringQueue(s) ==
  /\ setter[s] = "new" /\ ~signaled
  /\ signaled' = TRUE
  /\ lastValue' = s
  /\ setter' = [setter EXCEPT ![s] = "accepted"]
  /\ UNCHANGED <<waits, toRelease, waiter, result, token, canceller, resetter>>

(* Set replaces a value that nobody has taken yet.                         *)
SetOverwriting(s) ==
  /\ setter[s] = "new" /\ waits = <<>>
  /\ signaled' = TRUE
  /\ lastValue' = s
  /\ setter' = [setter EXCEPT ![s] = "accepted"]
  /\ UNCHANGED <<waits, toRelease, waiter, result, token, canceller, resetter>>

(* WaitAsync does not clear the flag of the value it takes.                *)
TakeSignalKeepingIt(w) ==
  /\ waiter[w] = "new" /\ signaled
  /\ result' = [result EXCEPT ![w] = lastValue]
  /\ waiter' = [waiter EXCEPT ![w] = "done"]
  /\ UNCHANGED <<fields, token, canceller, setter, toRelease, resetter>>

(* The cancel callback does not take the caller out of the queue.          *)
CancelInQueue(w) ==
  /\ waiter[w] = "queued" /\ token[w] = "live"
  /\ token' = [token EXCEPT ![w] = "cancelled"]
  /\ canceller' = [canceller EXCEPT ![w] = "removed"]
  /\ UNCHANGED <<fields, waiter, result, setter, toRelease, resetter>>

(* The cancel callback completes a caller that a Set has already claimed.  *)
CancelClaimed(w) ==
  /\ waiter[w] = "queued" /\ token[w] = "live"
  /\ token' = [token EXCEPT ![w] = "cancelled"]
  /\ canceller' = [canceller EXCEPT ![w] = "removed"]
  /\ waits' = IF InQueue(w) THEN RemoveMidQueue(waits, w) ELSE waits
  /\ UNCHANGED <<signaled, lastValue, waiter, result, setter, toRelease,
                 resetter>>

(* The cancel callback removes the caller and does not complete its task.  *)
FinishCancelSilently(w) ==
  /\ canceller[w] = "removed"
  /\ canceller' = [canceller EXCEPT ![w] = "done"]
  /\ UNCHANGED <<fields, waiter, result, token, setter, toRelease, resetter>>

-----------------------------------------------------------------------------
(* WaitAsync, with a token that never cancels (no timeout), one that may   *)
(* still cancel (a timeout, a caller's token) or one that has (timeout 0). *)

(* The event is signaled: the caller consumes the stored value.            *)
TakeSignal(w) ==
  /\ waiter[w] = "new" /\ signaled
  /\ result' = [result EXCEPT ![w] = lastValue]
  /\ waiter' = [waiter EXCEPT ![w] = "done"]
  /\ lastValue' = Default
  /\ signaled' = FALSE
  /\ UNCHANGED <<waits, token, canceller, setter, toRelease, resetter>>

(* The token is already cancelled: the default value, nothing is queued.   *)
WaitCancelled(w) ==
  /\ waiter[w] = "new" /\ ~signaled
  /\ result' = [result EXCEPT ![w] = Default]
  /\ waiter' = [waiter EXCEPT ![w] = "done"]
  /\ token' = [token EXCEPT ![w] = "cancelled"]
  /\ UNCHANGED <<fields, canceller, setter, toRelease, resetter>>

(* The caller queues up.                                                   *)
Enqueue(w, t) ==
  /\ waiter[w] = "new" /\ ~signaled
  /\ waits' = Append(waits, w)
  /\ waiter' = [waiter EXCEPT ![w] = "queued"]
  /\ token' = [token EXCEPT ![w] = t]
  /\ UNCHANGED <<signaled, lastValue, result, canceller, setter, toRelease,
                 resetter>>

(* The token cancels after it was tested and before the callback is        *)
(* registered: Register runs the callback at once, on this thread, and it  *)
(* finds no entry because the caller is only enqueued afterwards.          *)
EnqueueMissingCancel(w) ==
  /\ waiter[w] = "new" /\ ~signaled
  /\ waits' = Append(waits, w)
  /\ waiter' = [waiter EXCEPT ![w] = "queued"]
  /\ token' = [token EXCEPT ![w] = "cancelled"]
  /\ canceller' = [canceller EXCEPT ![w] = "missed"]
  /\ UNCHANGED <<signaled, lastValue, result, setter, toRelease, resetter>>

WaitAsync(w) ==
  \/ TakeSignal(w)
  \/ WaitCancelled(w)
  \/ \E t \in {"none", "live"} : Enqueue(w, t)
  \/ EnqueueMissingCancel(w)

(* A timeout elapses, or a caller cancels its token, while the wait is     *)
(* registered: the callback takes the caller out of the queue if it is     *)
(* still there.                                                            *)
Cancel(w) ==
  /\ waiter[w] = "queued" /\ token[w] = "live"
  /\ token' = [token EXCEPT ![w] = "cancelled"]
  /\ IF InQueue(w)
       THEN /\ waits' = RemoveMidQueue(waits, w)
            /\ canceller' = [canceller EXCEPT ![w] = "removed"]
       ELSE /\ canceller' = [canceller EXCEPT ![w] = "done"]
            /\ UNCHANGED waits
  /\ UNCHANGED <<signaled, lastValue, waiter, result, setter, toRelease,
                 resetter>>

(* Outside the lock the callback completes a caller it has removed.        *)
FinishCancel(w) ==
  /\ canceller[w] = "removed"
  /\ canceller' = [canceller EXCEPT ![w] = "done"]
  /\ TrySetResult(w, Default)
  /\ UNCHANGED <<fields, token, setter, toRelease, resetter>>

-----------------------------------------------------------------------------
(* Set: under the lock it takes the first caller, or stores the value, or  *)
(* gives up; the caller is released after the lock.                        *)
Set(s) ==
  /\ setter[s] = "new"
  /\ \/ /\ waits # <<>>
        /\ toRelease' = [toRelease EXCEPT ![s] = Head(waits)]
        /\ waits' = Tail(waits)
        /\ setter' = [setter EXCEPT ![s] = "releasing"]
        /\ UNCHANGED <<signaled, lastValue>>
     \/ /\ waits = <<>> /\ ~signaled
        /\ signaled' = TRUE
        /\ lastValue' = s
        /\ setter' = [setter EXCEPT ![s] = "accepted"]
        /\ UNCHANGED <<waits, toRelease>>
     \/ /\ waits = <<>> /\ signaled
        /\ setter' = [setter EXCEPT ![s] = "refused"]
        /\ UNCHANGED <<fields, toRelease>>
  /\ UNCHANGED <<waiter, result, token, canceller, resetter>>

Release(s) ==
  /\ setter[s] = "releasing"
  /\ setter' = [setter EXCEPT ![s] = "accepted"]
  /\ TrySetResult(toRelease[s], s)
  /\ UNCHANGED <<fields, token, canceller, toRelease, resetter>>

(* Reset takes no lock: the value and the flag are cleared one by one.     *)
ResetValue(r) ==
  /\ resetter[r] = "new"
  /\ resetter' = [resetter EXCEPT ![r] = "cleared"]
  /\ lastValue' = Default
  /\ UNCHANGED <<waits, signaled, waiter, result, token, canceller, setter,
                 toRelease>>

ResetSignal(r) ==
  /\ resetter[r] = "cleared"
  /\ resetter' = [resetter EXCEPT ![r] = "done"]
  /\ signaled' = FALSE
  /\ UNCHANGED <<waits, lastValue, waiter, result, token, canceller, setter,
                 toRelease>>

-----------------------------------------------------------------------------
Next ==
  \/ \E w \in Waiters : WaitAsync(w) \/ Cancel(w) \/ FinishCancel(w)
  \/ \E s \in Setters : Set(s) \/ Release(s)
  \/ \E r \in Resetters : ResetValue(r) \/ ResetSignal(r)

Spec == Init /\ [][Next]_vars

(* A thread that has started an operation finishes it.                     *)
Fairness ==
  /\ \A w \in Waiters : WF_vars(FinishCancel(w))
  /\ \A s \in Setters : WF_vars(Release(s))

FairSpec == Spec /\ Fairness

-----------------------------------------------------------------------------
(* Every variable has its type.                                            *)
TypeOK ==
  /\ waits \in Seq(Waiters)
  /\ signaled \in BOOLEAN
  /\ lastValue \in Setters \cup {Default}
  /\ waiter \in [Waiters -> {"new", "queued", "done"}]
  /\ result \in [Waiters -> Setters \cup {Default, Empty}]
  /\ token \in [Waiters -> {"none", "live", "cancelled"}]
  /\ canceller \in [Waiters -> {"idle", "removed", "missed", "done"}]
  /\ setter \in [Setters -> {"new", "releasing", "accepted", "refused"}]
  /\ toRelease \in [Setters -> Waiters \cup {Empty}]
  /\ resetter \in [Resetters -> {"new", "cleared", "done"}]

(* No wakeup is lost: nobody waits in the queue of a signaled event, since *)
(* Set prefers a queued caller and WaitAsync a stored value.               *)
NoLostWakeup == signaled => waits = <<>>

(* A caller in the queue is really waiting, is there once, and has been    *)
(* claimed by no Set and by no cancel callback: each waiter is completed   *)
(* by whoever took it out of the queue, and by nobody else.                *)
QueueSound ==
  /\ \A i \in 1..Len(waits) :
       /\ waiter[waits[i]] = "queued"
       /\ canceller[waits[i]] \in {"idle", "missed"}
       /\ \A s \in Setters : setter[s] = "releasing" => toRelease[s] # waits[i]
  /\ \A i, j \in 1..Len(waits) : waits[i] = waits[j] => i = j

(* A Set that has claimed a waiter will complete it: the waiter still      *)
(* waits, and neither another Set nor a timeout has claimed it too.        *)
ClaimsDisjoint ==
  /\ \A s \in Setters : setter[s] = "releasing" =>
       /\ toRelease[s] \in Waiters
       /\ waiter[toRelease[s]] = "queued"
       /\ canceller[toRelease[s]] # "removed"
       /\ \A t \in Setters :
            setter[t] = "releasing" /\ toRelease[t] = toRelease[s] => t = s
  /\ \A w \in Waiters : canceller[w] = "removed" => waiter[w] = "queued"

(* Each set value reaches at most one caller, only if its Set answered     *)
(* true, and not while it is also still stored for the next caller.        *)
ReceivedOnce ==
  /\ \A v, w \in Waiters : result[v] = result[w] /\ result[v] \in Setters => v = w
  /\ \A w \in Waiters : result[w] \in Setters =>
       /\ setter[result[w]] = "accepted"
       /\ ~(signaled /\ lastValue = result[w])
  /\ lastValue \in Setters => setter[lastValue] = "accepted"

(* Set answers true only for a value that is stored or that a caller gets, *)
(* until somebody calls Reset: the race between a release and a timeout of *)
(* the same caller never swallows a value.                                 *)
AcceptedIsDelivered ==
  (\A r \in Resetters : resetter[r] = "new") =>
    \A s \in Setters : setter[s] = "accepted" =>
      \/ signaled /\ lastValue = s
      \/ \E w \in Waiters : result[w] = s

(* A caller that a timeout or a Set has taken out of the queue returns.    *)
ClaimedWaiterReturns ==
  \A w \in Waiters :
    (waiter[w] = "queued" /\ ~InQueue(w)) ~> (waiter[w] = "done")

-----------------------------------------------------------------------------
(* The refinement: the event implements the mailbox.  A claimed caller has *)
(* its outcome from the moment it leaves the queue.                        *)
Outcome ==
  [w \in Waiters |->
    IF waiter[w] = "done" THEN result[w]
    ELSE IF \E s \in Setters : setter[s] = "releasing" /\ toRelease[s] = w
      THEN CHOOSE s \in Setters : setter[s] = "releasing" /\ toRelease[s] = w
    ELSE IF canceller[w] = "removed" THEN Default
    ELSE Empty]

Mailbox == INSTANCE EventMailbox WITH
  slot <- IF signaled THEN lastValue ELSE Empty,
  pending <- {w \in Waiters : InQueue(w)},
  outcome <- Outcome,
  posted <- [s \in Setters |->
               IF setter[s] = "releasing" THEN "accepted" ELSE setter[s]],
  reset <- resetter

(* Every behaviour of the event, with its unlocked Reset, is one of the    *)
(* mailbox.                                                                *)
ImplementsMailbox == Mailbox!MailboxSpec
=============================================================================
