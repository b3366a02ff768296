---------------------------- MODULE EventMailbox ----------------------------
(***************************************************************************)
(* What AsyncAutoResetEvent promises its users: a mailbox that holds at    *)
(* most one value.  A posted value goes to exactly one waiting caller, or  *)
(* stays in the slot until a caller comes; a post that finds the slot full *)
(* is refused.  A waiting caller may give up with the default value.  A    *)
(* reset erases the value in two steps: whoever comes in between takes the *)
(* default value for a value that was set.  The request/answer exchange of *)
(* ProtocolHandler, which never resets, is built on this promise.          *)
(***************************************************************************)
CONSTANTS
  Waiters,    \* calls of WaitAsync
  Setters,    \* calls of Set; the call s posts the value s
  Resetters,  \* calls of Reset
  Default,    \* default(T), what a caller that gives up gets
  Empty       \* no value

VARIABLES
  slot,       \* the stored value, or Empty
  pending,    \* the callers that wait
  outcome,    \* what each caller got, Empty while it got nothing
  posted,     \* the fate of each post: "new", "accepted" or "refused"
  reset       \* the progress of each reset: "new", "cleared" or "done"

mvars == <<slot, pending, outcome, posted, reset>>

MailboxInit ==
  /\ slot = Empty
  /\ pending = {}
  /\ outcome = [w \in Waiters |-> Empty]
  /\ posted = [s \in Setters |-> "new"]
  /\ reset = [r \in Resetters |-> "new"]

(* A post hands its value to a waiting caller, fills the empty slot, or is *)
(* refused because the slot is full.                                       *)
Post(s) ==
  /\ posted[s] = "new"
  /\ \/ \E w \in pending :
          /\ pending' = pending \ {w}
          /\ outcome' = [outcome EXCEPT ![w] = s]
          /\ posted' = [posted EXCEPT ![s] = "accepted"]
          /\ UNCHANGED slot
     \/ /\ pending = {} /\ slot = Empty
        /\ slot' = s
        /\ posted' = [posted EXCEPT ![s] = "accepted"]
        /\ UNCHANGED <<pending, outcome>>
     \/ /\ pending = {} /\ slot # Empty
        /\ posted' = [posted EXCEPT ![s] = "refused"]
        /\ UNCHANGED <<slot, pending, outcome>>
  /\ UNCHANGED reset

(* A caller takes the stored value.                                        *)
Take(w) ==
  /\ outcome[w] = Empty /\ w \notin pending
  /\ slot # Empty
  /\ outcome' = [outcome EXCEPT ![w] = slot]
  /\ slot' = Empty
  /\ UNCHANGED <<pending, posted, reset>>

(* A caller that finds the slot empty waits ...                            *)
Join(w) ==
  /\ outcome[w] = Empty /\ w \notin pending
  /\ slot = Empty
  /\ pending' = pending \cup {w}
  /\ UNCHANGED <<slot, outcome, posted, reset>>

(* ... and one that waits, or would have to, may give up.                  *)
GiveUp(w) ==
  /\ outcome[w] = Empty
  /\ slot = Empty
  /\ outcome' = [outcome EXCEPT ![w] = Default]
  /\ pending' = pending \ {w}
  /\ UNCHANGED <<slot, posted, reset>>

(* A reset makes a stored value the default value ...                      *)
Blank(r) ==
  /\ reset[r] = "new"
  /\ reset' = [reset EXCEPT ![r] = "cleared"]
  /\ slot' = IF slot = Empty THEN Empty ELSE Default
  /\ UNCHANGED <<pending, outcome, posted>>

(* ... and then empties the slot, of a value posted meanwhile as well.     *)
Erase(r) ==
  /\ reset[r] = "cleared"
  /\ reset' = [reset EXCEPT ![r] = "done"]
  /\ slot' = Empty
  /\ UNCHANGED <<pending, outcome, posted>>

MailboxNext ==
  \/ \E s \in Setters : Post(s)
  \/ \E w \in Waiters : Take(w) \/ Join(w) \/ GiveUp(w)
  \/ \E r \in Resetters : Blank(r) \/ Erase(r)

MailboxSpec == MailboxInit /\ [][MailboxNext]_mvars
=============================================================================
