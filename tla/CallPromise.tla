----------------------------- MODULE CallPromise -----------------------------
(***************************************************************************)
(* What ReadAsync and WriteAsync promise their callers: the packages of a  *)
(* call go out one after the other, each at most once and never more at a  *)
(* time than there are jobs agreed; the call goes on with a package only   *)
(* when it has the answer to that package, an answer it has taken is never *)
(* lost, and it succeeds after the last one.  Whatever else happens, to a  *)
(* package or on the way to it, makes the call fail.  Once references have *)
(* come round an answer may be a foreign one.                              *)
(***************************************************************************)
EXTENDS Naturals, FiniteSets

CONSTANTS
  Jobs,      \* calls
  Packages,  \* Packages[j]: how many packages the items of the call need
  Permits,   \* how many packages may be with the PLC at a time
  Null       \* no answer

VARIABLES
  stage,     \* where a call stands
  answered,  \* how many of its packages are answered
  answer,    \* the answer it has taken and not used yet, or Null
  outcome,   \* how it ended
  reused     \* whether references have come round

pvars == <<stage, answered, answer, outcome, reused>>

Failures == {"NotConnected", "Empty", "JobError", "Timeout"}

PromiseInit ==
  /\ stage = [j \in Jobs |-> "new"]
  /\ answered = [j \in Jobs |-> 0]
  /\ answer = [j \in Jobs |-> Null]
  /\ outcome = [j \in Jobs |-> "none"]
  /\ reused = FALSE

(* The call begins; it may be turned away at once ...                      *)
Begin(j) ==
  /\ stage[j] = "new"
  /\ stage' = [stage EXCEPT ![j] = "running"]
  /\ UNCHANGED <<answered, answer, outcome, reused>>

TurnAway(j) ==
  /\ stage[j] = "new"
  /\ stage' = [stage EXCEPT ![j] = "done"]
  /\ outcome' = [outcome EXCEPT ![j] = "NotConnected"]
  /\ UNCHANGED <<answered, answer, reused>>

(* ... and a package may find no way to the PLC.                           *)
GiveUp(j) ==
  /\ stage[j] = "running"
  /\ stage' = [stage EXCEPT ![j] = "failing"]
  /\ UNCHANGED <<answered, answer, outcome, reused>>

Asking == {j \in Jobs : stage[j] = "asking"}

(* The next package goes to the PLC.                                       *)
Ask(j) ==
  /\ stage[j] = "running"
  /\ Cardinality(Asking) < Permits
  /\ stage' = [stage EXCEPT ![j] = "asking"]
  /\ UNCHANGED <<answered, answer, outcome, reused>>

(* Its answer is taken.                                                    *)
Take(j) ==
  /\ stage[j] = "asking" /\ answer[j] = Null
  /\ answer'[j] \in IF reused THEN Jobs \X Nat ELSE {<<j, answered[j] + 1>>}
  /\ answer' = [answer EXCEPT ![j] = answer'[j]]
  /\ UNCHANGED <<stage, answered, outcome, reused>>

(* The package is over, with an answer or without.                         *)
EndPackage(j) ==
  /\ stage[j] = "asking"
  /\ stage' = [stage EXCEPT ![j] = IF answer[j] = Null THEN "failing" ELSE "answered"]
  /\ UNCHANGED <<answered, answer, outcome, reused>>

(* The answer is used.                                                     *)
GoOn(j) ==
  /\ stage[j] = "answered" /\ answered[j] + 1 < Packages[j]
  /\ stage' = [stage EXCEPT ![j] = "running"]
  /\ answered' = [answered EXCEPT ![j] = @ + 1]
  /\ answer' = [answer EXCEPT ![j] = Null]
  /\ UNCHANGED <<outcome, reused>>

Succeed(j) ==
  /\ stage[j] = "answered" /\ answered[j] + 1 = Packages[j]
  /\ stage' = [stage EXCEPT ![j] = "done"]
  /\ outcome' = [outcome EXCEPT ![j] = "Success"]
  /\ answered' = [answered EXCEPT ![j] = @ + 1]
  /\ answer' = [answer EXCEPT ![j] = Null]
  /\ UNCHANGED reused

Fail(j) ==
  /\ stage[j] = "failing"
  /\ stage' = [stage EXCEPT ![j] = "done"]
  /\ \E how \in Failures : outcome' = [outcome EXCEPT ![j] = how]
  /\ UNCHANGED <<answered, answer, reused>>

ReuseReferences ==
  /\ reused' = TRUE
  /\ UNCHANGED <<stage, answered, answer, outcome>>

PromiseNext ==
  \/ \E j \in Jobs : \/ Begin(j) \/ TurnAway(j) \/ GiveUp(j) \/ Ask(j) \/ Take(j)
                     \/ EndPackage(j) \/ GoOn(j) \/ Succeed(j) \/ Fail(j)
  \/ ReuseReferences

PromiseSpec == PromiseInit /\ [][PromiseNext]_pvars
=============================================================================
