----------------------------- MODULE Negotiation -----------------------------
(***************************************************************************)
(* The number of jobs a client may have at the PLC is negotiated with each *)
(* connection.  The setup acknowledgement replaces the semaphore of the    *)
(* jobs when the number has changed, while jobs of an earlier connection   *)
(* hold a permit, wait for one or are about to ask.  What a job does with  *)
(* its permit is JobExchange; here it ends, answered or not.               *)
(***************************************************************************)
EXTENDS Integers, Sequences, FiniteSets, SequencesExt

CONSTANTS
  Jobs,          \* calls that send one job each
  MaxCalling,    \* the largest MaxAmQCalling a user asks for
  MaxSemaphores  \* bound: number of semaphores that are made

ASSUME NegotiationAssumption ==
  /\ MaxCalling \in Nat \ {0} /\ MaxSemaphores \in Nat
  /\ IsFiniteSet(Jobs)

Semaphores == 1..MaxSemaphores

VARIABLES
  calling,   \* _s7Context.MaxAmQCalling
  sema,      \* _concurrentJobs: a semaphore, 0 for null
  made,      \* number of semaphores so far
  size,      \* what each semaphore was made with
  free,      \* its permits
  line,      \* the jobs that wait for one, in order
  disposed,  \* the semaphores that are disposed of
  link,      \* "closed", "replaced", "agreed" or "opened"
  old,       \* oldSema of the acknowledgement, 0 for none
  client,    \* Dispose: "used", "clearing" or "disposed"
  pc,        \* progress of each job
  guard,     \* the semaphore the job has read from the field
  userSet    \* history: the user has changed calling since sema was made

semaVars == <<made, size, free, line, disposed>>
fieldVars == <<calling, sema, link, old, client, userSet>>
jobVars == <<pc, guard>>
vars == <<semaVars, fieldVars, jobVars>>

Init ==
  /\ calling \in 1..MaxCalling
  /\ sema = 0 /\ made = 0 /\ old = 0
  /\ size = [s \in Semaphores |-> 0] /\ free = [s \in Semaphores |-> 0]
  /\ line = [s \in Semaphores |-> <<>>]
  /\ disposed = {}
  /\ link = "closed" /\ client = "used"
  /\ pc = [j \in Jobs |-> "idle"] /\ guard = [j \in Jobs |-> 0]
  /\ userSet = FALSE

GoTo(j, p) == pc' = [pc EXCEPT ![j] = p]

-----------------------------------------------------------------------------
(* The connection and its number of jobs.                                  *)

(* The setter of MaxAmQCalling.                                            *)
SetCalling ==
  /\ link = "closed"
  /\ calling' \in 1..MaxCalling
  /\ userSet' = (sema # 0)
  /\ UNCHANGED <<semaVars, sema, link, old, client, jobVars>>

(* Slip: a smaller number is left to the PLC to enforce.                   *)
ReplacesLarger(granted) == sema = 0 \/ granted > calling

(* UpdateJobsSemaphore compares with the context, which the user may have  *)
(* changed since the semaphore was made.                                   *)
Replaces(granted) == sema = 0 \/ granted # calling

(* The acknowledgement of the PLC, which grants what it was asked for or   *)
(* less.                                                                   *)
SetupAck ==
  /\ link = "closed"
  /\ \E granted \in 1..calling :
       /\ calling' = granted
       /\ IF Replaces(granted)
            THEN /\ made < MaxSemaphores
                 /\ made' = made + 1
                 /\ size' = [size EXCEPT ![made'] = granted]
                 /\ free' = [free EXCEPT ![made'] = granted]
                 /\ sema' = made' /\ old' = sema
                 /\ link' = "replaced"
                 /\ userSet' = FALSE
            ELSE /\ link' = "agreed"
                 /\ UNCHANGED <<made, size, free, sema, old, userSet>>
  /\ UNCHANGED <<line, disposed, client, jobVars>>

(* oldSema?.Dispose(): nobody in its line is ever called.                  *)
DisposeOld ==
  /\ link = "replaced"
  /\ link' = "agreed"
  /\ disposed' = disposed \cup ({old} \ {0})
  /\ old' = 0
  /\ UNCHANGED <<made, size, free, line, calling, sema, client, userSet, jobVars>>

Opened ==
  /\ link = "agreed"
  /\ link' = "opened"
  /\ UNCHANGED <<semaVars, calling, sema, old, client, userSet, jobVars>>

(* Closed by the user, or lost.                                            *)
Closed ==
  /\ link = "opened"
  /\ link' = "closed"
  /\ UNCHANGED <<semaVars, calling, sema, old, client, userSet, jobVars>>

(* Dispose of the client disposes of the semaphore, and then forgets it.   *)
Dispose ==
  /\ client = "used"
  /\ client' = IF sema = 0 THEN "disposed" ELSE "clearing"
  /\ disposed' = disposed \cup ({sema} \ {0})
  /\ UNCHANGED <<made, size, free, line, calling, sema, link, old, userSet, jobVars>>

ClearField ==
  /\ client = "clearing"
  /\ client' = "disposed"
  /\ sema' = 0 /\ userSet' = FALSE
  /\ UNCHANGED <<semaVars, calling, link, old, jobVars>>

-----------------------------------------------------------------------------
(* A job: the field is tested, read again, and the semaphore asked.        *)

Start(j) ==
  /\ pc[j] = "idle" /\ link = "opened"
  /\ GoTo(j, "test")
  /\ UNCHANGED <<semaVars, fieldVars, guard>>

(* Without a semaphore the call returns empty.                             *)
Test(j) ==
  /\ pc[j] = "test"
  /\ GoTo(j, IF sema = 0 THEN "done" ELSE "fetch")
  /\ UNCHANGED <<semaVars, fieldVars, guard>>

(* Slip: SemaphoreGuard.Async relies on the test that was made before.     *)
FetchTested(j) ==
  /\ pc[j] = "fetch"
  /\ guard' = [guard EXCEPT ![j] = sema]
  /\ GoTo(j, "enter")
  /\ UNCHANGED <<semaVars, fieldVars>>

(* A field that is null by now makes SemaphoreGuard.Async throw.           *)
Fetch(j) ==
  /\ pc[j] = "fetch"
  /\ guard' = [guard EXCEPT ![j] = sema]
  /\ GoTo(j, IF sema = 0 THEN "done" ELSE "enter")
  /\ UNCHANGED <<semaVars, fieldVars>>

(* A semaphore that is disposed of throws, and the call returns empty.     *)
Enter(j) ==
  LET s == guard[j] IN
  /\ pc[j] = "enter"
  /\ \/ /\ s \in disposed
        /\ GoTo(j, "done") /\ UNCHANGED <<free, line>>
     \/ /\ s \notin disposed /\ free[s] > 0
        /\ free' = [free EXCEPT ![s] = @ - 1]
        /\ GoTo(j, "work") /\ UNCHANGED line
     \/ /\ s \notin disposed /\ free[s] = 0
        /\ line' = [line EXCEPT ![s] = Append(@, j)]
        /\ GoTo(j, "line") /\ UNCHANGED free
  /\ UNCHANGED <<made, size, disposed, fieldVars, guard>>

(* Answered, failed, timed out or cancelled.                               *)
Work(j) ==
  /\ pc[j] = "work"
  /\ GoTo(j, "leave")
  /\ UNCHANGED <<semaVars, fieldVars, guard>>

(* Slip: the permit is counted, and the line is not looked at.             *)
LeaveToCount(j) ==
  /\ pc[j] = "leave"
  /\ free' = [free EXCEPT ![guard[j]] = IF guard[j] \in disposed THEN @ ELSE @ + 1]
  /\ GoTo(j, "done")
  /\ UNCHANGED <<made, size, line, disposed, fieldVars, guard>>

(* Slip: a permit that is handed over is counted as free too.              *)
LeaveTwice(j) ==
  LET s == guard[j] IN
  /\ pc[j] = "leave"
  /\ free' = [free EXCEPT ![s] = IF s \in disposed THEN @ ELSE @ + 1]
  /\ IF s \in disposed \/ line[s] = <<>>
       THEN GoTo(j, "done") /\ UNCHANGED line
       ELSE /\ line' = [line EXCEPT ![s] = Tail(@)]
            /\ pc' = [pc EXCEPT ![j] = "done", ![Head(line[s])] = "work"]
  /\ UNCHANGED <<made, size, disposed, fieldVars, guard>>

(* The permit goes to the first in line, or is free.  One of a semaphore   *)
(* that is disposed of is lost with it; the job keeps its answer.          *)
Leave(j) ==
  LET s == guard[j] IN
  /\ pc[j] = "leave"
  /\ \/ /\ s \in disposed
        /\ GoTo(j, "done") /\ UNCHANGED <<free, line>>
     \/ /\ s \notin disposed /\ line[s] = <<>>
        /\ free' = [free EXCEPT ![s] = @ + 1]
        /\ GoTo(j, "done") /\ UNCHANGED line
     \/ /\ s \notin disposed /\ line[s] # <<>>
        /\ line' = [line EXCEPT ![s] = Tail(@)]
        /\ pc' = [pc EXCEPT ![j] = "done", ![Head(line[s])] = "work"]
        /\ UNCHANGED free
  /\ UNCHANGED <<made, size, disposed, fieldVars, guard>>

Job(j) == Test(j) \/ Fetch(j) \/ Enter(j) \/ Work(j) \/ Leave(j)

Next ==
  \/ SetCalling \/ SetupAck \/ DisposeOld \/ Opened \/ Closed \/ Dispose \/ ClearField
  \/ \E j \in Jobs : Start(j) \/ Job(j)

Spec == Init /\ [][Next]_vars

(* The thread of a job goes on; its wait for the answer has a timeout.     *)
FairSpec == Spec /\ \A j \in Jobs : WF_vars(Job(j))

-----------------------------------------------------------------------------
(* Properties.                                                             *)

(* The variables keep their types, and a job that is under way with a      *)
(* semaphore has read one that exists.                                     *)
TypeOK ==
  /\ calling \in 1..MaxCalling
  /\ made \in 0..MaxSemaphores /\ sema \in 0..made /\ old \in 0..made
  /\ size \in [Semaphores -> 0..MaxCalling] /\ free \in [Semaphores -> 0..MaxCalling]
  /\ line \in [Semaphores -> Seq(Jobs)]
  /\ disposed \subseteq 1..made
  /\ link \in {"closed", "replaced", "agreed", "opened"}
  /\ client \in {"used", "clearing", "disposed"}
  /\ pc \in [Jobs -> {"idle", "test", "fetch", "enter", "line", "work", "leave", "done"}]
  /\ guard \in [Jobs -> 0..made]
  /\ \A j \in Jobs : pc[j] \in {"enter", "line", "work", "leave"} => guard[j] # 0
  /\ userSet \in BOOLEAN

Holders(s) == {j \in Jobs : pc[j] \in {"work", "leave"} /\ guard[j] = s}
Waiting(s) == {j \in Jobs : pc[j] = "line" /\ guard[j] = s}

(* A replacement neither makes nor loses a permit of a semaphore in use:   *)
(* what is free and what is held are what it was made with, and the line,  *)
(* of exactly the jobs that wait, stands only while none is free.  Of one  *)
(* that is disposed of there are never more.                               *)
PermitsOfEach ==
  \A s \in Semaphores :
    /\ free[s] + Cardinality(Holders(s)) <= size[s]
    /\ s \notin disposed =>
         /\ free[s] + Cardinality(Holders(s)) = size[s]
         /\ line[s] # <<>> => free[s] = 0
    /\ ToSet(line[s]) = Waiting(s) /\ IsInjective(line[s])

(* While the client is connected and the user has not changed MaxAmQCalling *)
(* since the semaphore was made, jobs that hold a permit of it are not more *)
(* than what the PLC has agreed to.                                        *)
AgreedJobs ==
  link = "opened" /\ sema # 0 /\ ~userSet =>
    size[sema] = calling /\ Cardinality(Holders(sema)) <= calling

(* A job that has been started ends, whatever happens to the semaphore,    *)
(* unless it stands in the line of one that is disposed of.                *)
Stranded(j) == pc[j] = "line" /\ guard[j] \in disposed
JobsReturn == \A j \in Jobs : pc[j] = "test" ~> (pc[j] = "done" \/ Stranded(j))
=============================================================================
