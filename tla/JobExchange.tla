----------------------------- MODULE JobExchange -----------------------------
(***************************************************************************)
(* The request/answer exchange of ProtocolHandler: ReadAsync and           *)
(* WriteAsync send a call's packages one after the other, each under a     *)
(* permit of the jobs semaphore and with an entry in the table of its kind *)
(* that lets the receive loop find the waiting caller.  Closing and losing *)
(* the connection cancel the waiting callers.  The connection itself is    *)
(* reduced to what the calls see of it; module Connection has the details. *)
(* The event a caller waits on is a slot for one value, which is what      *)
(* AsyncAutoResetEvent implements (EventMailbox).                          *)
(***************************************************************************)
EXTENDS Naturals, Sequences, FiniteSets

CONSTANTS
  Jobs,        \* calls of ReadAsync and WriteAsync
  Kind,        \* Kind[j]: "read" or "write"
  Packages,    \* Packages[j]: how many packages the items of the call need
  Permits,     \* the negotiated MaxAmQCalling
  RefModulus,  \* number of references: 2^16, references are ushorts
  MaxEpoch,    \* bound: number of connections that are made
  Disturbances,\* bound: of "close" and "break", what happens to them
  Nobody,      \* no entry in a handler table
  Null,        \* a null result
  Empty        \* no value in an event; nothing in the receive loop

Kinds == {"read", "write"}

ASSUME ExchangeAssumption ==
  /\ IsFiniteSet(Jobs) /\ Nobody \notin Jobs
  /\ Kind \in [Jobs -> Kinds]
  /\ Packages \in [Jobs -> Nat \ {0}]
  /\ Permits \in Nat \ {0}
  /\ RefModulus \in Nat /\ RefModulus > 1
  /\ MaxEpoch \in Nat
  /\ Disturbances \subseteq {"close", "break"}
  /\ Null # Empty /\ {Null, Empty} \cap (Jobs \X Nat) = {}

Ids == 1..(RefModulus - 1)
Keys == Kinds \X Ids
Requests == Jobs \X Nat  \* package p of call j; an answer names its request

VARIABLES
  pc,              \* progress of each call
  package,         \* the package it is at
  id,              \* the reference of that package
  referenceId,     \* the low 16 bits of _referenceId
  wrapped,         \* history: whether the references have come round
  permits,         \* free permits of _concurrentJobs
  queue,           \* the calls that wait for a permit
  handlers,        \* _readHandler and _writeHandler: the call behind each key
  slot,            \* the event of the call's callback handler
  exception,       \* whether that handler's Exception is set
  results,         \* readResults / writeResults
  outcome,         \* how the call ended
  sentOn           \* history: the connection its request went out on, or 0

VARIABLES
  wire,            \* requests the PLC may answer
  receiving,       \* the answer the receive loop is about to hand over
  closeCalled,     \* _closeCalled
  connectionState, \* ConnectionState
  socket,          \* _socket: "none", "up" or "broken" (the peer is gone)
  isConnected,     \* IsConnected of the socket
  epoch,           \* number of the current connection
  phase,           \* progress of each cancellation; 0 is the one of CloseAsync
  counted,         \* how many entries ToList() has counted before it copies
  todo,            \* the handlers it still has to cancel
  failedCopies     \* history: the tables a cancellation failed to copy

refVars == <<referenceId, wrapped>>
callVars == <<pc, package, id, refVars, results, outcome, sentOn>>
semaVars == <<permits, queue>>
tableVars == <<handlers, slot, exception>>
linkVars == <<closeCalled, connectionState, socket, isConnected, epoch>>
cancelVars == <<phase, counted, todo, failedCopies>>
vars == <<callVars, semaVars, tableVars, linkVars, cancelVars, wire, receiving>>

Init ==
  /\ pc = [j \in Jobs |-> "new"]
  /\ package = [j \in Jobs |-> 1]
  /\ id = [j \in Jobs |-> 1]
  /\ referenceId = 0
  /\ wrapped = FALSE
  /\ permits = Permits
  /\ queue = <<>>
  /\ handlers = [k \in Keys |-> Nobody]
  /\ slot = [j \in Jobs |-> Empty]
  /\ exception = [j \in Jobs |-> FALSE]
  /\ results = [j \in Jobs |-> Null]
  /\ outcome = [j \in Jobs |-> "none"]
  /\ sentOn = [j \in Jobs |-> 0]
  /\ wire = {}
  /\ receiving = Empty
  /\ closeCalled = FALSE
  /\ connectionState = "Closed"
  /\ socket = "none"
  /\ isConnected = FALSE
  /\ epoch = 0
  /\ phase = [c \in 0..MaxEpoch |-> "idle"]
  /\ counted = [c \in 0..MaxEpoch |-> 0]
  /\ todo = [c \in 0..MaxEpoch |-> {}]
  /\ failedCopies = {}

-----------------------------------------------------------------------------
(* Slips a change of this code could make, here and before the operations  *)
(* of a call.  No specification uses them; each one is noticed by a        *)
(* property below, README.md says by which.                                *)

(* The reference 0 is not left out.                                        *)
NextReferenceWithZero == IF referenceId + 1 < RefModulus THEN referenceId + 1 ELSE 0

(* Every package has the same reference.                                   *)
NextReferenceStuck == IF referenceId = 0 THEN 1 ELSE referenceId

-----------------------------------------------------------------------------
(* Helpers.                                                                *)

Key(j) == <<Kind[j], id[j]>>

(* GetNextReferenceId: the low 16 bits of a counter; 0 is left out.        *)
NextReference == IF referenceId + 1 < RefModulus THEN referenceId + 1 ELSE 1

(* Calls whose handler is alive: the receive loop or a cancellation may    *)
(* still hold one that is not, its event is garbage then.                  *)
Listens(r) == pc[r[1]] \in {"registered", "waiting"} /\ package[r[1]] = r[2]

(* Event.Set: the first value stays until the caller takes it.             *)
SetEvent(r, value) ==
  slot' = IF Listens(r) /\ slot[r[1]] = Empty
            THEN [slot EXCEPT ![r[1]] = value]
            ELSE slot

Finish(j, how) ==
  /\ outcome' = [outcome EXCEPT ![j] = how]
  /\ pc' = [pc EXCEPT ![j] = "done"]

(* Dispose of the SemaphoreGuard: SemaphoreSlim.Release hands the permit   *)
(* to the first waiting call.                                              *)
Release(j, next) ==
  IF queue = <<>>
    THEN /\ permits' = permits + 1
         /\ pc' = [pc EXCEPT ![j] = next]
         /\ UNCHANGED queue
    ELSE /\ pc' = [pc EXCEPT ![j] = next, ![Head(queue)] = "granted"]
         /\ queue' = Tail(queue)
         /\ UNCHANGED permits

-----------------------------------------------------------------------------
(* More slips.                                                             *)

(* The handler replaces one that has the same reference.                   *)
RegisterReplacing(j) ==
  /\ pc[j] = "granted"
  /\ slot' = [slot EXCEPT ![j] = Empty]
  /\ exception' = [exception EXCEPT ![j] = FALSE]
  /\ results' = [results EXCEPT ![j] = Null]
  /\ handlers' = [handlers EXCEPT ![Key(j)] = j]
  /\ pc' = [pc EXCEPT ![j] = "registered"]
  /\ UNCHANGED <<package, id, refVars, outcome, sentOn, semaVars, linkVars,
                 cancelVars, wire, receiving>>

(* A call whose request could not be sent keeps its permit.                *)
LeaveKeepingPermit(j) ==
  /\ pc[j] \in {"sendFailed", "woken"}
  /\ handlers' = [handlers EXCEPT ![Key(j)] = Nobody]
  /\ IF pc[j] = "woken"
       THEN Release(j, "judging")
       ELSE /\ pc' = [pc EXCEPT ![j] = "returning"]
            /\ UNCHANGED semaVars
  /\ UNCHANGED <<package, id, refVars, results, outcome, sentOn, slot,
                 exception, linkVars, cancelVars, wire, receiving>>

(* The timeout is not watched any more once CloseAsync has been called.    *)
TimeOutUnlessClosed(j) ==
  /\ pc[j] = "waiting" /\ slot[j] = Empty /\ ~closeCalled
  /\ pc' = [pc EXCEPT ![j] = "woken"]
  /\ UNCHANGED <<package, id, refVars, results, outcome, sentOn, semaVars,
                 tableVars, linkVars, cancelVars, wire, receiving>>

(* After a timeout the package is sent once more.                          *)
TimeOutRetrying(j) ==
  /\ pc[j] = "waiting" /\ slot[j] = Empty
  /\ pc' = [pc EXCEPT ![j] = "registered"]
  /\ UNCHANGED <<package, id, refVars, results, outcome, sentOn, semaVars,
                 tableVars, linkVars, cancelVars, wire, receiving>>

(* A cancellation leaves the read handlers out.                            *)
CancelReadsSkipped(c) ==
  /\ phase[c] = "write" /\ todo[c] = {}
  /\ phase' = [phase EXCEPT ![c] = "read"]
  /\ UNCHANGED <<callVars, semaVars, tableVars, linkVars, counted, todo,
                 failedCopies, wire, receiving>>

(* A lost connection cancels nothing if CloseAsync has been called.        *)
LoopEndsUnlessClosed ==
  /\ isConnected /\ socket # "up" /\ receiving = Empty
  /\ isConnected' = FALSE
  /\ connectionState' = "Closed"
  /\ IF connectionState # "Closed" /\ ~closeCalled
       THEN /\ phase' = [phase EXCEPT ![epoch] = "copyWrites"]
            /\ counted' = [counted EXCEPT ![epoch] =
                 Cardinality({n \in Ids : handlers[<<"write", n>>] # Nobody})]
            /\ UNCHANGED <<todo, failedCopies>>
       ELSE UNCHANGED cancelVars
  /\ UNCHANGED <<callVars, semaVars, tableVars, closeCalled, socket, epoch, wire,
                 receiving>>

-----------------------------------------------------------------------------
(* A call: ReadAsync / WriteAsync and ReadPackage / WritePackage.          *)

NotConnected == closeCalled \/ connectionState # "Opened"

Refuse(j) ==
  /\ pc[j] = "new" /\ NotConnected
  /\ Finish(j, "NotConnected")
  /\ UNCHANGED <<package, id, refVars, results, sentOn, semaVars,
                 tableVars, linkVars, cancelVars, wire, receiving>>

Accept(j) ==
  /\ pc[j] = "new" /\ ~NotConnected
  /\ pc' = [pc EXCEPT ![j] = "package"]
  /\ UNCHANGED <<package, id, refVars, results, outcome, sentOn, semaVars,
                 tableVars, linkVars, cancelVars, wire, receiving>>

TakeReference(j) ==
  /\ pc[j] = "package"
  /\ referenceId' = NextReference
  /\ wrapped' = (wrapped \/ referenceId + 1 = RefModulus)
  /\ id' = [id EXCEPT ![j] = NextReference]
  /\ pc' = [pc EXCEPT ![j] = "acquire"]
  /\ UNCHANGED <<package, results, outcome, sentOn, semaVars, tableVars,
                 linkVars, cancelVars, wire, receiving>>

(* SemaphoreGuard.Async: take a permit or line up for one.                 *)
Acquire(j) ==
  /\ pc[j] = "acquire"
  /\ \/ /\ permits > 0
        /\ permits' = permits - 1
        /\ pc' = [pc EXCEPT ![j] = "granted"]
        /\ UNCHANGED queue
     \/ /\ permits = 0
        /\ queue' = Append(queue, j)
        /\ pc' = [pc EXCEPT ![j] = "queued"]
        /\ UNCHANGED permits
  /\ UNCHANGED <<package, id, refVars, results, outcome, sentOn, tableVars,
                 linkVars, cancelVars, wire, receiving>>

(* A new callback handler, and TryAdd, which fails while another package   *)
(* of this kind has the same reference.                                    *)
Register(j) ==
  /\ pc[j] = "granted"
  /\ slot' = [slot EXCEPT ![j] = Empty]
  /\ exception' = [exception EXCEPT ![j] = FALSE]
  /\ results' = [results EXCEPT ![j] = Null]
  /\ \/ /\ handlers[Key(j)] = Nobody
        /\ handlers' = [handlers EXCEPT ![Key(j)] = j]
        /\ pc' = [pc EXCEPT ![j] = "registered"]
     \/ /\ handlers[Key(j)] # Nobody
        /\ pc' = [pc EXCEPT ![j] = "notAdded"]
        /\ UNCHANGED handlers
  /\ UNCHANGED <<package, id, refVars, outcome, sentOn, semaVars, linkVars,
                 cancelVars, wire, receiving>>

(* SendAsync succeeds: the request is on its way, or lost with the peer.   *)
Send(j) ==
  /\ pc[j] = "registered" /\ socket # "none"
  /\ pc' = [pc EXCEPT ![j] = "waiting"]
  /\ wire' = IF socket = "up"
               THEN wire \cup {[job |-> j, package |-> package[j], id |-> id[j]]}
               ELSE wire
  /\ sentOn' = [sentOn EXCEPT ![j] =
                  IF socket = "up" /\ connectionState = "Opened" THEN epoch ELSE 0]
  /\ UNCHANGED <<package, id, refVars, results, outcome, semaVars,
                 tableVars, linkVars, cancelVars, receiving>>

(* SendAsync fails: no socket, an exception, a short write.                *)
SendFails(j) ==
  /\ pc[j] = "registered"
  /\ pc' = [pc EXCEPT ![j] = "sendFailed"]
  /\ UNCHANGED <<package, id, refVars, results, outcome, sentOn, semaVars,
                 tableVars, linkVars, cancelVars, wire, receiving>>

(* WaitAsync returns the value of the event, or null after the timeout.    *)
Wake(j) ==
  /\ pc[j] = "waiting" /\ slot[j] # Empty
  /\ results' = [results EXCEPT ![j] = slot[j]]
  /\ slot' = [slot EXCEPT ![j] = Empty]
  /\ pc' = [pc EXCEPT ![j] = "woken"]
  /\ UNCHANGED <<package, id, refVars, outcome, sentOn, semaVars, handlers,
                 exception, linkVars, cancelVars, wire, receiving>>

TimeOut(j) ==
  /\ pc[j] = "waiting" /\ slot[j] = Empty
  /\ pc' = [pc EXCEPT ![j] = "woken"]
  /\ UNCHANGED <<package, id, refVars, results, outcome, sentOn, semaVars,
                 tableVars, linkVars, cancelVars, wire, receiving>>

(* The finally block and the end of the using: TryRemove, then Release.    *)
Leave(j) ==
  /\ pc[j] \in {"sendFailed", "woken"}
  /\ handlers' = [handlers EXCEPT ![Key(j)] = Nobody]
  /\ Release(j, IF pc[j] = "woken" THEN "judging" ELSE "returning")
  /\ UNCHANGED <<package, id, refVars, results, outcome, sentOn, slot,
                 exception, linkVars, cancelVars, wire, receiving>>

LeaveUnregistered(j) ==
  /\ pc[j] = "notAdded"
  /\ Release(j, "judging")
  /\ UNCHANGED <<package, id, refVars, results, outcome, sentOn, tableVars,
                 linkVars, cancelVars, wire, receiving>>

(* ReadPackage returned false: the call returns an empty result.           *)
ReturnEmpty(j) ==
  /\ pc[j] = "returning"
  /\ Finish(j, "Empty")
  /\ UNCHANGED <<package, id, refVars, results, sentOn, semaVars,
                 tableVars, linkVars, cancelVars, wire, receiving>>

(* HandlerErrorResult: what a null result means depends on _closeCalled    *)
(* and the exception as they are now.                                      *)
Fail(j) ==
  /\ pc[j] = "judging" /\ results[j] = Null
  /\ Finish(j, IF closeCalled THEN "NotConnected"
               ELSE IF exception[j] THEN "JobError" ELSE "Timeout")
  /\ UNCHANGED <<package, id, refVars, results, sentOn, semaVars,
                 tableVars, linkVars, cancelVars, wire, receiving>>

(* BildResults, then the next package or the end of the call.              *)
Complete(j) ==
  /\ pc[j] = "judging" /\ results[j] # Null
  /\ \/ /\ package[j] < Packages[j]
        /\ package' = [package EXCEPT ![j] = @ + 1]
        /\ pc' = [pc EXCEPT ![j] = "package"]
        /\ UNCHANGED outcome
     \/ /\ package[j] = Packages[j]
        /\ Finish(j, "Success")
        /\ UNCHANGED package
  /\ UNCHANGED <<id, refVars, results, sentOn, semaVars, tableVars,
                 linkVars, cancelVars, wire, receiving>>

Call(j) ==
  \/ Refuse(j) \/ Accept(j) \/ TakeReference(j) \/ Acquire(j) \/ Register(j)
  \/ Send(j) \/ SendFails(j) \/ Wake(j) \/ Leave(j) \/ LeaveUnregistered(j)
  \/ ReturnEmpty(j) \/ Fail(j) \/ Complete(j)

-----------------------------------------------------------------------------
(* The receive loop.  Found hands over an answer to the call h: the loop   *)
(* looked up its handler and stored the exception, Set comes next.  The    *)
(* loop may parse the bytes of an answer twice, so the request may stay.   *)

Found(h, r, error, value) ==
  /\ receiving = Empty /\ isConnected /\ r \in wire
  /\ wire' \in {wire, wire \ {r}}
  /\ IF h = Nobody
       THEN UNCHANGED <<receiving, exception>>
       ELSE /\ receiving' = [for |-> <<h, package[h]>>, value |-> value]
            /\ exception' = [exception EXCEPT ![h] = (@ \/ error)]
  /\ UNCHANGED <<callVars, semaVars, handlers, slot, linkVars, cancelVars>>

(* ReceivedReadJobAck / ReceivedWriteJobAck.  The data is never null, so   *)
(* the call succeeds even when the header of the answer has an error.      *)
ReceiveJobAck(r) ==
  \E error \in BOOLEAN :
    Found(handlers[<<Kind[r.job], r.id>>], r, error, <<r.job, r.package>>)

(* ReceivedAck: an answer without data.  Read handlers are looked up first.*)
ReceiveAck(r) ==
  \E error \in BOOLEAN :
    Found(IF handlers[<<"read", r.id>>] # Nobody THEN handlers[<<"read", r.id>>]
          ELSE handlers[<<"write", r.id>>], r, error, Null)

HandOver ==
  /\ receiving # Empty
  /\ SetEvent(receiving.for, receiving.value)
  /\ receiving' = Empty
  /\ UNCHANGED <<callVars, semaVars, handlers, exception, linkVars, cancelVars,
                 wire>>

-----------------------------------------------------------------------------
(* Cancellation: CancelPendingEvents sets the event of every write handler *)
(* it finds in the table, then of every read handler.  ToList() counts the *)
(* entries of the table, then copies them.                                 *)

Entries(kind) == {n \in Ids : handlers[<<kind, n>>] # Nobody}

Handled(kind) ==
  {<<handlers[<<kind, n>>], package[handlers[<<kind, n>>]]>> : n \in Entries(kind)}

CountHandlers(c, kind) ==
  counted' = [counted EXCEPT ![c] = Cardinality(Entries(kind))]

(* Nothing is copied when nothing was counted.  Entries that have come     *)
(* since have no room: CopyTo throws, which is logged, and no handler of   *)
(* that table is cancelled.                                                *)
CopyHandlers(c, kind) ==
  /\ counted' = [counted EXCEPT ![c] = 0]
  /\ \/ /\ counted[c] = 0
        /\ UNCHANGED <<todo, failedCopies>>
     \/ /\ 0 < counted[c] /\ Cardinality(Entries(kind)) <= counted[c]
        /\ todo' = [todo EXCEPT ![c] = Handled(kind)]
        /\ UNCHANGED failedCopies
     \/ /\ 0 < counted[c] /\ counted[c] < Cardinality(Entries(kind))
        /\ failedCopies' = failedCopies \cup {<<c, kind>>}
        /\ UNCHANGED todo

StartCancel(c) ==
  /\ phase' = [phase EXCEPT ![c] = "copyWrites"]
  /\ CountHandlers(c, "write")
  /\ UNCHANGED <<todo, failedCopies>>

CopyWrites(c) ==
  /\ phase[c] = "copyWrites"
  /\ phase' = [phase EXCEPT ![c] = "write"]
  /\ CopyHandlers(c, "write")
  /\ UNCHANGED <<callVars, semaVars, tableVars, linkVars, wire, receiving>>

CancelOne(c) ==
  /\ \E r \in todo[c] :
       /\ SetEvent(r, Null)
       /\ todo' = [todo EXCEPT ![c] = @ \ {r}]
  /\ UNCHANGED <<callVars, semaVars, handlers, exception, linkVars, phase,
                 counted, failedCopies, wire, receiving>>

CancelReads(c) ==
  /\ phase[c] = "write" /\ todo[c] = {}
  /\ phase' = [phase EXCEPT ![c] = "copyReads"]
  /\ CountHandlers(c, "read")
  /\ UNCHANGED <<callVars, semaVars, tableVars, linkVars, todo, failedCopies,
                 wire, receiving>>

CopyReads(c) ==
  /\ phase[c] = "copyReads"
  /\ phase' = [phase EXCEPT ![c] = "read"]
  /\ CopyHandlers(c, "read")
  /\ UNCHANGED <<callVars, semaVars, tableVars, linkVars, wire, receiving>>

(* After the last handler CloseAsync goes on to dispose of the socket.     *)
CancelEnds(c) ==
  /\ phase[c] = "read" /\ todo[c] = {}
  /\ phase' = [phase EXCEPT ![c] = IF c = 0 THEN "closing" ELSE "idle"]
  /\ UNCHANGED <<callVars, semaVars, tableVars, linkVars, counted, todo,
                 failedCopies, wire, receiving>>

Cancel(c) ==
  CopyWrites(c) \/ CancelOne(c) \/ CancelReads(c) \/ CopyReads(c) \/ CancelEnds(c)

-----------------------------------------------------------------------------
(* The connection, as far as the calls see it.                             *)

(* InternalCloseAsync.                                                     *)
Close ==
  /\ "close" \in Disturbances
  /\ ~closeCalled /\ phase[0] = "idle"
  /\ closeCalled' = TRUE
  /\ StartCancel(0)
  /\ UNCHANGED <<callVars, semaVars, tableVars, connectionState, socket,
                 isConnected, epoch, wire, receiving>>

CloseSocket ==
  /\ phase[0] = "closing"
  /\ phase' = [phase EXCEPT ![0] = "idle"]
  /\ socket' = "none"
  /\ wire' = {}
  /\ UNCHANGED <<callVars, semaVars, tableVars, closeCalled, connectionState,
                 isConnected, epoch, counted, todo, failedCopies, receiving>>

(* OpenAsync of a caller, unless the socket counts as connected.           *)
Reopen ==
  /\ closeCalled /\ ~isConnected /\ phase[0] = "idle"
  /\ closeCalled' = FALSE
  /\ UNCHANGED <<callVars, semaVars, tableVars, connectionState, socket,
                 isConnected, epoch, cancelVars, wire, receiving>>

(* InternalOpenAsync, of OpenAsync or of the automatic reconnect.          *)
Connect ==
  /\ ~isConnected /\ epoch < MaxEpoch
  /\ socket' = "up"
  /\ isConnected' = TRUE
  /\ epoch' = epoch + 1
  /\ wire' = {}
  /\ UNCHANGED <<callVars, semaVars, tableVars, closeCalled, connectionState,
                 cancelVars, receiving>>

(* Connection request sent, then communication setup acknowledged.         *)
Handshake ==
  /\ isConnected /\ socket = "up"
  /\ \/ connectionState = "Closed" /\ connectionState' = "Pending"
     \/ connectionState = "Pending" /\ connectionState' = "Opened"
  /\ UNCHANGED <<callVars, semaVars, tableVars, closeCalled, socket,
                 isConnected, epoch, cancelVars, wire, receiving>>

(* The peer closes the connection or cannot be reached any more; answers   *)
(* it has sent before may still be received.                               *)
Break ==
  /\ "break" \in Disturbances
  /\ socket = "up"
  /\ socket' = "broken"
  /\ UNCHANGED <<callVars, semaVars, tableVars, closeCalled, connectionState,
                 isConnected, epoch, cancelVars, wire, receiving>>

(* The receive loop notices and ends: HandleSocketDown publishes it, and   *)
(* UpdateConnectionState(Closed) cancels a second time.                    *)
LoopEnds ==
  /\ isConnected /\ socket # "up" /\ receiving = Empty
  /\ isConnected' = FALSE
  /\ \/ /\ connectionState # "Closed"
        /\ connectionState' = "Closed"
        /\ StartCancel(epoch)
     \/ /\ connectionState = "Closed"
        /\ UNCHANGED <<connectionState, cancelVars>>
  /\ UNCHANGED <<callVars, semaVars, tableVars, closeCalled, socket, epoch, wire,
                 receiving>>

Link == Close \/ CloseSocket \/ Reopen \/ Connect \/ Handshake \/ Break \/ LoopEnds

Finished == (\A j \in Jobs : pc[j] = "done") /\ UNCHANGED vars

Next ==
  \/ \E j \in Jobs : Call(j) \/ TimeOut(j)
  \/ \E r \in wire : ReceiveJobAck(r) \/ ReceiveAck(r)
  \/ HandOver
  \/ \E c \in 0..MaxEpoch : Cancel(c)
  \/ Link
  \/ Finished

Spec == Init /\ [][Next]_vars

(* Each thread goes on while it can; calls wait for each other only at the *)
(* semaphore.  Nothing is assumed of the PLC and of the connection, and in *)
(* FairSpec not even that a timeout ever fires.                            *)
FairSpec ==
  /\ Spec
  /\ \A j \in Jobs : WF_vars(Call(j))
  /\ \A c \in 0..MaxEpoch : WF_vars(Cancel(c))
  /\ WF_vars(HandOver)

(* The timers of WaitAsync fire.                                           *)
TimersFire == \A j \in Jobs : WF_vars(TimeOut(j))

-----------------------------------------------------------------------------
(* Properties.                                                             *)

Stages == {"new", "package", "acquire", "queued", "granted", "registered",
           "notAdded", "sendFailed", "waiting", "woken", "judging",
           "returning", "done"}
Outcomes == {"none", "NotConnected", "Empty", "JobError", "Timeout", "Success"}

(* Every variable has its type.                                            *)
TypeOK ==
  /\ pc \in [Jobs -> Stages]
  /\ package \in [Jobs -> Nat]
  /\ id \in [Jobs -> Ids]
  /\ referenceId \in 0..(RefModulus - 1) /\ wrapped \in BOOLEAN
  /\ permits \in Nat
  /\ queue \in Seq(Jobs)
  /\ handlers \in [Keys -> Jobs \cup {Nobody}]
  /\ slot \in [Jobs -> Requests \cup {Null, Empty}]
  /\ exception \in [Jobs -> BOOLEAN]
  /\ results \in [Jobs -> Requests \cup {Null}]
  /\ outcome \in [Jobs -> Outcomes]
  /\ sentOn \in [Jobs -> 0..MaxEpoch]
  /\ wire \subseteq [job : Jobs, package : Nat, id : Ids]
  /\ receiving \in [for : Requests, value : Requests \cup {Null}] \cup {Empty}
  /\ closeCalled \in BOOLEAN /\ isConnected \in BOOLEAN
  /\ connectionState \in {"Closed", "Pending", "Opened"}
  /\ socket \in {"none", "up", "broken"}
  /\ epoch \in 0..MaxEpoch
  /\ phase \in [0..MaxEpoch ->
                 {"idle", "copyWrites", "write", "copyReads", "read", "closing"}]
  /\ counted \in [0..MaxEpoch -> Nat]
  /\ todo \in [0..MaxEpoch -> SUBSET Requests]
  /\ failedCopies \subseteq (0..MaxEpoch) \X Kinds

Holding == {"granted", "registered", "notAdded", "sendFailed", "waiting", "woken"}
Holders == {j \in Jobs : pc[j] \in Holding}

(* No permit is lost or used twice, whatever way a package ends: the calls *)
(* between the SemaphoreGuard and its Dispose and the free permits make up *)
(* the negotiated number.                                                  *)
PermitsConserved == permits + Cardinality(Holders) = Permits

Registered(j) == pc[j] \in {"registered", "sendFailed", "waiting", "woken"}

(* The handler tables hold the packages that are on their way and nothing  *)
(* else: no entry outlives its package, and no package takes the entry of  *)
(* another one, also when references come round again.                     *)
TableSound ==
  \A j \in Jobs, k \in Keys : handlers[k] = j <=> Registered(j) /\ Key(j) = k

(* As long as references have not come round, a call is handed no answer   *)
(* but the one to the package it is at: not that of another call, not a    *)
(* late one to a package that has timed out.                               *)
OwnAnswer ==
  ~wrapped =>
    \A j \in Jobs :
      /\ slot[j] \in Requests => slot[j] = <<j, package[j]>>
      /\ pc[j] \in {"woken", "judging", "done"} /\ results[j] \in Requests =>
           results[j] = <<j, package[j]>>

(* The connection a waiting call sent its request on is gone.              *)
Lost(j) ==
  /\ pc[j] = "waiting" /\ sentOn[j] > 0
  /\ epoch > sentOn[j] \/ ~isConnected

(* The cancellation for that connection failed to copy the call's table,   *)
(* because another call had registered since it was counted.               *)
PassedOver(j) == <<sentOn[j], Kind[j]>> \in failedCopies

(* A request sent on an open connection is not left waiting for an answer  *)
(* that cannot come: once the connection has gone down and the             *)
(* cancellation for it has run, the event of the waiting call is set, also *)
(* of one that registered after CloseAsync had looked at the tables,       *)
(* unless the copy of its table has failed.                                *)
NoCallerStranded ==
  \A j \in Jobs :
    Lost(j) /\ phase[sentOn[j]] = "idle" /\ ~PassedOver(j) => slot[j] # Empty

(* "returns a enumerable with the write result, 0xFF = Success": a call    *)
(* that reports success was not answered with an error by the PLC.         *)
SuccessMeansAccepted ==
  \A j \in Jobs : Kind[j] = "write" /\ outcome[j] = "Success" => ~exception[j]

(* Without any timer: a call whose connection is gone stops waiting,       *)
(* unless the copy of its table fails.                                     *)
LostCallsReturn == \A j \in Jobs : Lost(j) ~> pc[j] # "waiting" \/ PassedOver(j)

(* With the read/write timeout: every call returns, whatever the PLC and   *)
(* the connection do, and also while others hold all permits.              *)
EveryCallReturns ==
  TimersFire => \A j \in Jobs : pc[j] # "new" ~> pc[j] = "done"

-----------------------------------------------------------------------------
(* The exchange keeps what the calls are promised (CallPromise): a package *)
(* is with the PLC from SendAsync to the end of the using, the call fails  *)
(* as soon as that is settled.                                             *)

CallStage ==
  [j \in Jobs |->
     IF pc[j] \in {"package", "acquire", "queued", "granted", "registered"} THEN "running"
     ELSE IF pc[j] \in {"waiting", "woken"} THEN "asking"
     ELSE IF pc[j] = "judging" /\ results[j] # Null THEN "answered"
     ELSE IF pc[j] \in {"notAdded", "sendFailed", "returning", "judging"} THEN "failing"
     ELSE pc[j]]

CallAnswered == [j \in Jobs |-> IF outcome[j] = "Success" THEN package[j] ELSE package[j] - 1]

CallAnswer == [j \in Jobs |-> IF pc[j] \in {"woken", "judging"} THEN results[j] ELSE Null]

Promise == INSTANCE CallPromise WITH
  stage <- CallStage, answered <- CallAnswered, answer <- CallAnswer,
  outcome <- outcome, reused <- wrapped

(* Each step of the exchange is a step of the promise or shows nothing.    *)
KeepsPromise == Promise!PromiseSpec
=============================================================================
