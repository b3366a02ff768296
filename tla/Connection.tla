------------------------------ MODULE Connection ------------------------------
(***************************************************************************)
(* How a client opens, loses and closes its connection: OpenAsync and      *)
(* CloseAsync of ProtocolHandler, the ClientSocket with its receive loop   *)
(* and its automatic reconnect, and the handshake that ConnectionState     *)
(* follows.  Calls, receive loops and reconnects are threads of their own  *)
(* that share the socket, its token and the flags.  A step of the model    *)
(* ends where the code awaits something, starts a thread or calls          *)
(* InternalOpenAsync; DisposeSocketAsync is one step before it awaits the  *)
(* receiving task and one after it, with anybody in between.               *)
(***************************************************************************)
EXTENDS Naturals, FiniteSets

CONSTANTS
  Opens,         \* calls of OpenAsync
  Closes,        \* calls of CloseAsync
  Reconnects,    \* bound: reconnects that dial at a time
  MaxSockets,    \* bound: number of sockets that are made
  AutoReconnect, \* whether AutoconnectTime > 0
  Disturbances,  \* bound: of "refuse" and "break", what the PLC does
  Nobody         \* nobody has the semaphore

ASSUME ConnectionAssumption ==
  /\ Opens \cap Closes = {} /\ (Opens \cup Closes) \cap Reconnects = {}
  /\ Nobody \notin Opens \cup Closes
  /\ MaxSockets \in Nat
  /\ AutoReconnect \in BOOLEAN
  /\ Disturbances \subseteq {"refuse", "break"}

Calls == Opens \cup Closes
Dialers == Opens \cup Reconnects
Sockets == 1..MaxSockets  \* 0 stands for null

VARIABLES
  pc,               \* progress of each call and each reconnect
  outcome,          \* how a call ended
  sema,             \* who has _connectSema
  closeCalled,      \* _closeCalled
  connectionState,  \* ConnectionState
  signaled,         \* whether _connectEvent holds a value
  acked,            \* history: calls of OpenAsync that have seen a setup ack

  isConnected,      \* IsConnected of the socket
  shutdown,         \* _shutdown
  disableReconnect, \* _disableReconnect
  socket,           \* _socket
  task,             \* the loop of _receivingTask and _tokenSource, or 0
  token,            \* whether _tokenSource is there and not cancelled
  dialed,           \* the socket a dialer has made
  delayed,          \* how many reconnects wait for AutoconnectTime
  awaits,           \* the task that a disposal awaits
  crossed,          \* history: a disposal began while another was awaiting

  tcp,              \* what became of each socket
  asked,            \* what the PLC has to answer on it
  inbox,            \* what has arrived on it
  loop,             \* progress of the receive loop started for it
  reads             \* the socket that loop receives from

callVars == <<outcome, sema, closeCalled, acked>>
flagVars == <<shutdown, disableReconnect>>
fieldVars == <<socket, task, token>>
awaitVars == <<awaits, crossed>>
dialVars == <<dialed, delayed, awaitVars>>
plcVars == <<asked, inbox>>
loopVars == <<loop, reads>>
vars == <<pc, callVars, connectionState, signaled, isConnected, flagVars,
          fieldVars, dialVars, tcp, plcVars, loopVars>>

Init ==
  /\ pc = [p \in Calls \cup Reconnects |-> IF p \in Calls THEN "new" ELSE "idle"]
  /\ outcome = [p \in Calls |-> "none"]
  /\ sema = Nobody
  /\ closeCalled = FALSE
  /\ connectionState = "Closed"
  /\ signaled = FALSE
  /\ acked = {}
  /\ isConnected = FALSE
  /\ shutdown = FALSE
  /\ disableReconnect = FALSE
  /\ socket = 0
  /\ task = 0
  /\ token = FALSE
  /\ dialed = [p \in Dialers |-> 0]
  /\ delayed = 0
  /\ awaits = [p \in Calls \cup Reconnects |-> 0]
  /\ crossed = FALSE
  /\ tcp = [n \in Sockets |-> "unused"]
  /\ asked = [n \in Sockets |-> "nothing"]
  /\ inbox = [n \in Sockets |-> "nothing"]
  /\ loop = [n \in Sockets |-> "none"]
  /\ reads = [n \in Sockets |-> 0]

-----------------------------------------------------------------------------
(* Helpers.                                                                *)

Connected(n) == n # 0 /\ tcp[n] \in {"up", "down"}

Parties == Calls \cup Reconnects

(* DisposeSocketAsync up to its await: the token is cancelled and socket   *)
(* and source are disposed of.  A task that has not begun never will.      *)
Disposed == IF socket = 0 THEN tcp ELSE [tcp EXCEPT ![socket] = "disposed"]

DisposeSocket(p) ==
  /\ tcp' = Disposed
  /\ token' = FALSE
  /\ awaits' = [awaits EXCEPT ![p] = task]
  /\ loop' = IF task # 0 /\ token /\ loop[task] = "forked"
               THEN [loop EXCEPT ![task] = "cancelled"] ELSE loop

(* Cancel throws if the source has been disposed of and is still there.    *)
CancelThrows == task # 0 /\ ~token

(* The await: of a task that was cancelled it throws, of any other it ends *)
(* when the receive loop awaits for the first time, and not with the loop. *)
AwaitThrows(p) == awaits[p] # 0 /\ loop[awaits[p]] = "cancelled"
AwaitEnds(p) == awaits[p] # 0 => loop[awaits[p]] \notin {"forked", "begun", "cancelled"}

(* DisposeSocketAsync after its await: whatever stands in the fields goes. *)
ClearFields == socket' = 0 /\ task' = 0 /\ token' = FALSE

(* The stages in which a disposal awaits the task.                         *)
Awaiting == {"clearing", "undoing", "releasing"}
Crosses(p) == crossed' = (crossed \/ \E q \in Parties \ {p} : pc[q] \in Awaiting)

(* SendAsync: a peer that is gone may go unnoticed.                        *)
CanSend == Connected(socket)
SendFailsNot == socket # 0 /\ tcp[socket] = "up"

Ask(request) ==
  asked' = IF SendFailsNot THEN [asked EXCEPT ![socket] = request] ELSE asked

(* HandleSocketDown: first HandleReconnectAsync starts to wait, unless it  *)
(* is disabled, then the end of the connection is published.               *)
ReconnectLater ==
  delayed' = IF AutoReconnect /\ ~disableReconnect THEN delayed + 1 ELSE delayed

PublishDown ==
  /\ isConnected' = FALSE
  /\ connectionState' = IF isConnected THEN "Closed" ELSE connectionState

Return(p, how) ==
  /\ pc' = [pc EXCEPT ![p] = "done"]
  /\ outcome' = [outcome EXCEPT ![p] = how]

-----------------------------------------------------------------------------
(* Slips a change of this code could make.  No specification uses them;    *)
(* each one is noticed by a property below, README.md says by which.       *)

(* A reconnect goes on as if it were a call of OpenAsync.                  *)
AfterDialOfCall(p) == [pc EXCEPT ![p] = "dialed"]

(* CloseAsync does not leave it to the receive loop to publish that the    *)
(* socket is down.                                                         *)
SocketClosedPublishing(p) ==
  /\ pc[p] = "releasing" /\ AwaitEnds(p)
  /\ ClearFields
  /\ PublishDown
  /\ pc' = [pc EXCEPT ![p] = "closed"]
  /\ UNCHANGED <<callVars, signaled, flagVars, dialVars, tcp, plcVars,
                 loopVars>>

(* The confirmation is taken in every state.                               *)
ReceiveConfirmAlways(l) ==
  /\ loop[l] = "reading" /\ Connected(reads[l]) /\ inbox[reads[l]] = "CC"
  /\ inbox' = [inbox EXCEPT ![reads[l]] = "nothing"]
  /\ connectionState' = "TransportOpened"
  /\ loop' = [loop EXCEPT ![l] = "settingUp"]
  /\ Ask("Setup")
  /\ UNCHANGED <<pc, callVars, signaled, isConnected, flagVars, fieldVars,
                 dialVars, tcp, reads>>

(* A call whose ConnectAsync fails does not give the semaphore back.       *)
DialFailedHolding(p) ==
  /\ pc[p] = "failed"
  /\ PublishDown
  /\ pc' = [pc EXCEPT ![p] = IF p \in Opens THEN "done" ELSE "idle"]
  /\ outcome' = IF p \in Opens THEN [outcome EXCEPT ![p] = "NotConnected"] ELSE outcome
  /\ UNCHANGED <<sema, closeCalled, acked, signaled, flagVars, fieldVars,
                 dialVars, tcp, plcVars, loopVars>>

(* InternalOpenAsync does not look at _shutdown.                           *)
StartDialAfterShutdown(p) ==
  /\ pc[p] = "dial" /\ ~isConnected /\ ~CancelThrows
  /\ DisposeSocket(p) /\ Crosses(p)
  /\ pc' = [pc EXCEPT ![p] = "clearing"]
  /\ UNCHANGED <<callVars, connectionState, signaled, isConnected, flagVars,
                 socket, task, dialed, delayed, plcVars, reads>>

-----------------------------------------------------------------------------
(* OpenAsync.                                                              *)

(* The connection counts as open already: nothing is done.                 *)
AlreadyOpen(o) ==
  /\ pc[o] = "new" \/ (pc[o] = "locking" /\ sema = Nobody)
  /\ isConnected
  /\ Return(o, "AlreadyOpen")
  /\ UNCHANGED <<sema, closeCalled, acked, connectionState, signaled,
                 isConnected, flagVars, fieldVars, dialVars, tcp, plcVars,
                 loopVars>>

WantOpen(o) ==
  /\ pc[o] = "new" /\ ~isConnected
  /\ pc' = [pc EXCEPT ![o] = "locking"]
  /\ UNCHANGED <<callVars, connectionState, signaled, isConnected, flagVars,
                 fieldVars, dialVars, tcp, plcVars, loopVars>>

StartOpen(o) ==
  /\ pc[o] = "locking" /\ sema = Nobody /\ ~isConnected
  /\ sema' = o
  /\ closeCalled' = FALSE
  /\ shutdown' = FALSE
  /\ disableReconnect' = TRUE
  /\ acked' = acked \ {o}
  /\ pc' = [pc EXCEPT ![o] = "dial"]
  /\ UNCHANGED <<outcome, connectionState, signaled, isConnected, fieldVars,
                 dialVars, tcp, plcVars, loopVars>>

(* The TCP connection is there: wait for the acknowledged setup.           *)
AwaitSetup(o) ==
  /\ pc[o] = "dialed" /\ isConnected
  /\ pc' = [pc EXCEPT ![o] = "waiting"]
  /\ UNCHANGED <<callVars, connectionState, signaled, isConnected, flagVars,
                 fieldVars, dialVars, tcp, plcVars, loopVars>>

Opened(o) ==
  /\ pc[o] = "waiting" /\ signaled /\ isConnected
  /\ signaled' = FALSE
  /\ disableReconnect' = ~AutoReconnect
  /\ Return(o, "Connected")
  /\ sema' = Nobody
  /\ UNCHANGED <<closeCalled, acked, connectionState, isConnected, shutdown,
                 fieldVars, dialVars, tcp, plcVars, loopVars>>

(* A Dacs7NotConnectedException: InternalCloseAsync, then it is rethrown.  *)
NotOpened(o) ==
  /\ \/ pc[o] = "dialed" /\ ~isConnected /\ UNCHANGED signaled
     \/ pc[o] = "waiting" /\ signaled /\ ~isConnected /\ signaled' = FALSE
     \/ pc[o] = "waiting" /\ ~signaled /\ UNCHANGED signaled \* 2 * Timeout
  /\ pc' = [pc EXCEPT ![o] = "closing"]
  /\ UNCHANGED <<callVars, connectionState, isConnected, flagVars, fieldVars,
                 dialVars, tcp, plcVars, loopVars>>

-----------------------------------------------------------------------------
(* CloseAsync and InternalCloseAsync.                                      *)

StartClose(c) ==
  /\ pc[c] = "new" /\ sema = Nobody
  /\ sema' = c
  /\ pc' = [pc EXCEPT ![c] = "closing"]
  /\ UNCHANGED <<outcome, closeCalled, acked, connectionState, signaled,
                 isConnected, flagVars, fieldVars, dialVars, tcp, plcVars,
                 loopVars>>

(* _closeCalled, then CancelPendingEvents.                                 *)
CloseCalled(p) ==
  /\ pc[p] = "closing" /\ ~closeCalled
  /\ closeCalled' = TRUE
  /\ pc' = [pc EXCEPT ![p] = "disposing"]
  /\ UNCHANGED <<outcome, sema, acked, connectionState, signaled, isConnected,
                 flagVars, fieldVars, dialVars, tcp, plcVars, loopVars>>

(* CloseAsync of the socket, up to the await and after it.                 *)
CloseSocket(p) ==
  /\ pc[p] = "disposing" /\ ~CancelThrows
  /\ shutdown' = TRUE
  /\ disableReconnect' = TRUE
  /\ DisposeSocket(p) /\ Crosses(p)
  /\ pc' = [pc EXCEPT ![p] = "releasing"]
  /\ UNCHANGED <<callVars, connectionState, signaled, isConnected, socket,
                 task, dialed, delayed, plcVars, reads>>

SocketClosed(p) ==
  /\ pc[p] = "releasing" /\ AwaitEnds(p)
  /\ ClearFields
  /\ pc' = [pc EXCEPT ![p] = "closed"]
  /\ UNCHANGED <<callVars, connectionState, signaled, isConnected, flagVars,
                 dialVars, tcp, plcVars, loopVars>>

(* What DisposeSocketAsync throws, the caller gets.                        *)
CloseThrows(p) ==
  /\ \/ /\ pc[p] = "disposing" /\ CancelThrows
        /\ shutdown' = TRUE
        /\ disableReconnect' = TRUE
        /\ Crosses(p)
     \/ pc[p] = "releasing" /\ AwaitThrows(p) /\ UNCHANGED <<flagVars, crossed>>
  /\ Return(p, "Failed")
  /\ sema' = Nobody
  /\ UNCHANGED <<closeCalled, acked, connectionState, signaled, isConnected,
                 fieldVars, dialed, delayed, awaits, tcp, plcVars, loopVars>>

(* After a delay of a millisecond, or at once if it was closed before.     *)
EndClose(p) ==
  /\ pc[p] = "closed" \/ (pc[p] = "closing" /\ closeCalled)
  /\ Return(p, IF p \in Opens THEN "NotConnected" ELSE "Closed")
  /\ sema' = Nobody
  /\ UNCHANGED <<closeCalled, acked, connectionState, signaled, isConnected,
                 flagVars, fieldVars, dialVars, tcp, plcVars, loopVars>>

-----------------------------------------------------------------------------
(* InternalOpenAsync, for a call of OpenAsync or for a reconnect.          *)

AfterDial(p) == [pc EXCEPT ![p] = IF p \in Opens THEN "dialed" ELSE "idle"]

(* Shut down, or somebody else has connected.                              *)
NoDial(p) ==
  /\ pc[p] = "dial" /\ (shutdown \/ isConnected)
  /\ pc' = AfterDial(p)
  /\ UNCHANGED <<callVars, connectionState, signaled, isConnected, flagVars,
                 fieldVars, dialVars, tcp, plcVars, loopVars>>

(* Nobody tests again after the test: the old socket is disposed of ...    *)
StartDial(p) ==
  /\ pc[p] = "dial" /\ ~shutdown /\ ~isConnected /\ ~CancelThrows
  /\ DisposeSocket(p) /\ Crosses(p)
  /\ pc' = [pc EXCEPT ![p] = "clearing"]
  /\ UNCHANGED <<callVars, connectionState, signaled, isConnected, flagVars,
                 socket, task, dialed, delayed, plcVars, reads>>

(* ... and a new one connects, whatever _socket has become meanwhile.      *)
Dial(p) ==
  /\ pc[p] = "clearing" /\ AwaitEnds(p)
  /\ \E n \in Sockets :
       /\ tcp[n] = "unused" /\ \A m \in 1..(n - 1) : tcp[m] # "unused"
       /\ p \in Reconnects => n + Cardinality({o \in Opens : dialed[o] = 0}) <= MaxSockets
       /\ socket' = n
       /\ tcp' = [tcp EXCEPT ![n] = "connecting"]
       /\ dialed' = [dialed EXCEPT ![p] = n]
  /\ task' = 0 /\ token' = FALSE
  /\ pc' = [pc EXCEPT ![p] = "connecting"]
  /\ UNCHANGED <<callVars, connectionState, signaled, isConnected, flagVars,
                 delayed, awaitVars, plcVars, loopVars>>

(* ConnectAsync has succeeded; EnsureConnected and the receive loop look   *)
(* at _socket, whoever made it.                                            *)
StartLoop(p) ==
  /\ pc[p] = "connected" /\ Connected(socket)
  /\ disableReconnect' = IF p \in Reconnects THEN ~AutoReconnect ELSE disableReconnect
  /\ task' = dialed[p] /\ token' = TRUE
  /\ loop' = [loop EXCEPT ![dialed[p]] = "forked"]
  /\ pc' = [pc EXCEPT ![p] = "publish"]
  /\ UNCHANGED <<callVars, connectionState, signaled, isConnected, shutdown,
                 socket, dialVars, tcp, plcVars, reads>>

(* PublishConnectionStateChanged(true): on a closed connection state the   *)
(* connection request is sent.                                             *)
Publish(p) ==
  /\ pc[p] = "publish"
  /\ isConnected' = TRUE
  /\ \/ /\ ~isConnected /\ connectionState = "Closed" /\ CanSend
        /\ Ask("CR")
        /\ pc' = [pc EXCEPT ![p] = "requested"]
     \/ /\ ~isConnected /\ connectionState = "Closed" /\ ~SendFailsNot
        /\ pc' = AfterDial(p)
        /\ UNCHANGED asked
     \/ /\ isConnected \/ connectionState # "Closed"
        /\ pc' = AfterDial(p)
        /\ UNCHANGED asked
  /\ UNCHANGED <<callVars, connectionState, signaled, flagVars, fieldVars,
                 dialVars, tcp, inbox, loopVars>>

Requested(p) ==
  /\ pc[p] = "requested"
  /\ connectionState' = "PendingOpenTransport"
  /\ pc' = AfterDial(p)
  /\ UNCHANGED <<callVars, signaled, isConnected, flagVars, fieldVars,
                 dialVars, tcp, plcVars, loopVars>>

(* DisposeSocketAsync, ConnectAsync or EnsureConnected throws.             *)
DialThrows(p) ==
  /\ \/ pc[p] = "dial" /\ ~shutdown /\ ~isConnected /\ CancelThrows /\ Crosses(p)
     \/ /\ \/ pc[p] = "clearing" /\ AwaitThrows(p)
           \/ pc[p] = "connecting" /\ tcp[dialed[p]] = "disposed"
           \/ pc[p] = "connected" /\ ~Connected(socket)
        /\ UNCHANGED crossed
  /\ pc' = [pc EXCEPT ![p] = "failing"]
  /\ UNCHANGED <<callVars, connectionState, signaled, isConnected, flagVars,
                 fieldVars, dialed, delayed, awaits, tcp, plcVars, loopVars>>

(* The catch block: the socket that is disposed of is the current one.     *)
UndoDial(p) ==
  /\ pc[p] = "failing" /\ ~CancelThrows
  /\ DisposeSocket(p) /\ Crosses(p)
  /\ pc' = [pc EXCEPT ![p] = "undoing"]
  /\ UNCHANGED <<callVars, connectionState, signaled, isConnected, flagVars,
                 socket, task, dialed, delayed, plcVars, reads>>

DialFails(p) ==
  /\ pc[p] = "undoing" /\ AwaitEnds(p)
  /\ ClearFields
  /\ ReconnectLater
  /\ pc' = [pc EXCEPT ![p] = "failed"]
  /\ UNCHANGED <<callVars, connectionState, signaled, isConnected, flagVars,
                 dialed, awaitVars, tcp, plcVars, loopVars>>

(* A call gets the exception, a reconnect ends.                            *)
EndDial(p) ==
  /\ pc' = [pc EXCEPT ![p] = IF p \in Opens THEN "done" ELSE "idle"]
  /\ IF p \in Opens
       THEN /\ outcome' = [outcome EXCEPT ![p] = "NotConnected"]
            /\ sema' = Nobody
       ELSE UNCHANGED <<outcome, sema>>

DialFailed(p) ==
  /\ pc[p] = "failed"
  /\ PublishDown
  /\ EndDial(p)
  /\ UNCHANGED <<closeCalled, acked, signaled, flagVars, fieldVars, dialVars,
                 tcp, plcVars, loopVars>>

(* DisposeSocketAsync throws in the catch block: nobody reconnects, and    *)
(* nothing is published.                                                   *)
UndoThrows(p) ==
  /\ \/ pc[p] = "failing" /\ CancelThrows /\ Crosses(p)
     \/ pc[p] = "undoing" /\ AwaitThrows(p) /\ UNCHANGED crossed
  /\ EndDial(p)
  /\ UNCHANGED <<closeCalled, acked, connectionState, signaled, isConnected,
                 flagVars, fieldVars, dialed, delayed, awaits, tcp, plcVars,
                 loopVars>>

(* The reconnect time is over.                                             *)
Reconnect(r) ==
  /\ pc[r] = "idle" /\ delayed > 0
  /\ delayed' = delayed - 1
  /\ pc' = IF disableReconnect THEN pc ELSE [pc EXCEPT ![r] = "dial"]
  /\ UNCHANGED <<callVars, connectionState, signaled, isConnected, flagVars,
                 fieldVars, dialed, awaitVars, tcp, plcVars, loopVars>>

-----------------------------------------------------------------------------
(* The receive loop l; it reads whatever _socket is at the time.           *)

(* Without a connected socket the loop fails before its try block.         *)
BeginLoop(l) ==
  /\ loop[l] = "forked"
  /\ loop' = [loop EXCEPT ![l] = IF Connected(socket) THEN "begun" ELSE "ended"]
  /\ UNCHANGED <<pc, callVars, connectionState, signaled, isConnected,
                 flagVars, fieldVars, dialVars, tcp, plcVars, reads>>

Receive(l) ==
  /\ loop[l] \in {"begun", "checking"}
  /\ \/ /\ Connected(socket) /\ token
        /\ loop' = [loop EXCEPT ![l] = "reading"]
        /\ reads' = [reads EXCEPT ![l] = socket]
     \/ /\ ~(Connected(socket) /\ token)
        /\ loop' = [loop EXCEPT ![l] = "ending"]
        /\ UNCHANGED reads
  /\ UNCHANGED <<pc, callVars, connectionState, signaled, isConnected,
                 flagVars, fieldVars, dialVars, tcp, plcVars>>

(* Nothing more comes (the loop ends), or the socket has been disposed of  *)
(* (an exception; the loop goes on).                                       *)
ReceiveFails(l) ==
  /\ loop[l] = "reading"
  /\ \/ tcp[reads[l]] = "down" /\ loop' = [loop EXCEPT ![l] = "ending"]
     \/ tcp[reads[l]] = "disposed" /\ loop' = [loop EXCEPT ![l] = "checking"]
  /\ UNCHANGED <<pc, callVars, connectionState, signaled, isConnected,
                 flagVars, fieldVars, dialVars, tcp, plcVars, reads>>

(* The connection is confirmed: the communication setup is sent, unless    *)
(* the state is not yet, or no more, PendingOpenTransport.                 *)
ReceiveConfirm(l) ==
  /\ loop[l] = "reading" /\ Connected(reads[l]) /\ inbox[reads[l]] = "CC"
  /\ inbox' = [inbox EXCEPT ![reads[l]] = "nothing"]
  /\ IF connectionState = "PendingOpenTransport"
       THEN /\ connectionState' = "TransportOpened"
            /\ \/ CanSend /\ Ask("Setup") /\ loop' = [loop EXCEPT ![l] = "settingUp"]
               \/ ~SendFailsNot /\ UNCHANGED asked /\ loop' = [loop EXCEPT ![l] = "checking"]
       ELSE /\ loop' = [loop EXCEPT ![l] = "checking"]
            /\ UNCHANGED <<connectionState, asked>>
  /\ UNCHANGED <<pc, callVars, signaled, isConnected, flagVars, fieldVars,
                 dialVars, tcp, reads>>

SetupSent(l) ==
  /\ loop[l] = "settingUp"
  /\ loop' = [loop EXCEPT ![l] = "checking"]
  /\ connectionState' = IF connectionState = "TransportOpened" THEN "PendingOpenPlc"
                        ELSE connectionState
  /\ UNCHANGED <<pc, callVars, signaled, isConnected, flagVars, fieldVars,
                 dialVars, tcp, plcVars, reads>>

(* ReceivedCommunicationSetupAck, but for the jobs semaphore.              *)
ReceiveSetupAck(l) ==
  /\ loop[l] = "reading" /\ Connected(reads[l]) /\ inbox[reads[l]] = "Ack"
  /\ inbox' = [inbox EXCEPT ![reads[l]] = "nothing"]
  /\ connectionState' = "Opened"
  /\ signaled' = TRUE
  /\ acked' = acked \cup {o \in Opens : pc[o] \notin {"new", "locking", "done"}}
  /\ loop' = [loop EXCEPT ![l] = "checking"]
  /\ UNCHANGED <<pc, outcome, sema, closeCalled, isConnected, flagVars,
                 fieldVars, dialVars, tcp, asked, reads>>

LoopFails(l) ==
  /\ loop[l] = "ending"
  /\ loop' = [loop EXCEPT ![l] = "failed"]
  /\ ReconnectLater
  /\ UNCHANGED <<pc, callVars, connectionState, signaled, isConnected,
                 flagVars, fieldVars, dialed, awaitVars, tcp, plcVars, reads>>

EndLoop(l) ==
  /\ loop[l] = "failed"
  /\ loop' = [loop EXCEPT ![l] = "ended"]
  /\ PublishDown
  /\ UNCHANGED <<pc, callVars, signaled, flagVars, fieldVars, dialVars, tcp,
                 plcVars, reads>>

-----------------------------------------------------------------------------
(* The PLC and the network.                                                *)

Connects(p) ==
  /\ pc[p] = "connecting" /\ tcp[dialed[p]] = "connecting"
  /\ \/ /\ tcp' = [tcp EXCEPT ![dialed[p]] = "up"]
        /\ pc' = [pc EXCEPT ![p] = "connected"]
     \/ /\ "refuse" \in Disturbances
        /\ pc' = [pc EXCEPT ![p] = "failing"]
        /\ UNCHANGED tcp
  /\ UNCHANGED <<callVars, connectionState, signaled, isConnected, flagVars,
                 fieldVars, dialVars, plcVars, loopVars>>

Answers(n) ==
  /\ asked[n] # "nothing" /\ tcp[n] = "up"
  /\ inbox' = [inbox EXCEPT ![n] = IF asked[n] = "CR" THEN "CC" ELSE "Ack"]
  /\ asked' = [asked EXCEPT ![n] = "nothing"]
  /\ UNCHANGED <<pc, callVars, connectionState, signaled, isConnected,
                 flagVars, fieldVars, dialVars, tcp, loopVars>>

Breaks(n) ==
  /\ "break" \in Disturbances /\ tcp[n] = "up"
  /\ tcp' = [tcp EXCEPT ![n] = "down"]
  /\ UNCHANGED <<pc, callVars, connectionState, signaled, isConnected,
                 flagVars, fieldVars, dialVars, plcVars, loopVars>>

-----------------------------------------------------------------------------
Opening(o) ==
  \/ AlreadyOpen(o) \/ WantOpen(o) \/ StartOpen(o) \/ AwaitSetup(o) \/ Opened(o)
  \/ NotOpened(o)
Closing(p) ==
  CloseCalled(p) \/ CloseSocket(p) \/ SocketClosed(p) \/ CloseThrows(p) \/ EndClose(p)
Dialing(p) ==
  \/ NoDial(p) \/ StartDial(p) \/ Dial(p) \/ StartLoop(p) \/ Publish(p) \/ Requested(p)
  \/ DialThrows(p) \/ UndoDial(p) \/ DialFails(p) \/ DialFailed(p) \/ UndoThrows(p)
Looping(l) ==
  \/ BeginLoop(l) \/ Receive(l) \/ ReceiveFails(l) \/ ReceiveConfirm(l) \/ SetupSent(l)
  \/ ReceiveSetupAck(l) \/ LoopFails(l) \/ EndLoop(l)

Finished == (\A p \in Calls : pc[p] = "done") /\ UNCHANGED vars

Next ==
  \/ \E o \in Opens : Opening(o)
  \/ \E c \in Closes : StartClose(c)
  \/ \E p \in Calls : Closing(p)
  \/ \E p \in Dialers : Dialing(p) \/ Connects(p)
  \/ \E r \in Reconnects : Reconnect(r)
  \/ \E l \in Sockets : Looping(l)
  \/ \E n \in Sockets : Answers(n) \/ Breaks(n)
  \/ Finished

Spec == Init /\ [][Next]_vars

(* Every thread goes on, ConnectAsync ends one way or the other, and the   *)
(* timeout of a waiting OpenAsync fires.  The PLC may do nothing at all.   *)
FairSpec ==
  /\ Spec
  /\ \A o \in Opens : WF_vars(Opening(o))
  /\ \A c \in Closes : WF_vars(StartClose(c))
  /\ \A p \in Calls : WF_vars(Closing(p))
  /\ \A p \in Dialers : WF_vars(Dialing(p)) /\ WF_vars(Connects(p))
  /\ \A l \in Sockets : WF_vars(Looping(l))

-----------------------------------------------------------------------------
(* Properties.                                                             *)

DialStages == {"dial", "clearing", "connecting", "connected", "publish", "requested",
               "failing", "undoing", "failed"}
ReconnectStages == DialStages \cup {"idle"}
CallStages == DialStages \cup
  {"new", "locking", "dialed", "waiting", "closing", "disposing", "releasing", "closed",
   "done"}
Outcomes == {"none", "AlreadyOpen", "Connected", "NotConnected", "Closed", "Failed"}
LoopStages == {"none", "forked", "cancelled", "begun", "checking", "reading", "settingUp",
               "ending", "failed", "ended"}
States ==
  {"Closed", "PendingOpenTransport", "TransportOpened", "PendingOpenPlc", "Opened"}

(* Every variable has its type.                                            *)
TypeOK ==
  /\ pc \in [Parties -> CallStages \cup ReconnectStages]
  /\ \A p \in Calls : pc[p] \in CallStages
  /\ \A r \in Reconnects : pc[r] \in ReconnectStages
  /\ outcome \in [Calls -> Outcomes]
  /\ sema \in Calls \cup {Nobody}
  /\ connectionState \in States
  /\ closeCalled \in BOOLEAN /\ signaled \in BOOLEAN /\ isConnected \in BOOLEAN
  /\ delayed \in Nat
  /\ shutdown \in BOOLEAN /\ disableReconnect \in BOOLEAN /\ token \in BOOLEAN
  /\ acked \subseteq Opens
  /\ socket \in 0..MaxSockets /\ task \in 0..MaxSockets
  /\ awaits \in [Parties -> 0..MaxSockets] /\ crossed \in BOOLEAN
  /\ dialed \in [Dialers -> 0..MaxSockets]
  /\ tcp \in [Sockets -> {"unused", "connecting", "up", "down", "disposed"}]
  /\ asked \in [Sockets -> {"nothing", "CR", "Setup"}]
  /\ inbox \in [Sockets -> {"nothing", "CC", "Ack"}]
  /\ loop \in [Sockets -> LoopStages]
  /\ reads \in [Sockets -> 0..MaxSockets]

(* As long as calls alone open the connection, no two receive loops read   *)
(* from one socket, although a loop reads from whatever _socket is: the    *)
(* next socket is not made before the loop of the last one has ended.      *)
SingleReader ==
  \A l, m \in Sockets :
    loop[l] = "reading" /\ loop[m] = "reading" /\ reads[l] = reads[m] => l = m

(* A closed client stays closed: after CloseAsync no socket is left open   *)
(* and no reconnect opens one, wherever it was, and no socket but the      *)
(* current one is ever left open, as long as no disposal of the socket     *)
(* begins while another one awaits the receiving task.                     *)
Open(n) == tcp[n] \in {"connecting", "up", "down"}

ClosedStaysClosed ==
  crossed \/ \A n \in Sockets : Open(n) => ~shutdown /\ n = socket

(* The states of the connection follow the handshake: the setup is sent on *)
(* a confirmed transport only, and an acknowledged setup opens the         *)
(* connection; each of them may end in Closed.                             *)
Handshake ==
  {<<"Closed", "PendingOpenTransport">>, <<"PendingOpenTransport", "TransportOpened">>,
   <<"TransportOpened", "PendingOpenPlc">>, <<"PendingOpenPlc", "Opened">>}

HandshakeInOrder ==
  [][ \/ connectionState' \in {connectionState, "Closed"}
      \/ <<connectionState, connectionState'>> \in Handshake ]_vars

(* Every call of OpenAsync and CloseAsync returns, whatever the PLC does   *)
(* and however the calls meet.                                             *)
CallsReturn == \A p \in Calls : pc[p] # "new" ~> pc[p] = "done"

(* "If the connection could not be established you will get an             *)
(* Dacs7NotConnectedException": an OpenAsync that waited for the           *)
(* acknowledged setup and returns has seen it.                             *)
ConnectedMeansSetUp == \A o \in Opens : outcome[o] = "Connected" => o \in acked
=============================================================================
