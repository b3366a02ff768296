-------------------------- MODULE Connection_proofs --------------------------
(***************************************************************************)
(* Type correctness of Connection and that a closed client stays closed    *)
(* unless disposals of its socket overlap, for any number of calls,        *)
(* reconnects and sockets; and that calls alone never have two loops read  *)
(* one socket and follow the handshake.                                    *)
(***************************************************************************)
EXTENDS Connection, TLAPS

USE DEF Calls, Dialers, Parties, Sockets

SocketStates == {"unused", "connecting", "up", "down", "disposed"}

(* The types hold in the initial state.                                    *)
LEMMA InitTypes == Init => TypeOK
<1> SUFFICES ASSUME Init PROVE TypeOK
  OBVIOUS
<1>1. 0 \in 0..MaxSockets
  BY ConnectionAssumption
<1>2. /\ pc \in [Parties -> CallStages \cup ReconnectStages]
      /\ \A p \in Calls : pc[p] \in CallStages
      /\ \A r \in Reconnects : pc[r] \in ReconnectStages
  BY ConnectionAssumption DEF Init, CallStages, ReconnectStages
<1> QED
  BY <1>1, <1>2 DEF Init, TypeOK, States, Outcomes, LoopStages

(* The part of TypeOK that is about the progress of calls and reconnects.  *)
ProgressOK ==
  /\ pc \in [Parties -> CallStages \cup ReconnectStages]
  /\ \A p \in Calls : pc[p] \in CallStages
  /\ \A r \in Reconnects : pc[r] \in ReconnectStages

(* A dialer moves to another stage of dialing, or leaves InternalOpenAsync.*)
LEMMA DialerMoves ==
  ASSUME ProgressOK, NEW p \in Dialers,
         \/ \E s \in DialStages : pc' = [pc EXCEPT ![p] = s]
         \/ pc' = AfterDial(p)
         \/ pc' = [pc EXCEPT ![p] = IF p \in Opens THEN "done" ELSE "idle"]
  PROVE  ProgressOK'
  BY ConnectionAssumption
     DEF ProgressOK, AfterDial, DialStages, CallStages, ReconnectStages

(* A call moves to another stage of its own.                               *)
LEMMA CallMoves ==
  ASSUME ProgressOK, NEW p \in Calls,
         \E s \in CallStages : pc' = [pc EXCEPT ![p] = s]
  PROVE  ProgressOK'
  BY ConnectionAssumption DEF ProgressOK

(* Sockets are opened, broken or asked something: the types stay.          *)
LEMMA SocketTypes ==
  ASSUME TypeOK, NEW n
  PROVE  /\ \A v \in SocketStates : [tcp EXCEPT ![n] = v] \in [Sockets -> SocketStates]
         /\ \A v \in {"CR", "Setup"} :
               [asked EXCEPT ![n] = v] \in [Sockets -> {"nothing", "CR", "Setup"}]
         /\ [inbox EXCEPT ![n] = "nothing"] \in [Sockets -> {"nothing", "CC", "Ack"}]
         /\ [reads EXCEPT ![n] = socket] \in [Sockets -> 0..MaxSockets]
         /\ \A v \in LoopStages : [loop EXCEPT ![n] = v] \in [Sockets -> LoopStages]
<1>1. /\ tcp \in [Sockets -> SocketStates]
      /\ asked \in [Sockets -> {"nothing", "CR", "Setup"}]
      /\ inbox \in [Sockets -> {"nothing", "CC", "Ack"}]
      /\ reads \in [Sockets -> 0..MaxSockets] /\ socket \in 0..MaxSockets
      /\ loop \in [Sockets -> LoopStages]
  BY DEF TypeOK, SocketStates
<1> HIDE DEF LoopStages, SocketStates
<1> QED
  BY <1>1

(* The first half of a disposal keeps the types.                           *)
LEMMA DisposeTypes ==
  ASSUME TypeOK, NEW p \in Parties, DisposeSocket(p)
  PROVE  /\ tcp' \in [Sockets -> SocketStates] /\ token' \in BOOLEAN
         /\ awaits' \in [Parties -> 0..MaxSockets]
         /\ loop' \in [Sockets -> LoopStages]
<1>1. /\ tcp \in [Sockets -> SocketStates]
      /\ awaits \in [Parties -> 0..MaxSockets] /\ task \in 0..MaxSockets
      /\ loop \in [Sockets -> LoopStages]
  BY DEF TypeOK, SocketStates
<1>2. "disposed" \in SocketStates /\ "cancelled" \in LoopStages
  BY DEF SocketStates, LoopStages
<1>3. tcp' \in {tcp, [tcp EXCEPT ![socket] = "disposed"]} /\ token' = FALSE
  BY DEF DisposeSocket, Disposed
<1>4. loop' \in {loop, [loop EXCEPT ![task] = "cancelled"]}
  BY DEF DisposeSocket
<1>5. awaits' = [awaits EXCEPT ![p] = task]
  BY DEF DisposeSocket
<1>6. tcp' \in [Sockets -> SocketStates]
  BY <1>1, <1>2, <1>3
<1>7. loop' \in [Sockets -> LoopStages]
  BY <1>1, <1>2, <1>4
<1>8. awaits' \in [Parties -> 0..MaxSockets]
  <2> HIDE DEF Parties
  <2> QED
    BY <1>1, <1>5
<1> QED
  BY <1>3, <1>6, <1>7, <1>8

(* The second half and HandleSocketDown keep them.                         *)
LEMMA FieldTypes ==
  ASSUME TypeOK
  PROVE  /\ ClearFields => socket' \in 0..MaxSockets /\ task' \in 0..MaxSockets
                           /\ token' \in BOOLEAN
         /\ ReconnectLater => delayed' \in Nat
         /\ PublishDown => isConnected' \in BOOLEAN /\ connectionState' \in States
         /\ \A p : Crosses(p) => crossed' \in BOOLEAN
<1>1. ClearFields => socket' \in 0..MaxSockets /\ task' \in 0..MaxSockets
                     /\ token' \in BOOLEAN
  <2>1. 0 \in 0..MaxSockets
    BY ConnectionAssumption
  <2> QED
    BY <2>1 DEF ClearFields
<1>2. ReconnectLater => delayed' \in Nat
  BY DEF TypeOK, ReconnectLater
<1>3. PublishDown => isConnected' \in BOOLEAN /\ connectionState' \in States
  BY DEF TypeOK, PublishDown, States
<1>4. \A p : Crosses(p) => crossed' \in BOOLEAN
  BY DEF TypeOK, Crosses
<1> QED
  BY <1>1, <1>2, <1>3, <1>4

(* Every step keeps the types.                                             *)
LEMMA NextTypes == TypeOK /\ [Next]_vars => TypeOK'
<1> SUFFICES ASSUME TypeOK, [Next]_vars PROVE TypeOK'
  OBVIOUS
<1>0. ProgressOK
  BY DEF TypeOK, ProgressOK
<1>a. /\ outcome \in [Calls -> Outcomes] /\ sema \in Calls \cup {Nobody}
      /\ connectionState \in States /\ delayed \in Nat
      /\ closeCalled \in BOOLEAN /\ signaled \in BOOLEAN /\ isConnected \in BOOLEAN
      /\ shutdown \in BOOLEAN /\ disableReconnect \in BOOLEAN /\ token \in BOOLEAN
      /\ acked \subseteq Opens /\ crossed \in BOOLEAN
      /\ socket \in 0..MaxSockets /\ task \in 0..MaxSockets
      /\ awaits \in [Parties -> 0..MaxSockets]
      /\ dialed \in [Dialers -> 0..MaxSockets]
      /\ tcp \in [Sockets -> SocketStates]
      /\ asked \in [Sockets -> {"nothing", "CR", "Setup"}]
      /\ inbox \in [Sockets -> {"nothing", "CC", "Ack"}]
      /\ loop \in [Sockets -> LoopStages] /\ reads \in [Sockets -> 0..MaxSockets]
  BY DEF TypeOK, SocketStates
<1>b. AutoReconnect \in BOOLEAN
  BY ConnectionAssumption
<1>c. /\ {"AlreadyOpen", "Connected", "NotConnected", "Closed", "Failed"} \subseteq Outcomes
      /\ States = {"Closed", "PendingOpenTransport", "TransportOpened",
                   "PendingOpenPlc", "Opened"}
      /\ {"forked", "begun", "checking", "reading", "settingUp", "ending", "failed",
          "ended"} \subseteq LoopStages
      /\ {"connecting", "up", "down"} \subseteq SocketStates
      /\ {"locking", "dialed", "waiting", "closing", "disposing", "releasing", "closed",
          "done", "dial"} \subseteq CallStages
      /\ {"dial", "clearing", "connecting", "connected", "publish", "requested",
          "failing", "undoing", "failed"} = DialStages
  BY DEF Outcomes, States, LoopStages, SocketStates, CallStages, DialStages
<1>d. ASSUME ProgressOK',
             outcome' \in [Calls -> Outcomes], sema' \in Calls \cup {Nobody},
             connectionState' \in States, delayed' \in Nat,
             closeCalled' \in BOOLEAN, signaled' \in BOOLEAN, isConnected' \in BOOLEAN,
             shutdown' \in BOOLEAN, disableReconnect' \in BOOLEAN, token' \in BOOLEAN,
             acked' \subseteq Opens, crossed' \in BOOLEAN,
             socket' \in 0..MaxSockets, task' \in 0..MaxSockets,
             awaits' \in [Parties -> 0..MaxSockets],
             dialed' \in [Dialers -> 0..MaxSockets],
             tcp' \in [Sockets -> SocketStates],
             asked' \in [Sockets -> {"nothing", "CR", "Setup"}],
             inbox' \in [Sockets -> {"nothing", "CC", "Ack"}],
             loop' \in [Sockets -> LoopStages], reads' \in [Sockets -> 0..MaxSockets]
      PROVE  TypeOK'
  BY <1>d DEF TypeOK, ProgressOK, SocketStates
<1> HIDE DEF Outcomes, States, LoopStages, SocketStates, CallStages, ReconnectStages, DialStages
<1> USE DEF callVars, flagVars, fieldVars, awaitVars, dialVars, plcVars, loopVars
<1>1. ASSUME NEW o \in Opens, AlreadyOpen(o) PROVE TypeOK'
  BY <1>1, <1>0, <1>a, <1>c, <1>d, CallMoves DEF AlreadyOpen, Return
<1>2. ASSUME NEW o \in Opens, WantOpen(o) PROVE TypeOK'
  BY <1>2, <1>0, <1>a, <1>c, <1>d, CallMoves DEF WantOpen
<1>3. ASSUME NEW o \in Opens, StartOpen(o) PROVE TypeOK'
  BY <1>3, <1>0, <1>a, <1>c, <1>d, CallMoves DEF StartOpen
<1>4. ASSUME NEW o \in Opens, AwaitSetup(o) PROVE TypeOK'
  BY <1>4, <1>0, <1>a, <1>c, <1>d, CallMoves DEF AwaitSetup
<1>5. ASSUME NEW o \in Opens, Opened(o) PROVE TypeOK'
  BY <1>5, <1>0, <1>a, <1>b, <1>c, <1>d, CallMoves DEF Opened, Return
<1>6. ASSUME NEW o \in Opens, NotOpened(o) PROVE TypeOK'
  BY <1>6, <1>0, <1>a, <1>c, <1>d, CallMoves DEF NotOpened
<1>7. ASSUME NEW c \in Closes, StartClose(c) PROVE TypeOK'
  BY <1>7, <1>0, <1>a, <1>c, <1>d, CallMoves DEF StartClose
<1>8. ASSUME NEW p \in Calls, CloseCalled(p) PROVE TypeOK'
  BY <1>8, <1>0, <1>a, <1>c, <1>d, CallMoves DEF CloseCalled
<1>9. ASSUME NEW p \in Calls, CloseSocket(p) PROVE TypeOK'
  BY <1>9, <1>0, <1>a, <1>c, <1>d, CallMoves, DisposeTypes, FieldTypes DEF CloseSocket
<1>10. ASSUME NEW p \in Calls, SocketClosed(p) PROVE TypeOK'
  BY <1>10, <1>0, <1>a, <1>c, <1>d, CallMoves, FieldTypes DEF SocketClosed
<1>11. ASSUME NEW p \in Calls, CloseThrows(p) PROVE TypeOK'
  <2>1. shutdown' \in BOOLEAN /\ disableReconnect' \in BOOLEAN /\ crossed' \in BOOLEAN
    BY <1>11, <1>a, FieldTypes DEF CloseThrows
  <2> QED
    BY <1>11, <2>1, <1>0, <1>a, <1>c, <1>d, CallMoves DEF CloseThrows, Return
<1>12. ASSUME NEW p \in Calls, EndClose(p) PROVE TypeOK'
  BY <1>12, <1>0, <1>a, <1>c, <1>d, CallMoves DEF EndClose, Return
<1>13. ASSUME NEW p \in Dialers, NoDial(p) PROVE TypeOK'
  BY <1>13, <1>0, <1>a, <1>d, DialerMoves DEF NoDial
<1>14. ASSUME NEW p \in Dialers, StartDial(p) PROVE TypeOK'
  BY <1>14, <1>0, <1>a, <1>c, <1>d, DialerMoves, DisposeTypes, FieldTypes DEF StartDial
<1>15. ASSUME NEW p \in Dialers, Dial(p) PROVE TypeOK'
  <2>1. PICK n \in Sockets : /\ socket' = n
                            /\ tcp' = [tcp EXCEPT ![n] = "connecting"]
                            /\ dialed' = [dialed EXCEPT ![p] = n]
    BY <1>15 DEF Dial
  <2>2. n \in 0..MaxSockets /\ 0 \in 0..MaxSockets
    BY ConnectionAssumption
  <2>3. dialed' \in [Dialers -> 0..MaxSockets]
    BY <2>1, <2>2, <1>a
  <2>4. tcp' \in [Sockets -> SocketStates]
    BY <2>1, <1>a, <1>c
  <2> QED
    BY <1>15, <2>1, <2>2, <2>3, <2>4, <1>0, <1>a, <1>c, <1>d, DialerMoves DEF Dial
<1>16. ASSUME NEW p \in Dialers, StartLoop(p) PROVE TypeOK'
  <2>1. loop' \in [Sockets -> LoopStages]
    BY <1>16, <1>a, <1>c DEF StartLoop
  <2>2. task' \in 0..MaxSockets
    BY <1>16, <1>a DEF StartLoop
  <2> QED
    BY <1>16, <2>1, <2>2, <1>0, <1>a, <1>b, <1>c, <1>d, DialerMoves DEF StartLoop
<1>17. ASSUME NEW p \in Dialers, Publish(p) PROVE TypeOK'
  <2>1. asked' \in [Sockets -> {"nothing", "CR", "Setup"}]
    BY <1>17, <1>a DEF Publish, Ask
  <2>2. ProgressOK'
    BY <1>17, <1>0, <1>c, DialerMoves DEF Publish
  <2> QED
    BY <1>17, <2>1, <2>2, <1>a, <1>d DEF Publish
<1>18. ASSUME NEW p \in Dialers, Requested(p) PROVE TypeOK'
  BY <1>18, <1>0, <1>a, <1>c, <1>d, DialerMoves DEF Requested
<1>19. ASSUME NEW p \in Dialers, DialThrows(p) PROVE TypeOK'
  <2>1. crossed' \in BOOLEAN
    BY <1>19, <1>a, FieldTypes DEF DialThrows
  <2> QED
    BY <1>19, <2>1, <1>0, <1>a, <1>c, <1>d, DialerMoves DEF DialThrows
<1>20. ASSUME NEW p \in Dialers, UndoDial(p) PROVE TypeOK'
  BY <1>20, <1>0, <1>a, <1>c, <1>d, DialerMoves, DisposeTypes, FieldTypes DEF UndoDial
<1>21. ASSUME NEW p \in Dialers, DialFails(p) PROVE TypeOK'
  BY <1>21, <1>0, <1>a, <1>c, <1>d, DialerMoves, FieldTypes DEF DialFails
<1>22. ASSUME NEW p \in Dialers, EndDial(p)
       PROVE  ProgressOK' /\ outcome' \in [Calls -> Outcomes] /\ sema' \in Calls \cup {Nobody}
  BY <1>22, <1>0, <1>a, <1>c, DialerMoves DEF EndDial
<1>23. ASSUME NEW p \in Dialers, DialFailed(p) PROVE TypeOK'
  BY <1>23, <1>22, <1>a, <1>d, FieldTypes DEF DialFailed
<1>24. ASSUME NEW p \in Dialers, UndoThrows(p) PROVE TypeOK'
  <2>1. crossed' \in BOOLEAN
    BY <1>24, <1>a, FieldTypes DEF UndoThrows
  <2> QED
    BY <1>24, <2>1, <1>22, <1>a, <1>d DEF UndoThrows
<1>25. ASSUME NEW p \in Dialers, Connects(p) PROVE TypeOK'
  <2>1. tcp' \in {tcp, [tcp EXCEPT ![dialed[p]] = "up"]}
    BY <1>25 DEF Connects
  <2>2. tcp' \in [Sockets -> SocketStates]
    BY <2>1, <1>a, <1>c
  <2> QED
    BY <1>25, <2>2, <1>0, <1>a, <1>c, <1>d, DialerMoves DEF Connects
<1>26. ASSUME NEW r \in Reconnects, Reconnect(r) PROVE TypeOK'
  <2>1. delayed' \in Nat
    BY <1>26, <1>a DEF Reconnect
  <2>2. CASE pc' = pc
    BY <1>26, <2>1, <2>2, <1>0, <1>a, <1>d DEF Reconnect, ProgressOK
  <2>3. CASE pc' = [pc EXCEPT ![r] = "dial"]
    <3>1. ProgressOK'
      BY <2>3, <1>0, <1>c, DialerMoves
    <3> QED
      BY <1>26, <2>1, <3>1, <1>a, <1>d DEF Reconnect
  <2> QED
    BY <1>26, <2>2, <2>3 DEF Reconnect
<1>27. ASSUME NEW l \in Sockets, BeginLoop(l) PROVE TypeOK'
  BY <1>27, <1>0, <1>a, <1>c, <1>d DEF BeginLoop, ProgressOK
<1>28. ASSUME NEW l \in Sockets, Receive(l) PROVE TypeOK'
  <2>1. reads' \in [Sockets -> 0..MaxSockets]
    BY <1>28, <1>a DEF Receive
  <2>2. loop' \in [Sockets -> LoopStages]
    BY <1>28, <1>a, <1>c DEF Receive
  <2> QED
    BY <1>28, <2>1, <2>2, <1>0, <1>a, <1>d DEF Receive, ProgressOK
<1>29. ASSUME NEW l \in Sockets, ReceiveFails(l) PROVE TypeOK'
  BY <1>29, <1>0, <1>a, <1>c, <1>d DEF ReceiveFails, ProgressOK
<1>30. ASSUME NEW l \in Sockets, ReceiveConfirm(l) PROVE TypeOK'
  <2>1. asked' \in [Sockets -> {"nothing", "CR", "Setup"}]
    BY <1>30, <1>a DEF ReceiveConfirm, Ask
  <2>2. inbox' \in [Sockets -> {"nothing", "CC", "Ack"}]
    BY <1>30, <1>a DEF ReceiveConfirm
  <2>3. loop' \in [Sockets -> LoopStages]
    BY <1>30, <1>a, <1>c DEF ReceiveConfirm
  <2>4. connectionState' \in States
    BY <1>30, <1>a, <1>c DEF ReceiveConfirm
  <2> QED
    BY <1>30, <2>1, <2>2, <2>3, <2>4, <1>0, <1>a, <1>d DEF ReceiveConfirm, ProgressOK
<1>31. ASSUME NEW l \in Sockets, SetupSent(l) PROVE TypeOK'
  <2>1. connectionState' \in States
    BY <1>31, <1>a, <1>c DEF SetupSent
  <2> QED
    BY <1>31, <2>1, <1>0, <1>a, <1>c, <1>d DEF SetupSent, ProgressOK
<1>32. ASSUME NEW l \in Sockets, ReceiveSetupAck(l) PROVE TypeOK'
  <2>1. acked' \subseteq Opens
    BY <1>32, <1>a DEF ReceiveSetupAck
  <2> QED
    BY <1>32, <2>1, <1>0, <1>a, <1>c, <1>d DEF ReceiveSetupAck, ProgressOK
<1>33. ASSUME NEW l \in Sockets, LoopFails(l) PROVE TypeOK'
  BY <1>33, <1>0, <1>a, <1>c, <1>d, FieldTypes DEF LoopFails, ProgressOK
<1>34. ASSUME NEW l \in Sockets, EndLoop(l) PROVE TypeOK'
  BY <1>34, <1>0, <1>a, <1>c, <1>d, FieldTypes DEF EndLoop, ProgressOK
<1>35. ASSUME NEW n \in Sockets, Answers(n) PROVE TypeOK'
  BY <1>35, <1>0, <1>a, <1>d DEF Answers, ProgressOK
<1>36. ASSUME NEW n \in Sockets, Breaks(n) PROVE TypeOK'
  BY <1>36, <1>0, <1>a, <1>c, <1>d DEF Breaks, ProgressOK
<1>37. CASE UNCHANGED vars
  BY <1>37, <1>0, <1>a, <1>d DEF vars, ProgressOK
<1> QED
  BY <1>1, <1>2, <1>3, <1>4, <1>5, <1>6, <1>7, <1>8, <1>9, <1>10, <1>11, <1>12, <1>13,
     <1>14, <1>15, <1>16, <1>17, <1>18, <1>19, <1>20, <1>21, <1>23, <1>24, <1>25, <1>26,
     <1>27, <1>28, <1>29, <1>30, <1>31, <1>32, <1>33, <1>34, <1>35, <1>36, <1>37
     DEF Next, Opening, Closing, Dialing, Looping, Finished

(* Every variable has its type, in every state.                            *)
THEOREM ConnectionTypes == Spec => []TypeOK
<1>1. Init => TypeOK
  BY InitTypes
<1>2. TypeOK /\ [Next]_vars => TypeOK'
  BY NextTypes
<1> QED
  BY <1>1, <1>2, PTL DEF Spec

-----------------------------------------------------------------------------
(* As long as no two disposals have met: one party awaits the receiving    *)
(* task at most, there is no open socket meanwhile and none while a        *)
(* cancelled source is left in its field, and the client is not shut down  *)
(* behind the back of who is about to make a socket.                       *)
DisposalsAlone ==
  /\ \A p, q \in Parties : pc[p] \in Awaiting /\ pc[q] \in Awaiting => p = q
  /\ (\E p \in Parties : pc[p] \in Awaiting) \/ CancelThrows =>
       \A n \in Sockets : ~Open(n)
  /\ \A p \in Parties : pc[p] = "clearing" => ~shutdown
  /\ \A n \in Sockets : Open(n) => ~shutdown /\ n = socket

ClosingInv == crossed \/ DisposalsAlone

LEMMA InitClosing == Init => ClosingInv
  BY DEF Init, ClosingInv, DisposalsAlone, Awaiting, CancelThrows, Open

(* Whoever disposes of the socket, alone, leaves no socket open.           *)
LEMMA DisposesOfAll ==
  ASSUME TypeOK, DisposalsAlone, NEW p \in Parties, DisposeSocket(p), UNCHANGED socket
  PROVE  \A n \in Sockets : ~Open(n)'
<1>1. tcp \in [Sockets -> SocketStates] /\ socket \in 0..MaxSockets
  BY DEF TypeOK, SocketStates
<1>2. MaxSockets \in Nat
  BY ConnectionAssumption
<1> QED
  BY <1>1, <1>2 DEF DisposalsAlone, DisposeSocket, Disposed, Open

(* Only the beginning of a disposal can meet another one.                  *)
BeginsDisposal(p) ==
  \/ CloseSocket(p) \/ CloseThrows(p) \/ StartDial(p) \/ DialThrows(p) \/ UndoDial(p)
  \/ UndoThrows(p)

LEMMA CrossedSteps ==
  ASSUME [Next]_vars
  PROVE  crossed' = crossed \/ \E p \in Parties : BeginsDisposal(p) /\ Crosses(p)
<1> USE DEF awaitVars, dialVars
<1>1. ASSUME NEW o \in Opens, Opening(o) PROVE crossed' = crossed
  BY <1>1 DEF Opening, AlreadyOpen, WantOpen, StartOpen, AwaitSetup, Opened, NotOpened
<1>2. ASSUME NEW c \in Closes, StartClose(c) PROVE crossed' = crossed
  BY <1>2 DEF StartClose
<1>3. ASSUME NEW p \in Calls, CloseCalled(p) \/ SocketClosed(p) \/ EndClose(p)
      PROVE  crossed' = crossed
  BY <1>3 DEF CloseCalled, SocketClosed, EndClose
<1>4. ASSUME NEW p \in Dialers,
             \/ NoDial(p) \/ Dial(p) \/ StartLoop(p) \/ Publish(p) \/ Requested(p)
             \/ DialFails(p) \/ DialFailed(p) \/ Connects(p)
      PROVE  crossed' = crossed
  BY <1>4 DEF NoDial, Dial, StartLoop, Publish, Requested, DialFails, DialFailed, Connects
<1>5. ASSUME NEW p \in Parties, BeginsDisposal(p)
      PROVE  crossed' = crossed \/ Crosses(p)
  BY <1>5 DEF BeginsDisposal, CloseSocket, CloseThrows, StartDial, DialThrows, UndoDial,
              UndoThrows
<1>6. ASSUME NEW r \in Reconnects, Reconnect(r) PROVE crossed' = crossed
  BY <1>6 DEF Reconnect
<1>7. ASSUME NEW l \in Sockets, Looping(l) PROVE crossed' = crossed
  BY <1>7 DEF Looping, BeginLoop, Receive, ReceiveFails, ReceiveConfirm, SetupSent,
              ReceiveSetupAck, LoopFails, EndLoop
<1>8. ASSUME NEW n \in Sockets, Answers(n) \/ Breaks(n) PROVE crossed' = crossed
  BY <1>8 DEF Answers, Breaks
<1>9. CASE UNCHANGED vars
  BY <1>9 DEF vars
<1> QED
  BY <1>1, <1>2, <1>3, <1>4, <1>5, <1>6, <1>7, <1>8, <1>9
     DEF Next, Closing, Dialing, Finished, BeginsDisposal

(* Every step keeps it so, unless disposals meet in it.                    *)
LEMMA NextClosing == TypeOK /\ ClosingInv /\ [Next]_vars => ClosingInv'
<1> SUFFICES ASSUME TypeOK, DisposalsAlone, [Next]_vars, ~crossed'
             PROVE  DisposalsAlone'
  <2>1. [Next]_vars => crossed' = crossed \/ \E p \in Parties : BeginsDisposal(p) /\ Crosses(p)
    BY CrossedSteps
  <2>2. CASE crossed
    BY <2>1, <2>2 DEF ClosingInv, Crosses
  <2> QED
    BY <2>2 DEF ClosingInv
<1>0. /\ pc \in [Parties -> CallStages \cup ReconnectStages]
      /\ tcp \in [Sockets -> SocketStates]
      /\ socket \in 0..MaxSockets /\ task \in 0..MaxSockets /\ MaxSockets \in Nat
      /\ dialed \in [Dialers -> 0..MaxSockets]
      /\ 0 \notin Sockets
  BY ConnectionAssumption DEF TypeOK, SocketStates
<1>a. ASSUME NEW p \in Parties, DisposeSocket(p), Crosses(p), UNCHANGED <<socket, task>>,
             \/ pc' = [pc EXCEPT ![p] = "clearing"] /\ ~shutdown'
             \/ pc' = [pc EXCEPT ![p] = "releasing"]
             \/ pc' = [pc EXCEPT ![p] = "undoing"]
      PROVE  DisposalsAlone'
  <2>1. \A q \in Parties \ {p} : pc[q] \notin Awaiting
    BY <1>a DEF Crosses
  <2>2. \A q \in Parties \ {p} : pc'[q] \notin Awaiting /\ pc'[q] # "clearing"
    BY <1>0, <1>a, <2>1 DEF Awaiting
  <2>3. pc'[p] = "clearing" => ~shutdown'
    BY <1>0, <1>a
  <2>4. \A n \in Sockets : ~Open(n)'
    BY <1>a, DisposesOfAll
  <2> QED
    BY <2>2, <2>3, <2>4 DEF DisposalsAlone
<1>b. ASSUME NEW p \in Parties, pc[p] \in Awaiting, ClearFields, UNCHANGED tcp,
             NEW s, pc' = [pc EXCEPT ![p] = s], s \notin Awaiting
      PROVE  DisposalsAlone'
  <2>1. \A q \in Parties : pc'[q] \notin Awaiting /\ pc'[q] # "clearing"
    BY <1>0, <1>b DEF DisposalsAlone, Awaiting
  <2>2. \A n \in Sockets : ~Open(n)'
    BY <1>b DEF DisposalsAlone, Open
  <2> QED
    BY <2>1, <2>2 DEF DisposalsAlone
<1>c. ASSUME UNCHANGED <<fieldVars, tcp>>, shutdown' = shutdown \/ ~shutdown',
             \A q \in Parties : pc'[q] \in Awaiting => pc'[q] = pc[q]
      PROVE  DisposalsAlone'
  BY <1>c DEF DisposalsAlone, fieldVars, CancelThrows, Open, Awaiting
<1> USE <1>0 DEF callVars, flagVars, fieldVars, awaitVars, dialVars, plcVars, loopVars
<1>1. ASSUME NEW o \in Opens, Opening(o) PROVE DisposalsAlone'
  BY <1>1, <1>c DEF Opening, AlreadyOpen, WantOpen, StartOpen, AwaitSetup, Opened,
                    NotOpened, Return, Awaiting
<1>2. ASSUME NEW c \in Closes, StartClose(c) PROVE DisposalsAlone'
  BY <1>2, <1>c DEF StartClose, Awaiting
<1>3. ASSUME NEW p \in Calls, CloseCalled(p) \/ EndClose(p) PROVE DisposalsAlone'
  BY <1>3, <1>c DEF CloseCalled, EndClose, Return, Awaiting
<1>4. ASSUME NEW p \in Calls, CloseSocket(p) PROVE DisposalsAlone'
  BY <1>4, <1>a DEF CloseSocket
<1>5. ASSUME NEW p \in Calls, SocketClosed(p) PROVE DisposalsAlone'
  BY <1>5, <1>b DEF SocketClosed, Awaiting
<1>6. ASSUME NEW p \in Calls, CloseThrows(p) PROVE DisposalsAlone'
  <2>1. CASE pc[p] = "releasing"
    BY <1>6, <2>1, <1>c DEF CloseThrows, Return, Awaiting
  <2>2. CASE pc[p] = "disposing" /\ CancelThrows
    <3>1. \A q \in Parties \ {p} : pc[q] \notin Awaiting
      BY <1>6, <2>2 DEF CloseThrows, Crosses
    <3>2. \A q \in Parties : pc'[q] \notin Awaiting
      BY <1>6, <3>1 DEF CloseThrows, Return, Awaiting
    <3>3. \A n \in Sockets : ~Open(n)'
      BY <1>6, <2>2 DEF CloseThrows, DisposalsAlone, Open
    <3> QED
      BY <3>2, <3>3 DEF DisposalsAlone, Awaiting
  <2> QED
    BY <1>6, <2>1, <2>2 DEF CloseThrows
<1>7. ASSUME NEW p \in Dialers, StartDial(p) PROVE DisposalsAlone'
  BY <1>7, <1>a DEF StartDial
<1>8. ASSUME NEW p \in Dialers, Dial(p) PROVE DisposalsAlone'
  <2>1. PICK n \in Sockets : socket' = n /\ tcp' = [tcp EXCEPT ![n] = "connecting"]
    BY <1>8 DEF Dial
  <2>2. pc[p] = "clearing" /\ ~shutdown /\ UNCHANGED shutdown
    BY <1>8 DEF Dial, DisposalsAlone
  <2>3. \A m \in Sockets : Open(m)' => m = n
    BY <2>1, <2>2 DEF DisposalsAlone, Open, Awaiting
  <2>4. \A q \in Parties : pc'[q] \notin Awaiting /\ pc'[q] # "clearing"
    BY <1>8, <2>2 DEF Dial, DisposalsAlone, Awaiting
  <2>5. ~CancelThrows'
    BY <1>8 DEF Dial, CancelThrows
  <2> QED
    BY <2>1, <2>2, <2>3, <2>4, <2>5 DEF DisposalsAlone
<1>9. ASSUME NEW p \in Dialers, StartLoop(p) PROVE DisposalsAlone'
  <2>1. \A q \in Parties : pc'[q] \in Awaiting => pc'[q] = pc[q]
    BY <1>9 DEF StartLoop, Awaiting
  <2>2. ~CancelThrows' /\ UNCHANGED <<socket, tcp, shutdown>>
    BY <1>9 DEF StartLoop, CancelThrows
  <2> QED
    BY <2>1, <2>2 DEF DisposalsAlone, Open, Awaiting
<1>10. ASSUME NEW p \in Dialers, NoDial(p) \/ Publish(p) \/ Requested(p)
       PROVE  DisposalsAlone'
  BY <1>10, <1>c DEF NoDial, Publish, Requested, AfterDial, Awaiting
<1>11. ASSUME NEW p \in Dialers, DialThrows(p) PROVE DisposalsAlone'
  BY <1>11, <1>c DEF DialThrows, Awaiting
<1>12. ASSUME NEW p \in Dialers, UndoDial(p) PROVE DisposalsAlone'
  BY <1>12, <1>a DEF UndoDial
<1>13. ASSUME NEW p \in Dialers, DialFails(p) PROVE DisposalsAlone'
  BY <1>13, <1>b DEF DialFails, Awaiting
<1>14. ASSUME NEW p \in Dialers, DialFailed(p) \/ UndoThrows(p) PROVE DisposalsAlone'
  BY <1>14, <1>c DEF DialFailed, UndoThrows, EndDial, Awaiting
<1>15. ASSUME NEW p \in Dialers, Connects(p) PROVE DisposalsAlone'
  <2>1. \A q \in Parties : pc'[q] \in Awaiting => pc'[q] = pc[q]
    BY <1>15 DEF Connects, Awaiting
  <2>2. \A n \in Sockets : Open(n)' => Open(n)
    BY <1>15 DEF Connects, Open
  <2>3. UNCHANGED <<socket, task, token, shutdown>>
    BY <1>15 DEF Connects
  <2> QED
    BY <2>1, <2>2, <2>3 DEF DisposalsAlone, CancelThrows, Awaiting
<1>16. ASSUME NEW r \in Reconnects, Reconnect(r) PROVE DisposalsAlone'
  BY <1>16, <1>c DEF Reconnect, Awaiting
<1>17. ASSUME NEW l \in Sockets, Looping(l) PROVE DisposalsAlone'
  BY <1>17, <1>c DEF Looping, BeginLoop, Receive, ReceiveFails, ReceiveConfirm, SetupSent,
                     ReceiveSetupAck, LoopFails, EndLoop
<1>18. ASSUME NEW n \in Sockets, Answers(n) PROVE DisposalsAlone'
  BY <1>18, <1>c DEF Answers
<1>19. ASSUME NEW n \in Sockets, Breaks(n) PROVE DisposalsAlone'
  <2>1. \A m \in Sockets : Open(m)' => Open(m)
    BY <1>19 DEF Breaks, Open
  <2>2. UNCHANGED <<pc, socket, task, token, shutdown>>
    BY <1>19 DEF Breaks
  <2> QED
    BY <2>1, <2>2 DEF DisposalsAlone, CancelThrows
<1>20. CASE UNCHANGED vars
  BY <1>20, <1>c DEF vars
<1> QED
  BY <1>1, <1>2, <1>3, <1>4, <1>5, <1>6, <1>7, <1>8, <1>9, <1>10, <1>11, <1>12, <1>13,
     <1>14, <1>15, <1>16, <1>17, <1>18, <1>19, <1>20
     DEF Next, Closing, Dialing, Finished

(* Unless disposals of its socket overlap, a closed client stays closed    *)
(* and no socket leaks, however calls, reconnects and receive loops meet,  *)
(* and also when the disposal throws.                                      *)
THEOREM ClosedClientsStayClosed == Spec => []ClosedStaysClosed
<1>1. Init => TypeOK /\ ClosingInv
  BY InitTypes, InitClosing
<1>2. TypeOK /\ ClosingInv /\ [Next]_vars => TypeOK' /\ ClosingInv'
  BY NextTypes, NextClosing
<1>3. ClosingInv => ClosedStaysClosed
  BY DEF ClosingInv, DisposalsAlone, ClosedStaysClosed
<1> QED
  BY <1>1, <1>2, <1>3, PTL DEF Spec

-----------------------------------------------------------------------------
(* What is under way has _connectSema; so without reconnects no two        *)
(* disposals of the socket meet.                                           *)

OpeningStages == DialStages \cup {"dialed", "waiting"}
ClosingStages == {"closing", "disposing", "releasing", "closed"}

OneAtATime ==
  /\ \A p \in Calls : pc[p] \in OpeningStages \cup ClosingStages => sema = p
  /\ Reconnects = {} => ~crossed

LEMMA InitCalls == Init => OneAtATime
  BY ConnectionAssumption
     DEF Init, OneAtATime, OpeningStages, ClosingStages, DialStages

(* A step of somebody who has the semaphore, or is not a call, leaves the  *)
(* others where they are.                                                  *)
LEMMA NextOneAtATime == TypeOK /\ OneAtATime /\ [Next]_vars => OneAtATime'
<1> SUFFICES ASSUME TypeOK, OneAtATime, [Next]_vars PROVE OneAtATime'
  OBVIOUS
<1>0. pc \in [Parties -> CallStages \cup ReconnectStages]
  BY DEF TypeOK
<1>a. Reconnects = {} => ~crossed'
  <2>1. ASSUME Reconnects = {}, NEW p \in Parties, pc[p] \in OpeningStages \cup ClosingStages,
               Crosses(p)
        PROVE  ~crossed'
    <3>1. \A q \in Parties : pc[q] \in Awaiting => q = p
      BY <2>1 DEF OneAtATime, Awaiting, OpeningStages, ClosingStages, DialStages
    <3> QED
      BY <2>1, <3>1 DEF OneAtATime, Crosses
  <2>2. ASSUME NEW p \in Parties, BeginsDisposal(p)
        PROVE  pc[p] \in OpeningStages \cup ClosingStages
    BY <2>2 DEF BeginsDisposal, CloseSocket, CloseThrows, StartDial, DialThrows, UndoDial,
                UndoThrows, OpeningStages, ClosingStages, DialStages
  <2> QED
    BY <2>1, <2>2, CrossedSteps DEF OneAtATime
<1>b. ASSUME \A p \in Calls : pc'[p] \in OpeningStages \cup ClosingStages => sema' = p
      PROVE  OneAtATime'
  BY <1>a, <1>b DEF OneAtATime
<1> USE <1>0, <1>b, ConnectionAssumption
    DEF OneAtATime, OpeningStages, ClosingStages, DialStages, callVars
<1>1. ASSUME NEW o \in Opens, Opening(o) PROVE OneAtATime'
  BY <1>1 DEF Opening, AlreadyOpen, WantOpen, StartOpen, AwaitSetup, Opened, NotOpened, Return
<1>2. ASSUME NEW c \in Closes, StartClose(c) PROVE OneAtATime'
  BY <1>2 DEF StartClose
<1>3. ASSUME NEW p \in Calls, Closing(p) PROVE OneAtATime'
  BY <1>3 DEF Closing, CloseCalled, CloseSocket, SocketClosed, CloseThrows, EndClose, Return
<1>4. ASSUME NEW p \in Dialers, NoDial(p) PROVE OneAtATime'
  BY <1>4 DEF NoDial, AfterDial
<1>5. ASSUME NEW p \in Dialers, StartDial(p) \/ Dial(p) \/ StartLoop(p) PROVE OneAtATime'
  BY <1>5 DEF StartDial, Dial, StartLoop
<1>6. ASSUME NEW p \in Dialers, Publish(p) PROVE OneAtATime'
  BY <1>6 DEF Publish, AfterDial
<1>7. ASSUME NEW p \in Dialers, Requested(p) PROVE OneAtATime'
  BY <1>7 DEF Requested, AfterDial
<1>8. ASSUME NEW p \in Dialers, DialThrows(p) \/ UndoDial(p) \/ DialFails(p)
      PROVE  OneAtATime'
  BY <1>8 DEF DialThrows, UndoDial, DialFails
<1>9. ASSUME NEW p \in Dialers, DialFailed(p) \/ UndoThrows(p) PROVE OneAtATime'
  BY <1>9 DEF DialFailed, UndoThrows, EndDial
<1>10. ASSUME NEW p \in Dialers, Connects(p) PROVE OneAtATime'
  BY <1>10 DEF Connects
<1>11. ASSUME NEW r \in Reconnects, Reconnect(r) PROVE OneAtATime'
  BY <1>11 DEF Reconnect
<1>12. CASE UNCHANGED <<pc, sema>>
  BY <1>12
<1>13. ASSUME NEW l \in Sockets, Looping(l) PROVE UNCHANGED <<pc, sema>>
  BY <1>13 DEF Looping, BeginLoop, Receive, ReceiveFails, ReceiveConfirm, SetupSent,
               ReceiveSetupAck, LoopFails, EndLoop
<1>14. ASSUME NEW n \in Sockets, Answers(n) \/ Breaks(n) PROVE UNCHANGED <<pc, sema>>
  BY <1>14 DEF Answers, Breaks
<1>15. CASE UNCHANGED vars
  BY <1>15 DEF vars
<1> QED
  BY <1>1, <1>2, <1>3, <1>4, <1>5, <1>6, <1>7, <1>8, <1>9, <1>10, <1>11, <1>12,
     <1>13, <1>14, <1>15 DEF Next, Dialing, Finished

-----------------------------------------------------------------------------
(* Calls alone, without a reconnect.                                       *)

BeforePublish == {"clearing", "connecting", "connected", "failing", "undoing", "failed"}

Running(l) == loop[l] \notin {"none", "cancelled", "ended"}

(* There is one receive loop at most, and as long as it runs the client    *)
(* counts as connected, or is about to.                                    *)
OneLoop ==
  /\ \A l, m \in Sockets : Running(l) /\ Running(m) => l = m
  /\ \A l \in Sockets : Running(l) => isConnected \/ \E o \in Opens : pc[o] = "publish"
  /\ \A o \in Opens : pc[o] \in BeforePublish => \A l \in Sockets : ~Running(l)
  /\ \A o \in Opens : pc[o] \in BeforePublish \cup {"publish"} => ~isConnected

(* Nothing is sent on a socket before it is published, and one request at  *)
(* a time afterwards.                                                      *)
OneRequest ==
  /\ \A n \in Sockets : asked[n] = "nothing" \/ inbox[n] = "nothing"
  /\ \A n \in Sockets : tcp[n] = "unused" => asked[n] = "nothing" /\ inbox[n] = "nothing"
  /\ \A o \in Opens : pc[o] \in {"connecting", "connected", "publish"} /\ socket # 0 =>
       asked[socket] = "nothing" /\ inbox[socket] = "nothing"

(* A setup that is under way, or is acknowledged, was sent by the loop that *)
(* runs, on a confirmed transport.                                         *)
SettingUp(l) ==
  \/ connectionState = "TransportOpened" /\ loop[l] = "settingUp"
  \/ connectionState = "PendingOpenPlc"

SetupFollows ==
  /\ \A o \in Opens : pc[o] = "requested" => connectionState = "Closed"
  /\ \A l \in Sockets :
       Running(l) /\ socket # 0 /\ (asked[socket] = "Setup" \/ inbox[socket] = "Ack")
         => SettingUp(l)

LEMMA InitAlone == Init => OneLoop /\ OneRequest /\ SetupFollows
  BY ConnectionAssumption
     DEF Init, OneLoop, OneRequest, SetupFollows, Running, BeforePublish

(* A socket is made only when no loop runs: the one that did has published *)
(* its end.                                                                *)
LEMMA NextOneLoop ==
  ASSUME Reconnects = {}, TypeOK, OneAtATime, OneLoop, [Next]_vars
  PROVE  OneLoop'
<1>0. /\ pc \in [Parties -> CallStages \cup ReconnectStages]
      /\ loop \in [Sockets -> LoopStages]
  BY DEF TypeOK
<1>a. \A o, q \in Opens : pc[o] \in OpeningStages /\ pc[q] \in OpeningStages => o = q
  BY DEF OneAtATime
<1>b. ASSUME NEW p, DisposeSocket(p) PROVE \A l \in Sockets : Running(l)' => Running(l)
  BY <1>0, <1>b DEF DisposeSocket, Running
<1> USE <1>0, ConnectionAssumption
    DEF OneLoop, BeforePublish, OpeningStages, DialStages, callVars, flagVars, loopVars
<1> DEFINE Still == \A l \in Sockets : Running(l)' => Running(l)
<1>1. ASSUME NEW o \in Opens, Opening(o) PROVE OneLoop'
  BY <1>1 DEF Opening, AlreadyOpen, WantOpen, StartOpen, AwaitSetup, Opened, NotOpened,
              Return, Running
<1>2. ASSUME NEW c \in Closes, StartClose(c) PROVE OneLoop'
  BY <1>2 DEF StartClose, Running
<1>3. ASSUME NEW p \in Calls, Closing(p) PROVE OneLoop'
  <2>1. Still
    BY <1>3, <1>b DEF Closing, CloseCalled, CloseSocket, SocketClosed, CloseThrows, EndClose,
                      Running
  <2>2. \A o \in Opens : /\ pc'[o] \in BeforePublish \cup {"publish"} => pc'[o] = pc[o]
                         /\ pc[o] = "publish" => pc'[o] = pc[o]
    BY <1>3 DEF Closing, CloseCalled, CloseSocket, SocketClosed, CloseThrows, EndClose, Return
  <2>3. UNCHANGED isConnected
    BY <1>3 DEF Closing, CloseCalled, CloseSocket, SocketClosed, CloseThrows, EndClose
  <2> QED
    BY <2>1, <2>2, <2>3
<1>4. ASSUME NEW p \in Opens, NoDial(p) PROVE OneLoop'
  BY <1>4, <1>a DEF NoDial, AfterDial, Running
<1>5. ASSUME NEW p \in Opens, StartDial(p) PROVE OneLoop'
  <2>1. Still /\ \A l \in Sockets : ~Running(l)
    BY <1>5, <1>a, <1>b DEF StartDial
  <2> QED
    BY <1>5, <2>1 DEF StartDial
<1>6. ASSUME NEW p \in Opens, Dial(p) PROVE OneLoop'
  BY <1>6, <1>a DEF Dial, Running
<1>7. ASSUME NEW p \in Opens, StartLoop(p) PROVE OneLoop'
  BY <1>7, <1>a DEF StartLoop, Running
<1>8. ASSUME NEW p \in Opens, Publish(p) PROVE OneLoop'
  BY <1>8, <1>a DEF Publish, AfterDial, Running
<1>9. ASSUME NEW p \in Opens, Requested(p) PROVE OneLoop'
  BY <1>9, <1>a DEF Requested, AfterDial, Running
<1>10. ASSUME NEW p \in Opens, DialThrows(p) PROVE OneLoop'
  BY <1>10, <1>a DEF DialThrows, Running
<1>11. ASSUME NEW p \in Opens, UndoDial(p) PROVE OneLoop'
  <2>1. Still
    BY <1>11, <1>b DEF UndoDial
  <2> QED
    BY <1>11, <2>1, <1>a DEF UndoDial
<1>12. ASSUME NEW p \in Opens, DialFails(p) PROVE OneLoop'
  BY <1>12, <1>a DEF DialFails, Running
<1>13. ASSUME NEW p \in Opens, DialFailed(p) PROVE OneLoop'
  BY <1>13, <1>a DEF DialFailed, EndDial, PublishDown, Running
<1>14. ASSUME NEW p \in Opens, UndoThrows(p) PROVE OneLoop'
  BY <1>14, <1>a DEF UndoThrows, EndDial, Running
<1>15. ASSUME NEW p \in Opens, Connects(p) PROVE OneLoop'
  BY <1>15, <1>a DEF Connects, Running
<1>16. ASSUME NEW l \in Sockets, EndLoop(l) PROVE OneLoop'
  BY <1>16 DEF EndLoop, PublishDown, Running
<1>17. ASSUME NEW l \in Sockets, Looping(l), ~EndLoop(l) PROVE OneLoop'
  BY <1>17 DEF Looping, BeginLoop, Receive, ReceiveFails, ReceiveConfirm, SetupSent,
               ReceiveSetupAck, LoopFails, Running
<1>18. ASSUME NEW n \in Sockets, Answers(n) \/ Breaks(n) PROVE OneLoop'
  BY <1>18 DEF Answers, Breaks, Running
<1>19. CASE UNCHANGED vars
  BY <1>19 DEF vars, Running
<1> QED
  BY <1>1, <1>2, <1>3, <1>4, <1>5, <1>6, <1>7, <1>8, <1>9, <1>10, <1>11, <1>12, <1>13,
     <1>14, <1>15, <1>16, <1>17, <1>18, <1>19 DEF Next, Dialing, Finished

(* The dialer has made the current socket, and a loop that can read reads  *)
(* from it.                                                                *)
LEMMA NextOneRequest ==
  ASSUME Reconnects = {}, TypeOK, ClosingInv, OneAtATime, OneLoop, OneRequest, [Next]_vars
  PROVE  OneRequest'
<1>0. /\ pc \in [Parties -> CallStages \cup ReconnectStages]
      /\ tcp \in [Sockets -> SocketStates]
      /\ asked \in [Sockets -> {"nothing", "CR", "Setup"}]
      /\ inbox \in [Sockets -> {"nothing", "CC", "Ack"}]
      /\ socket \in 0..MaxSockets /\ MaxSockets \in Nat
      /\ dialed \in [Dialers -> 0..MaxSockets] /\ reads \in [Sockets -> 0..MaxSockets]
  BY ConnectionAssumption DEF TypeOK, SocketStates
<1>a. \A o, q \in Opens : pc[o] \in OpeningStages /\ pc[q] \in OpeningStages => o = q
  BY DEF OneAtATime
<1>b. \A n \in Sockets : Connected(n) => n = socket
  BY DEF OneAtATime, ClosingInv, DisposalsAlone, Open, Connected
<1>c. ASSUME NEW p, DisposeSocket(p)
      PROVE  \A n \in Sockets : tcp'[n] = "unused" => tcp[n] = "unused"
  BY <1>0, <1>c DEF DisposeSocket, Disposed
<1>d. ASSUME UNCHANGED <<asked, inbox, socket>>,
             \A n \in Sockets : tcp'[n] = "unused" => tcp[n] = "unused",
             \A o \in Opens : pc'[o] \in {"connecting", "connected", "publish"} =>
                                pc[o] \in {"connecting", "connected", "publish"}
      PROVE  OneRequest'
  BY <1>d DEF OneRequest
<1>e. ASSUME UNCHANGED <<asked, inbox, tcp>>, ClearFields PROVE OneRequest'
  BY <1>e DEF OneRequest, ClearFields
<1> USE <1>0, ConnectionAssumption
    DEF OpeningStages, DialStages, callVars, flagVars, fieldVars, plcVars, loopVars
<1>1. ASSUME NEW o \in Opens, Opening(o) PROVE OneRequest'
  BY <1>1, <1>d DEF Opening, AlreadyOpen, WantOpen, StartOpen, AwaitSetup, Opened, NotOpened,
                    Return
<1>2. ASSUME NEW c \in Closes, StartClose(c) PROVE OneRequest'
  BY <1>2, <1>d DEF StartClose
<1>3. ASSUME NEW p \in Calls, CloseCalled(p) \/ CloseThrows(p) \/ EndClose(p)
      PROVE  OneRequest'
  BY <1>3, <1>d DEF CloseCalled, CloseThrows, EndClose, Return
<1>4. ASSUME NEW p \in Calls, CloseSocket(p) PROVE OneRequest'
  BY <1>4, <1>c, <1>d DEF CloseSocket
<1>5. ASSUME NEW p \in Calls, SocketClosed(p) PROVE OneRequest'
  BY <1>5, <1>e DEF SocketClosed
<1>6. ASSUME NEW p \in Opens, NoDial(p) PROVE OneRequest'
  BY <1>6, <1>d DEF NoDial, AfterDial
<1>7. ASSUME NEW p \in Opens, StartDial(p) PROVE OneRequest'
  BY <1>7, <1>c, <1>d DEF StartDial
<1>8. ASSUME NEW p \in Opens, Dial(p) PROVE OneRequest'
  <2>1. PICK n \in Sockets : /\ tcp[n] = "unused" /\ socket' = n
                            /\ tcp' = [tcp EXCEPT ![n] = "connecting"]
    BY <1>8 DEF Dial
  <2>2. UNCHANGED <<asked, inbox>>
    BY <1>8 DEF Dial
  <2> QED
    BY <2>1, <2>2 DEF OneRequest
<1>9. ASSUME NEW p \in Opens, StartLoop(p) PROVE OneRequest'
  BY <1>9, <1>d DEF StartLoop
<1>10. ASSUME NEW p \in Opens, Publish(p) PROVE OneRequest'
  <2>1. CASE UNCHANGED asked
    BY <1>10, <2>1, <1>d DEF Publish, AfterDial
  <2>2. CASE asked' # asked
    <3>1. /\ socket # 0 /\ tcp[socket] = "up" /\ asked' = [asked EXCEPT ![socket] = "CR"]
          /\ pc[p] = "publish" /\ pc' = [pc EXCEPT ![p] = "requested"]
          /\ UNCHANGED <<inbox, socket, tcp>>
      BY <1>10, <2>2 DEF Publish, Ask, SendFailsNot
    <3>2. \A o \in Opens : pc'[o] \notin {"connecting", "connected", "publish"}
      BY <3>1, <1>a
    <3> QED
      BY <3>1, <3>2 DEF OneRequest
  <2> QED
    BY <2>1, <2>2
<1>11. ASSUME NEW p \in Opens, Requested(p) PROVE OneRequest'
  BY <1>11, <1>d DEF Requested, AfterDial
<1>12. ASSUME NEW p \in Opens, DialThrows(p) PROVE OneRequest'
  BY <1>12, <1>d DEF DialThrows
<1>13. ASSUME NEW p \in Opens, UndoDial(p) PROVE OneRequest'
  BY <1>13, <1>c, <1>d DEF UndoDial
<1>14. ASSUME NEW p \in Opens, DialFails(p) PROVE OneRequest'
  BY <1>14, <1>e DEF DialFails
<1>15. ASSUME NEW p \in Opens, DialFailed(p) \/ UndoThrows(p) PROVE OneRequest'
  BY <1>15, <1>d DEF DialFailed, UndoThrows, EndDial
<1>16. ASSUME NEW p \in Opens, Connects(p) PROVE OneRequest'
  BY <1>16, <1>d DEF Connects
<1>17. ASSUME NEW l \in Sockets, ReceiveConfirm(l) PROVE OneRequest'
  <2>1. /\ reads[l] = socket /\ socket \in Sockets /\ tcp[socket] # "unused"
        /\ inbox[socket] = "CC" /\ asked[socket] = "nothing"
        /\ inbox' = [inbox EXCEPT ![socket] = "nothing"] /\ UNCHANGED <<pc, socket, tcp>>
        /\ asked' \in {asked, [asked EXCEPT ![socket] = "Setup"]}
    <3>1. reads[l] = socket /\ socket \in Sockets /\ tcp[socket] # "unused"
      BY <1>17, <1>b DEF ReceiveConfirm, Connected
    <3>2. inbox[socket] = "CC" /\ asked[socket] = "nothing"
      BY <1>17, <3>1 DEF ReceiveConfirm, OneRequest
    <3>3. inbox' = [inbox EXCEPT ![socket] = "nothing"] /\ UNCHANGED <<pc, socket, tcp>>
      BY <1>17, <3>1 DEF ReceiveConfirm
    <3>4. asked' \in {asked, [asked EXCEPT ![socket] = "Setup"]}
      BY <1>17 DEF ReceiveConfirm, Ask
    <3> QED
      BY <3>1, <3>2, <3>3, <3>4
  <2>2. \A o \in Opens : pc[o] \notin {"connecting", "connected", "publish"}
    BY <2>1 DEF OneRequest
  <2> QED
    BY <2>1, <2>2 DEF OneRequest
<1>18. ASSUME NEW l \in Sockets, ReceiveSetupAck(l) PROVE OneRequest'
  BY <1>18 DEF ReceiveSetupAck, OneRequest
<1>19. ASSUME NEW l \in Sockets,
              \/ BeginLoop(l) \/ Receive(l) \/ ReceiveFails(l) \/ SetupSent(l)
              \/ LoopFails(l) \/ EndLoop(l)
       PROVE  OneRequest'
  BY <1>19, <1>d DEF BeginLoop, Receive, ReceiveFails, SetupSent, LoopFails, EndLoop
<1>20. ASSUME NEW n \in Sockets, Answers(n) PROVE OneRequest'
  BY <1>20 DEF Answers, OneRequest
<1>21. ASSUME NEW n \in Sockets, Breaks(n) PROVE OneRequest'
  BY <1>21, <1>d DEF Breaks
<1>22. CASE UNCHANGED vars
  BY <1>22, <1>d DEF vars
<1> QED
  BY <1>1, <1>2, <1>3, <1>4, <1>5, <1>6, <1>7, <1>8, <1>9, <1>10, <1>11, <1>12, <1>13,
     <1>14, <1>15, <1>16, <1>17, <1>18, <1>19, <1>20, <1>21, <1>22
     DEF Next, Closing, Dialing, Looping, Finished

(* The setup is sent on a confirmed transport, and its acknowledgement is  *)
(* read by the loop that has sent it.                                      *)
LEMMA NextSetupFollows ==
  ASSUME Reconnects = {}, TypeOK, ClosingInv, OneAtATime, OneLoop, OneRequest,
         SetupFollows, [Next]_vars
  PROVE  SetupFollows' /\ ( \/ connectionState' \in {connectionState, "Closed"}
                           \/ <<connectionState, connectionState'>> \in Handshake )
<1> DEFINE InOrder == \/ connectionState' \in {connectionState, "Closed"}
                      \/ <<connectionState, connectionState'>> \in Handshake
<1>0. /\ pc \in [Parties -> CallStages \cup ReconnectStages]
      /\ tcp \in [Sockets -> SocketStates]
      /\ asked \in [Sockets -> {"nothing", "CR", "Setup"}]
      /\ inbox \in [Sockets -> {"nothing", "CC", "Ack"}]
      /\ loop \in [Sockets -> LoopStages]
      /\ socket \in 0..MaxSockets /\ MaxSockets \in Nat
      /\ dialed \in [Dialers -> 0..MaxSockets] /\ reads \in [Sockets -> 0..MaxSockets]
  BY ConnectionAssumption DEF TypeOK, SocketStates
<1>a. \A o, q \in Opens : pc[o] \in OpeningStages /\ pc[q] \in OpeningStages => o = q
  BY DEF OneAtATime
<1>b. \A n \in Sockets : Connected(n) => n = socket
  BY DEF OneAtATime, ClosingInv, DisposalsAlone, Open, Connected
<1>c. \A l, m \in Sockets : Running(l) /\ Running(m) => l = m
  BY DEF OneLoop
<1>d. \A n \in Sockets : asked[n] = "nothing" \/ inbox[n] = "nothing"
  BY DEF OneRequest
<1>e. ASSUME UNCHANGED <<connectionState, asked, inbox, socket>>,
             \A l \in Sockets : Running(l)' => Running(l),
             \A l \in Sockets : loop[l] = "settingUp" => loop'[l] = loop[l],
             \A o \in Opens : pc'[o] = "requested" => pc[o] = "requested"
      PROVE  SetupFollows' /\ InOrder
  BY <1>e DEF SetupFollows, SettingUp
<1>f. ASSUME UNCHANGED connectionState, socket' = 0, UNCHANGED loop,
             \A o \in Opens : pc'[o] = "requested" => pc[o] = "requested"
      PROVE  SetupFollows' /\ InOrder
  BY <1>f DEF SetupFollows
<1>g. ASSUME NEW p, DisposeSocket(p)
      PROVE  /\ \A l \in Sockets : Running(l)' => Running(l)
             /\ \A l \in Sockets : loop[l] = "settingUp" => loop'[l] = loop[l]
  BY <1>0, <1>g DEF DisposeSocket, Running
<1> USE <1>0, ConnectionAssumption
    DEF OpeningStages, DialStages, callVars, flagVars, fieldVars, plcVars, loopVars
<1>1. ASSUME NEW o \in Opens, Opening(o) PROVE SetupFollows' /\ InOrder
  BY <1>1, <1>e DEF Opening, AlreadyOpen, WantOpen, StartOpen, AwaitSetup, Opened, NotOpened,
                    Return, Running
<1>2. ASSUME NEW c \in Closes, StartClose(c) PROVE SetupFollows' /\ InOrder
  BY <1>2, <1>e DEF StartClose, Running
<1>3. ASSUME NEW p \in Calls, CloseCalled(p) \/ CloseThrows(p) \/ EndClose(p)
      PROVE  SetupFollows' /\ InOrder
  BY <1>3, <1>e DEF CloseCalled, CloseThrows, EndClose, Return, Running
<1>4. ASSUME NEW p \in Calls, CloseSocket(p) PROVE SetupFollows' /\ InOrder
  BY <1>4, <1>e, <1>g DEF CloseSocket
<1>5. ASSUME NEW p \in Calls, SocketClosed(p) PROVE SetupFollows' /\ InOrder
  BY <1>5, <1>f DEF SocketClosed, ClearFields
<1>6. ASSUME NEW p \in Opens, NoDial(p) PROVE SetupFollows' /\ InOrder
  BY <1>6, <1>e DEF NoDial, AfterDial, Running
<1>7. ASSUME NEW p \in Opens, StartDial(p) PROVE SetupFollows' /\ InOrder
  BY <1>7, <1>e, <1>g DEF StartDial
<1>8. ASSUME NEW p \in Opens, Dial(p) PROVE SetupFollows' /\ InOrder
  <2>1. socket' \in Sockets /\ tcp[socket'] = "unused"
        /\ UNCHANGED <<connectionState, asked, inbox>>
        /\ \A o \in Opens : pc'[o] = "requested" => pc[o] = "requested"
    BY <1>8 DEF Dial
  <2>2. asked'[socket'] = "nothing" /\ inbox'[socket'] = "nothing"
    BY <2>1 DEF OneRequest
  <2> QED
    BY <2>1, <2>2 DEF SetupFollows
<1>9. ASSUME NEW p \in Opens, StartLoop(p) PROVE SetupFollows' /\ InOrder
  <2>1. /\ UNCHANGED <<connectionState, asked, inbox, socket>>
        /\ \A o \in Opens : pc'[o] = "requested" => pc[o] = "requested"
    BY <1>9 DEF StartLoop
  <2>2. socket # 0 => asked'[socket'] = "nothing" /\ inbox'[socket'] = "nothing"
    BY <1>9, <2>1 DEF StartLoop, OneRequest
  <2> QED
    BY <2>1, <2>2 DEF SetupFollows
<1>10. ASSUME NEW p \in Opens, Publish(p) PROVE SetupFollows' /\ InOrder
  <2>1. pc[p] = "publish" /\ UNCHANGED <<connectionState, inbox, socket, loop>>
    BY <1>10 DEF Publish
  <2>2. socket # 0 => asked[socket] = "nothing" /\ inbox[socket] = "nothing"
    BY <2>1 DEF OneRequest
  <2>3. socket # 0 => asked'[socket] # "Setup"
    BY <1>10, <2>2 DEF Publish, Ask, SendFailsNot
  <2>4. \A o \in Opens : pc'[o] = "requested" => connectionState' = "Closed"
    BY <1>10, <2>1 DEF Publish, AfterDial, SetupFollows
  <2> QED
    BY <2>1, <2>2, <2>3, <2>4 DEF SetupFollows
<1>11. ASSUME NEW p \in Opens, Requested(p) PROVE SetupFollows' /\ InOrder
  <2>1. /\ connectionState = "Closed" /\ connectionState' = "PendingOpenTransport"
        /\ UNCHANGED <<asked, inbox, socket, loop>>
    BY <1>11 DEF Requested, SetupFollows
  <2>2. \A o \in Opens : pc'[o] # "requested"
    BY <1>11, <1>a DEF Requested, AfterDial
  <2>3. \A l \in Sockets : Running(l) /\ socket # 0 =>
          asked[socket] # "Setup" /\ inbox[socket] # "Ack"
    BY <2>1 DEF SetupFollows, SettingUp
  <2>4. \A l \in Sockets : Running(l)' <=> Running(l)
    BY <2>1 DEF Running
  <2> QED
    BY <2>1, <2>2, <2>3, <2>4 DEF SetupFollows, Handshake
<1>12. ASSUME NEW p \in Opens, DialThrows(p) PROVE SetupFollows' /\ InOrder
  BY <1>12, <1>e DEF DialThrows, Running
<1>13. ASSUME NEW p \in Opens, UndoDial(p) PROVE SetupFollows' /\ InOrder
  BY <1>13, <1>e, <1>g DEF UndoDial
<1>14. ASSUME NEW p \in Opens, DialFails(p) PROVE SetupFollows' /\ InOrder
  BY <1>14, <1>f DEF DialFails, ClearFields
<1>15. ASSUME NEW p \in Opens, DialFailed(p) PROVE SetupFollows' /\ InOrder
  BY <1>15 DEF DialFailed, EndDial, PublishDown, OneLoop, BeforePublish, SetupFollows, Running
<1>16. ASSUME NEW p \in Opens, UndoThrows(p) PROVE SetupFollows' /\ InOrder
  BY <1>16, <1>e DEF UndoThrows, EndDial, Running
<1>17. ASSUME NEW p \in Opens, Connects(p) PROVE SetupFollows' /\ InOrder
  BY <1>17, <1>e DEF Connects, Running
<1>18. ASSUME NEW l \in Sockets, EndLoop(l) PROVE SetupFollows' /\ InOrder
  BY <1>18, <1>c DEF EndLoop, PublishDown, SetupFollows, Running
<1>19. ASSUME NEW l \in Sockets, ReceiveConfirm(l) PROVE SetupFollows' /\ InOrder
  <2>1. /\ reads[l] = socket /\ socket \in Sockets /\ loop[l] = "reading"
        /\ inbox[socket] = "CC" /\ asked[socket] = "nothing"
    BY <1>19, <1>b, <1>d DEF ReceiveConfirm, Connected
  <2>2. /\ inbox' = [inbox EXCEPT ![socket] = "nothing"]
        /\ UNCHANGED <<pc, socket>>
    BY <1>19, <2>1 DEF ReceiveConfirm
  <2>3. inbox'[socket] = "nothing"
    BY <2>1, <2>2
  <2>4. \A m \in Sockets : Running(m) => m = l
    BY <2>1, <1>c DEF Running
  <2>5. CASE connectionState = "PendingOpenTransport" /\ loop' = [loop EXCEPT ![l] = "settingUp"]
    BY <1>19, <2>1, <2>2, <2>3, <2>4, <2>5
       DEF ReceiveConfirm, SetupFollows, SettingUp, Running, Handshake
  <2>6. CASE asked' = asked /\ loop' = [loop EXCEPT ![l] = "checking"]
    <3>1. asked'[socket'] # "Setup" /\ inbox'[socket'] # "Ack"
      BY <2>1, <2>2, <2>3, <2>6
    <3>2. \A o \in Opens : pc'[o] = "requested" => connectionState' = "Closed"
      BY <1>19, <2>2 DEF ReceiveConfirm, SetupFollows
    <3>3. InOrder
      BY <1>19 DEF ReceiveConfirm, Handshake
    <3> QED
      BY <3>1, <3>2, <3>3 DEF SetupFollows
  <2> QED
    BY <1>19, <2>5, <2>6 DEF ReceiveConfirm
<1>20. ASSUME NEW l \in Sockets, ReceiveSetupAck(l) PROVE SetupFollows' /\ InOrder
  <2>1. reads[l] = socket /\ socket \in Sockets /\ inbox[socket] = "Ack" /\ loop[l] = "reading"
    BY <1>20, <1>b DEF ReceiveSetupAck, Connected
  <2>2. connectionState = "PendingOpenPlc"
    <3>1. Running(l) /\ socket # 0
      BY <2>1 DEF Running
    <3>2. SettingUp(l)
      BY <2>1, <3>1 DEF SetupFollows
    <3> QED
      BY <2>1, <3>2 DEF SettingUp
  <2>3. asked[socket] = "nothing"
    BY <2>1, <1>d
  <2> QED
    BY <1>20, <2>1, <2>2, <2>3 DEF ReceiveSetupAck, SetupFollows, SettingUp, Handshake
<1>21. ASSUME NEW l \in Sockets, SetupSent(l) PROVE SetupFollows' /\ InOrder
  BY <1>21, <1>c DEF SetupSent, SetupFollows, SettingUp, Running, Handshake
<1>22. ASSUME NEW l \in Sockets,
              BeginLoop(l) \/ Receive(l) \/ ReceiveFails(l) \/ LoopFails(l)
       PROVE  SetupFollows' /\ InOrder
  BY <1>22, <1>e DEF BeginLoop, Receive, ReceiveFails, LoopFails, Running
<1>23. ASSUME NEW n \in Sockets, Answers(n) PROVE SetupFollows' /\ InOrder
  BY <1>23 DEF Answers, SetupFollows, SettingUp, Running
<1>24. ASSUME NEW n \in Sockets, Breaks(n) PROVE SetupFollows' /\ InOrder
  BY <1>24, <1>e DEF Breaks, Running
<1>25. CASE UNCHANGED vars
  BY <1>25, <1>e DEF vars, Running
<1> QED
  BY <1>1, <1>2, <1>3, <1>4, <1>5, <1>6, <1>7, <1>8, <1>9, <1>10, <1>11, <1>12, <1>13,
     <1>14, <1>15, <1>16, <1>17, <1>18, <1>19, <1>20, <1>21, <1>22, <1>23, <1>24, <1>25
     DEF Next, Closing, Dialing, Looping, Finished

Alone ==
  TypeOK /\ ClosingInv /\ OneAtATime /\ OneLoop /\ OneRequest /\ SetupFollows

LEMMA NextAlone ==
  ASSUME Reconnects = {}
  PROVE  Alone /\ [Next]_vars => Alone'
  BY NextTypes, NextClosing, NextOneAtATime, NextOneLoop, NextOneRequest, NextSetupFollows
     DEF Alone

(* Calls alone never have two loops read from one socket.                  *)
THEOREM CallsHaveOneReader ==
  ASSUME Reconnects = {}
  PROVE  Spec => []SingleReader
<1>1. Init => Alone
  BY InitTypes, InitClosing, InitCalls, InitAlone DEF Alone
<1>2. Alone /\ [Next]_vars => Alone'
  BY NextAlone
<1>3. Alone => SingleReader
  BY DEF Alone, OneLoop, Running, SingleReader
<1> QED
  BY <1>1, <1>2, <1>3, PTL DEF Spec

(* Calls alone take the connection through the handshake in order.         *)
THEOREM CallsFollowTheHandshake ==
  ASSUME Reconnects = {}
  PROVE  Spec => HandshakeInOrder
<1> DEFINE InOrder == \/ connectionState' \in {connectionState, "Closed"}
                      \/ <<connectionState, connectionState'>> \in Handshake
<1>1. Init => Alone
  BY InitTypes, InitClosing, InitCalls, InitAlone DEF Alone
<1>2. Alone /\ [Next]_vars => Alone'
  BY NextAlone
<1>3. Alone /\ [Next]_vars => [InOrder]_vars
  BY NextSetupFollows DEF Alone
<1> QED
  BY <1>1, <1>2, <1>3, PTL DEF Spec, HandshakeInOrder
=============================================================================
