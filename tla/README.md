# Verification of Dacs7

Dacs7 is a C# library that reads and writes the data of Siemens PLCs over
RFC1006 (ISO on TCP). This directory holds TLA+ models of its concurrent core,
the TLC runs that check them on small instances, and TLAPS proofs of what
matters most for all instances. Paths are relative to
`src/dacs7/src/Dacs7/` of the repository unless they start with `src/`.

    tlc -workers 2 -config MCJobExchange_safety.cfg MCJobExchange.tla
    tlapm JobExchange_proofs.tla

`PROJECT.json` lists components, runs, hazards, findings and theorems, and maps
each definition to the lines it stands for.

## 1. The system

| Component | State it keeps | Operations | Who calls it |
|---|---|---|---|
| AsyncAutoResetEvent (`Helper/`) | queue of waiting tasks, a flag, one value | `WaitAsync` with token or timeout, `Set`, `Reset` | everything that waits for an answer |
| Job exchange (`ProtocolHandler*.cs`, `CallbackHandler`, `SemaphoreGuard`) | jobs semaphore, 16-bit reference, a table of callback handlers for each kind of job | `ReadAsync`, `WriteAsync`, received answers, `CancelPendingEvents` | the client's read and write methods; the receive loop |
| Connection (`ProtocolHandler.cs`, `SocketBase`, `ClientSocket`, `TcpTransport`) | socket, token source, receive task, `IsConnected`, `_shutdown`, `_disableReconnect`, `ConnectionState`, `_connectEvent`, `_closeCalled` | `OpenAsync`, `CloseAsync`, receive loop, reconnect, handshake | `Dacs7Client.ConnectAsync`, `DisconnectAsync`; the sockets' callbacks |
| Negotiation (`ProtocolHandler.cs:337-360`) | `MaxAmQCalling`, PDU size, the semaphore | the setup acknowledgement replaces the semaphore | the receive loop |
| Alarms (`ProtocolHandler.Alarms.cs`, `Domain/AlarmSubscription.cs`) | update handler, subscriptions with a queue and an event each | create, dispose, receive, enable, disable, indication, cancel | the application; the receive loop; the end of the connection |
| Block information (`ProtocolHandler.Metadata.cs`) | three more tables of handlers | block info, blocks count, blocks of a type (an answer in several parts) | the application |
| Framing (`ClientSocket.StartReceive`, `Rfc1006*`, `DataTransferDatagram`) | offsets of the receive buffer, fragments | split and reassemble | the receive loop |
| Packaging (`ReadPackage`, `WritePackage`, `BildResults`) | items and sizes of a package | pack, split large items, put results together | reads and writes |
| Registered tags (`Dacs7Client.cs:156-176`) | an immutable dictionary | compare-and-swap of a changed copy | the application's threads |
| Server (`Dacs7Server`, `ServerSocket`, `SimulationPlcDataProvider`) | handlers of its clients, data areas | accept, read, write, register, release | remote clients |
| Datagrams, converters, tag parser | none | translations | all of the above |

How they interact: a call takes a permit, registers a callback handler under a
fresh reference, sends and waits on the handler's event. The receive loop finds
the handler by the reference of an answer and sets the event. Closing, and the
end of a receive loop, publish a connection state whose handler sets all
registered events to null. Calls, the receive loop, the reconnect and the timers
of `WaitAsync` run on threads of their own; no lock is shared between them but
that of a single event.

What is hard: results that come late, twice, or after the caller has gone;
timers that race with answers; handlers that register while a cancellation walks
the tables; references that come round; permits on each of many ways out; a
connection that is opened, closed, lost and remade by several parties at once;
flags (`_closeCalled`, `IsConnected`, `_connectEvent`, the alarm handler's id)
that outlive what they were about. Every such place is a hazard in
`PROJECT.json` with the properties that watch it.

What makes each component correct:

- event: no wakeup is lost, a value reaches one caller, a timeout never eats a value;
- exchange: permits are conserved, tables hold what is under way, nobody gets a
  foreign answer, every call returns, a lost connection wakes who waited on it
  (unless the copy of his table fails);
- connection: a closed client stays closed and leaks no socket (unless disposals of
  the socket overlap), one reader for each socket, calls return, `OpenAsync` means what
  it says;
- alarms: no alarm is missed, no updates for nobody, a receiver returns when his
  token is cancelled while its callback is registered or before it is looked at;
- negotiation: a new semaphore neither makes nor loses a permit of another, jobs
  under way are not more than agreed, a job that waits is served or returns;
- packaging: packages fit the PDU, each byte goes out once and comes back at its
  place, the result of an item is that of all its parts;
- framing: each message is handed on once, whole and in order, whatever the pieces
  it came in, and none stays behind in the buffer, unless kept bytes pass for a header.

## 2. Modules

    EventMailbox              what an event promises (abstract)
    AsyncAutoResetEvent       the event; refines EventMailbox
      _proofs
      MCEvent                 1 run
    CallPromise               what a read or a write promises (abstract)
    JobExchange               reads, writes and answers; its events are mailboxes;
                              refines CallPromise
      _proofs, _answers       permits and line; tables, answers, lost connections,
                              the refinement
      MCJobExchange           3 runs
    Connection                open, close, reconnect, handshake
      _proofs
      MCConnection            3 runs
    Negotiation               the jobs semaphore and its replacement
      _proofs
      MCNegotiation           1 run
    AlarmUpdates              subscriptions and update requests
      _proofs
      MCAlarmUpdates          2 runs
    ReceiveBuffer             frames out of pieces of the stream
      _proofs
      MCReceiveBuffer         1 run
    Packaging                 items to packages, parts to results
      _proofs
      MCPackaging             1 run

The components meet in abstract form: `JobExchange` and `AlarmUpdates` use an event
as the slot of `EventMailbox`, `JobExchange` has a connection reduced to whether it is
open and when it ends, `Negotiation` has jobs reduced to their permit, `Packaging`
has an exchange reduced to its answers.

A step is what the code does without anybody being able to tell the parts apart:
up to an await, a lock's end, a shared field that another thread writes, or a
call of something modelled by itself. In each module the "slips" are
variants of an action that a change of the code could bring in. No specification
uses them; putting one in place of the action makes TLC report the property it
belongs to (section 5), which shows that the property can fail.

### AsyncAutoResetEvent (`Helper/AsyncAutoResetEvent.cs`)

`waits`, `signaled`, `lastValue` are the fields. `Set` and `WaitAsync` are atomic
under the lock; `Release` (`TrySetResult` after the lock, l.140), `FinishCancel`
(l.81-84) and both assignments of `Reset` (l.111, 112) are steps of their own,
because they take no lock. `WaitAsync` is one of `TakeSignal`,
`WaitCancelled`, `Enqueue` and `EnqueueMissingCancel`, the last one for a token that is
cancelled between its test (l.63) and `Register` (l.73). The token stands for
the timer of the overload with a timeout too. Each call is one element of
`Waiters` or `Setters`, used once.

`EventMailbox` is the promise: a slot for one value, a post goes to a waiting
caller or into an empty slot, a caller may give up while the slot is empty, and
whoever resets blanks the value (`Blank`) and then empties the slot (`Erase`), with
anything in between. The event implements it, its unlocked `Reset` included; what
`Reset` costs shows in `AcceptedIsDelivered`, which promises delivery only until somebody
resets. `JobExchange` and `AlarmUpdates` use the slot form. Of the code, only the
alarm receiver calls `Reset`; `AlarmUpdates` models that call itself, and the window of
`EnqueueMissingCancel` with it (`Wait`, `Register`, `CancelToken`). `JobExchange` does not
model that window: there a timer is taken to end the wait.

### JobExchange (`ProtocolHandler.cs`, `.Read.cs`, `.Write.cs`)

A job is a call of `ReadAsync` or `WriteAsync`; it sends its packages one after the
other. `pc` follows `ReadPackage`/`WritePackage`: reference (`TakeReference`),
`SemaphoreGuard.Async` (`Acquire`), the new handler and `TryAdd` (`Register`),
`SendAsync` (`Send`, `SendFails`), the wait (`Wake`, `TimeOut`), the `finally` and the
end of the `using` (`Leave`, `LeaveUnregistered`), `HandlerErrorResult` (`Fail`),
the results (`Complete`). `handlers` are `_readHandler` and `_writeHandler`.
`Found` and `HandOver` are the receive loop: lookup with the exception it
stores, then `Set`. `StartCancel`, `CopyWrites`, `CancelOne`, `CancelReads`, `CopyReads`,
`CancelEnds` are `CancelPendingEvents`, run by `CloseAsync` (number 0) and by the end of
each connection (its epoch). It takes the handlers of a table with `ToList()`, which
counts them and then copies them: `CountHandlers` and `CopyHandlers` are two steps, and a
table that has grown in between does not fit, which is caught and logged, so that
no handler of that table is cancelled (`failedCopies`, `PassedOver`). The rest is the
connection as the calls see it.
A peer that ends the connection may have sent answers before: they stay in `wire`.

Choices: the two conditions of the first check are read at once; the lookup and
the stored exception are one step, `TryRemove` and `Release` too (between them
only the caller's own next step could tell); `SemaphoreSlim` serves its line in
order; an answer may be parsed twice, since the receive buffer may present the
same bytes again; a null result means what `_closeCalled` and the exception say
when the caller looks. The number of permits is fixed: what happens when it is
renegotiated is `Negotiation`. Items are not modelled, only packages.

`CallPromise` is what the caller of `ReadAsync` and `WriteAsync` may rely on: packages go
out one after the other, each once and never beside more than the agreed number
of others; the call goes on only with the answer to the package it has asked, an
answer it has taken is used, it succeeds after the last one, and any failure ends
it. In the mapping (`CallStage`, `CallAnswered`, `CallAnswer`) a package is with the
PLC from `Send` to the end of its `using` block (the permit is given back there); a
call runs before that, while it takes a reference and waits for a permit, and it is
failing from the moment on where no result can come any more. Queues, tables,
events, the wire and the cancellations show nothing. A foreign answer is allowed
only once references have come round (`wrapped`).

### Connection (`ProtocolHandler.cs`, `SocketBase.cs`, `ClientSocket.cs`, `TcpTransport.cs`)

`OpenAsync` is `AlreadyOpen`, `WantOpen`, `StartOpen`, `AwaitSetup`, `Opened`,
`NotOpened`; `CloseAsync` is `StartClose`, and both use `CloseCalled`, `CloseSocket`,
`SocketClosed`, `CloseThrows`, `EndClose` of `InternalCloseAsync`. `InternalOpenAsync` up to
each await, run by callers and by reconnects, is `NoDial` or `StartDial` (the test of
`_shutdown`), `Dial` (the new socket), `StartLoop`, `Publish`, `Requested`, and when it
throws `DialThrows`, `UndoDial`, `DialFails`, `DialFailed` or `UndoThrows`; nothing keeps two
dialers apart. `Reconnect` is the end of the wait of one of the `delayed` reconnects.
`BeginLoop`, `Receive`, `ReceiveFails`, `ReceiveConfirm`, `SetupSent`, `ReceiveSetupAck` are the
receive loop, `LoopFails` (`ClientSocket.cs:276`, the reconnect starts to wait) and `EndLoop`
(l.277, the end is published) what follows it. A loop does not have a socket: it reads
whatever `_socket` is at its turn (`reads`).

`DisposeSocketAsync` is two steps, `DisposeSocket` before and `ClearFields` after its await
of `_receivingTask`, and everybody may run in between: close, dial, or make a socket
that `ClearFields` then forgets. `awaits` is the task that is awaited. It is the outer task
of `StartNew(() => StartReceive())`, which ends at the first await of the loop, so that
awaiting it does not wait for the loop (`AwaitEnds`). Both halves may throw: `Cancel`
on a token source that has been disposed of and is still in its field
(`CancelThrows`), and the await of a task that was cancelled before it began
(`AwaitThrows`). The fields then keep what they hold. `crossed` is history: a disposal has
begun while another one was awaiting. The sockets of the server (`ServerSocket`,
`UseSocketAsync`) are not modelled.

### Negotiation (`ProtocolHandler.cs`, `SemaphoreGuard.cs`, `Dacs7Client.cs`)

`calling` is `_s7Context.MaxAmQCalling`, `sema` the field `_concurrentJobs`; semaphores are
numbered as they are made. `SetCalling` is the setter of the client (only while it
is not connected), `SetupAck` is `ReceivedCommunicationSetupAck` with
`UpdateJobsSemaphore` up to the new semaphore in the field, `DisposeOld` its last line,
`Opened` what follows, `Dispose` and `ClearField` the client's `Dispose`. A job tests the
field (`Test`), reads it again (`Fetch`), asks the semaphore it has read (`Enter`,
`SemaphoreGuard.Async`), works and gives the permit back (`Leave`). Jobs of an
earlier connection go on while the next one is negotiated, so that a job may hold,
await or ask for a permit of a semaphore that has been replaced.

Choices: the PLC grants what it was asked for or less; what a job does with its
permit is one step, of which `JobExchange` tells the rest; a disposed `SemaphoreSlim`
throws for who asks or releases and never wakes who waits (`Stranded`). `userSet` is
history for `AgreedJobs`: since the semaphore was made the user has set
`MaxAmQCalling`. The server's use of `UpdateJobsSemaphore`
(`ProtocolHandler.Server.CommSetup.cs:18-40`) is not modelled.

### AlarmUpdates (`ProtocolHandler.Alarms.cs`, `Domain/AlarmSubscription.cs`)

`enabled` says whether `_alarmUpdateHandler` has an id; nothing else of the handler
matters, because nobody looks at the answer to an update request and the wait
for it may time out at any time. `Receive`, `Enable`, `SendEnable`, `EnableFails`,
`Enabled`, `ResetEvent`, `Look`, `Wait`, `Register`, `Woken` follow
`ReceiveAlarmUpdatesAsync` with `EnableAlarmUpdatesAsync`; `Disable`, `SendDisable`, `DisableFails`, `Disabled` follow
`DisableAlarmUpdatesAsync`, which three parties run: the disposal of the last
subscription, `CloseAsync` and the end of a connection. `Indication`,
`AddDatagram`, `SetAdded` are the receive loop; the event is set some time after
the datagram was queued. `Wait` and `Register` are `WaitAsync` before and after the
token's callback is registered, both under the lock of the event, so that nobody sets
it in between. A token that is cancelled there runs the callback in vain: the
receiver is `deaf` and waits until somebody sets the event.

Choices: each subscription has one receiver and is not disposed of while he
receives; the two dictionary operations of creating and disposing are one step;
permits are given in any order; other jobs do not compete for them.
`ReadPendingAlarmsAsync`, the obsolete `ReceiveAlarmUpdatesAsync(ct)` and the paths for
a semaphore that is replaced meanwhile are left out. The two `catch (Exception)`
branches inside (l.349, 405) cannot run: neither `SendAsync` nor `WaitAsync` throws.

### ReceiveBuffer (`ClientSocket.cs:203-270`, `TcpTransport.cs`, `DataTransferDatagram.cs`)

`receiveOffset`, `bufferOffset`, `received`, `processed` are the locals of `StartReceive`;
`Receive` is `ReceiveAsync` into what is left of the buffer, and the other actions are
one turn of the inner loop each: `MoveForward` (an unknown datagram, one byte on),
`KeepRest` (no progress: the offsets are moved so that the rest is presented again),
`HandOn`, `AddFragment`, `ApplyFragments` (a data frame that is complete), `TooShort` (a
length of less than 7, for which `Slice` throws), `HandOnThrows` (a message whose
handling throws, or a damaged one that nobody can read), `TakeConnection`,
`ConnectionThrows` and `ConnectionEndless` (a connection request or confirmation). What
throws is caught, leaves the offsets as they are and drops the rest of the turn.
`IsHeader` with `Detected` is `TryDetectDatagramType`, `Complete` and `Last` are
`TranslateFromMemory`.

A cell of the buffer holds the number of a byte in the stream, so that old bytes can
be told from others; what the code compares is `Byte`, the value of that byte. So
whatever has the values passes for a header: a payload, a length byte of 240
or a number. A frame says where it is complete, but a connection datagram does
not: `ConnectionConfirmedDatagram.TranslateFromMemory` does not look at the length in its
header and reads parameters to the end of the slice (`Parameters`), throws when they
are cut off, and does not advance at a code it does not know. `Readable` are the frames
whose message is handled without an exception.

`astray` is history, after which nothing is promised: a byte that is kept in the
buffer when the loop goes on to receive will pass for the begin of a header, together
with what comes (`KeptPasses`), or a connection datagram was not whole and alone in
its slice. The client sends the setup only after the confirmation, so the PLC has
nothing to send behind it; its pieces are up to TCP.

### Packaging (`ReadPackage.cs`, `WritePackage.cs`, `ProtocolHandler.Read.cs`, `.Write.cs`)

One call of `ReadAsync` or `WriteAsync` with its items. `CreateReadPackages` and
`CreateWritePackages` are enumerators: they go on only when the package they
yielded has been exchanged. `TakeItem`, `PlaceWhole`, `Cut`, `PlaceInOpen`, `PlaceInNew`,
`Check` and `Flush` are their loops between two looks at `PduSize` or two yields;
both have the same shape and differ in the arithmetic of `TryAdd` (`AddRead`,
`AddWrite`, `CanAdd`, `Full`, `ItemMaxLength`). `open` is the list `result` of the
enumerator, `current` the index of `currentPackage` in it. `Answered` is
`BildResults`, `Rejected` an acknowledgement without items, `Unanswered` each way
in which a call ends without one, and `Renegotiate` the setup acknowledgement of a
reconnect. How a package travels is `JobExchange`.

Data is abstracted to positions: a part is a stretch of bytes of its item, what
is read is the set of bytes that arrived. `wire` is the length of the longer
datagram as it is sent: the answer to a read, the request of a write.

Choices: elements are one byte long (the code counts elements where bytes are
meant: see the hazard at `ReadPackage.cs:41`); items are different objects; the
PLC answers every part of a package or none; it never grants a larger PDU than it
is asked for, which is the one of the last connection, so `Renegotiate` only makes
it smaller. The user's setter of `PduSize` (`Dacs7Client.cs:80-94`), which a client accepts
only while it is closed and which could make the size larger under a call that has
not noticed, is not modelled. The two looks at the maximum length of a slice (`ProtocolHandler.Read.cs:246` and 248) are
made at one PDU size unless `Renegotiate` comes between `Cut` and what places the slice.

## 3. Runs

| Run | Instance | What it shows |
|---|---|---|
| event_all | 3 waiters, 3 sets, 1 reset | types, `NoLostWakeup`, `QueueSound`, `ReceivedOnce`, `AcceptedIsDelivered`, `ClaimedWaiterReturns`, `ImplementsMailbox` |
| exchange_safety | 2 reads, of 2 packages and of 1, 2 permits, 2 references, a connection that may break | types, `PermitsConserved`, `TableSound`, `OwnAnswer`, `NoCallerStranded`, `LostCallsReturn` (no timers), `KeepsPromise` |
| exchange_lost | a read and a write, 1 permit, a client that is closed and opened | `NoCallerStranded`, `EveryCallReturns` (timers), `KeepsPromise` |
| exchange_rejected | a write | violation of `SuccessMeansAccepted` |
| connection_calls | 2 opens, 1 close, no reconnect | `SingleReader`, `HandshakeInOrder`, `CallsReturn` |
| connection_reconnect | 2 opens, 1 close, 1 reconnect, 3 sockets | types, `ClosedStaysClosed` |
| connection_stale | the same | violation of `ConnectedMeansSetUp` |
| alarms_updates | 2 subscriptions, 1 permit, 1 alarm, close and break | `NoMissedAlarm`, `LastOneOut`, `CancelledReceiveReturns` |
| alarms_silent | 1 subscription, 2 connections | violation of `WaitingMeansUpdating` |
| packaging_calls | 3 items of 3, 18, 21 or 72 bytes, PDU of 61 or 56 | `PackagesFit`, `RoomForEverySlice`, `EveryByteOnce`, `FirstRefusalStays`, `ReadsComplete`, `CallEnds` |
| receive_pieces | a confirmation of 14 bytes, four messages of 8, of which the third cannot be handled and the fourth is a fragment, and a last fragment of 14 whose payload looks like a header; pieces of 2, 5, 8 or 14; a buffer of 30 | types, `HandedOnInOrder`, `EverythingHandedOn` |
| negotiation_replace | 3 jobs, up to 2 permits, 2 semaphores | types, `PermitsOfEach`, `AgreedJobs`, `JobsReturn` |

Why the bounds are enough. Three waiters and three sets give a claimed, a cancelled and
a queued waiter at a time, with a set to each. Two permits let two packages be under way
at once, and with two references the third one meets a reference that is still in use,
which takes 65535 packages in the code. One permit makes two calls wait for each other;
longer lines (three reads, two permits) were checked once in a longer run, and the
proofs cover all of them. A table of two handlers can grow between the count and the
copy of a cancellation. One connection is enough for the loss of a connection: calls,
`CloseAsync` and the end of the loop all meet on it. A reconnect under running calls
(two epochs) is in the model and the proofs, and was checked for a single call; it is
left out of the runs of the exchange, whose state space it multiplies. Three sockets let
a reconnect and a call each make one after the first; one reconnect is enough for two
dialers past the test of `_shutdown`, with a call as the other. Two subscriptions let
one enable while the other is disposed of as the last; `LastOneOut` is about one permit,
with two it does not hold (section 6). Two semaphores of two permits and three jobs let
each semaphore have a holder or a line while it is replaced by a smaller or a larger
one; what a third one adds, the proofs cover. A header has 7 bytes, of which 6 are
looked at: pieces of 2, 5, 8 and 14 bytes end after the prefix, before the type, at the
end of a message and of the confirmation, and together at most places in between; a
buffer of 30 bytes runs full within the six frames. The types are small numbers (8, 9,
10), so that the length of a frame passes for one, as that of a frame of 240 bytes does
in the code, and the loop can go astray. A read of a PDU of 61 bytes is cut at 43, a
write at 33: 72 bytes make two or three parts, the last of which shares a package with
the items of 3, 18 and 21 bytes, of which two or three fill a package to the last byte,
odd lengths included; 56 is met in the middle of an item. The sizes were chosen so that
each slip of section 5 is noticed.

Deadlock is not checked where the system may stop: callers of events need not
come (event_all), the bound on sockets stops reconnects (connection_stale), all
subscriptions may be disposed of (alarm runs), a call ends (packaging_calls), the
stream ends (receive_pieces). Everywhere else deadlock is checked; where all calls
have returned, `Finished` stutters.

Symmetry is used in connection_reconnect only (of the calls of `OpenAsync`), which has no
temporal property.

Two properties of `connection_calls`, `SingleReader` and `HandshakeInOrder`, hold
for calls alone, which exclude each other by `_connectSema`. A reconnect that
meets an `OpenAsync` breaks both: a loop then reads the other's socket.

## 4. Fairness

Weak fairness on the steps of a thread that is under way: a task of the .NET
scheduler that can run does. Nothing is assumed of the PLC and the network; they
may be silent for ever. Timers are assumed where a property says so:
`EveryCallReturns` is `TimersFire => ...`, `LostCallsReturn` holds without. For the
connection, the end of the system's connect and the timeout of the waiting
`OpenAsync` count as steps of their thread. In `AlarmUpdates` a permit is free
infinitely often while somebody wants it, so weak fairness is enough.

In `Packaging` the caller's thread goes on, and an exchange ends because `WaitAsync`
has a timeout. `Renegotiate` is not fair. In `ReceiveBuffer` the loop goes on while it
has bytes to process; that more bytes come is not assumed. In `Negotiation` the
steps of a job are fair, as its wait for the answer has a timeout; the user and the
connection are not.

## 5. Slips and who notices

| Slip | In place of | Noticed by |
|---|---|---|
| `ResetValueToEmpty` | `ResetValue` | `TypeOK` |
| `SetIgnoringQueue` | `Set` | `NoLostWakeup` |
| `TakeSignalKeepingIt` | `TakeSignal` | `ReceivedOnce` |
| `CancelInQueue` | `Cancel` | `QueueSound` |
| `CancelClaimed` | `Cancel` | `AcceptedIsDelivered` |
| `SetOverwriting` | `Set` | `ImplementsMailbox` |
| `FinishCancelSilently` | `FinishCancel` | `ClaimedWaiterReturns` |
| `NextReferenceWithZero` | `NextReference` | `TypeOK` |
| `NextReferenceStuck` | `NextReference` | `OwnAnswer` |
| `RegisterReplacing` | `Register` | `TableSound` |
| `LeaveKeepingPermit` | `Leave` | `PermitsConserved` |
| `TimeOutUnlessClosed` | `TimeOut` | `EveryCallReturns` |
| `TimeOutRetrying` | `TimeOut` | `KeepsPromise` |
| `CancelReadsSkipped` | `CancelReads` | `NoCallerStranded`, `LostCallsReturn` |
| `LoopEndsUnlessClosed` | `LoopEnds` | `NoCallerStranded` |
| `SocketClosedPublishing` | `SocketClosed` | `SingleReader` |
| `ReceiveConfirmAlways` | `ReceiveConfirm` | `HandshakeInOrder` |
| `DialFailedHolding` | `DialFailed` | `CallsReturn` |
| `AfterDialOfCall` | `AfterDial` | `TypeOK` |
| `StartDialAfterShutdown` | `StartDial` | `ClosedStaysClosed` |
| `WokenWithAlarms` | `Woken` | `TypeOK` |
| `ResetThenWait` | `Wait` | `NoMissedAlarm` |
| `DisposeAskingFirst` | `Dispose` | `LastOneOut` |
| `EnableFailsHolding` | `EnableFails` | `CancelledReceiveReturns` |
| `CheckKeepingIndex` | `Check` | `TypeOK` |
| `CanAddToTheByte` | `CanAdd` | `PackagesFit` |
| `ItemMaxLengthOfPackage` | `ItemMaxLength` | `RoomForEverySlice` |
| `FullWhenOver` | `Full` | `EveryByteOnce` |
| `WriteResultOfLast` | `WriteResult` | `FirstRefusalStays` |
| `ReadResultOfPart` | `ReadResult` | `ReadsComplete` |
| `CutInPlace` | `Cut` | `CallEnds` |
| `KeepRestSwapped` | `KeepRest` | `TypeOK` |
| `CompleteTooSoon` | `Complete` | `HandedOnInOrder` |
| `KeepRestUnread` | `KeepRest` | `EverythingHandedOn` |
| `FetchTested` | `Fetch` | `TypeOK` |
| `LeaveTwice` | `Leave` | `PermitsOfEach` |
| `ReplacesLarger` | `Replaces` | `AgreedJobs` |
| `LeaveToCount` | `Leave` | `JobsReturn` |

## 6. Findings

1. **A rejected write counts as a success** (exchange_rejected, `ProtocolHandler.Write.cs:193`).
   The exception stored for an error in the header is only looked at when the data
   is null, which it never is.
2. **`OpenAsync` believes an old acknowledgement** (connection_stale, `ProtocolHandler.cs:105`).
   Nobody resets `_connectEvent`. The acknowledgement of a reconnect, or one that
   comes after the timeout of an `OpenAsync`, is what the next `OpenAsync` returns on.
3. **A receiver waits for alarms nobody asked for** (alarms_silent, `ProtocolHandler.Alarms.cs:342`).
   An update request that could not be sent leaves the handler with its id, and so
   does the disabling at the end of a connection: after the reconnect
   `EnableAlarmUpdatesAsync` takes the updates for enabled.

Behaviours of the models that no document of the repository contradicts, or that
the runs above do not need a property for:

- The callback of a token is registered (`AsyncAutoResetEvent.cs:73`) before the caller is
  in the queue (l.93). A token cancelled in between runs it at once, it finds nobody,
  and the caller is queued until somebody calls `Set` (`EnqueueMissingCancel`). A
  timeout is such a token.
- The handlers to cancel are taken with `ToList()` (`ProtocolHandler.Write.cs:32`,
  `ProtocolHandler.Read.cs:26`), which counts the table and then copies it. A call that
  registers in between makes the copy throw; the exception is logged, no handler of
  that table is cancelled, and its calls wait for their timeout (`PassedOver`).
- `InternalOpenAsync` tests `_shutdown` at `ClientSocket.cs:91` and makes the socket at l.98,
  after an await. A `CloseAsync` that runs in between finds nothing to close, and the
  reconnect connects a client that has been shut down. Two dialers that are both past
  the test make a socket each, of which the first is never disposed of; and a
  disposal that ends (l.195-196) forgets a socket that was made while it awaited. So
  `ClosedStaysClosed` leaves out overlapping disposals (`crossed`).
- `DisposeSocketAsync` throws when the receiving task was cancelled before it began
  (l.193), and leaves socket, source and task in their fields. Each later disposal
  throws at once (l.171), so that every later open and close of this client fails and
  no reconnect is started.
- A loop that ends looks at `_disableReconnect` (l.276) before it publishes its end
  (l.277). An `OpenAsync` that was signalled before switches the reconnect on in between
  and returns as connected: nobody reconnects. So that the reconnect goes on is not a
  property.
- `IsConnected` is cleared by the receive loop, which `CloseAsync` does not wait for;
  an `OpenAsync` before that returns at `ProtocolHandler.cs:80` and does nothing. The
  delay of a millisecond that should prevent it (l.152) does not bound the loop.
- An acknowledgement with an error in its header has no items: the items of that
  package keep what they had, Success for a write (finding 1) and nothing for a
  read, for which `DataValue` then throws (`Finish`).
- The loop of a connection that ends at once may publish its end before the
  connection is published (`ClientSocket.cs:118-119`). `IsConnected` then stays true
  with no loop to clear it, and `OpenAsync` does nothing from then on.
- `PendingOpenTransport` is set after the connection request has been sent
  (`TcpTransport.cs:165`). A confirmation that is handled before is ignored, and an
  end of the connection that is published before is overwritten; `OpenAsync` times
  out in both cases.
- A `Set` that comes after its datagram was taken wakes the next call of
  `ReceiveAlarmUpdatesAsync`, which returns without alarms.
- Each part of a large item that is read overwrites the return code of the item
  (`ProtocolHandler.Read.cs:173`), so the last one decides and a gap can count as a
  success. A write keeps the first failure (`ProtocolHandler.Write.cs:168`). So
  `ReadsComplete` is stated for reads whose parts all succeeded.
- With two permits and two connections, a `Disabled` that comes late
  (`ProtocolHandler.Alarms.cs:403`) takes away the handler of an enabling that came
  after it. The disposal of the last subscription then finds nothing to disable
  (l.260-262) and the PLC goes on sending. So `LastOneOut` is stated for one permit.
- When the rest of a split frame arrives and completes it exactly, the offsets stay
  as they are (`ClientSocket.cs:232-246`): the bytes that were kept are presented
  again in front of the next ones. If they are a header, or the begin of one which the
  next bytes complete, the next frame is damaged, lost, or kept until the buffer is
  full (`astray`). Two bytes are enough: after 03 00, the header of a frame of 240
  bytes is read as 03 00 03 00 00 F0, its length as the type of a data datagram.
- A confirmation that comes in two pieces throws at the first and again at the
  second, or is read too early; one that comes with another frame behind it takes
  that frame's bytes for parameters. At a parameter code it does not know, the loop of
  `ConnectionConfirmedDatagram.cs:138-179` stays where it is and never ends
  (`ConnectionEndless`).
- A message whose handling throws takes the bytes behind it in the same turn with
  it (`TcpTransport.cs:138`, `HandOnThrows`): they are presented no more. So the
  properties of `ReceiveBuffer` speak of the frames before the first such message.
- The offsets go back to zero only when nothing is left to present. When they never
  do, the buffer fills, `ReceiveAsync` has room for nothing and returns 0, and the
  loop ends as if the peer had closed (`BufferFull`).
- The last fragment of a message keeps its payload nowhere, so that joining the
  fragments throws (`DataTransferDatagram.cs:160`) and leaves the earlier ones in
  `FrameBuffer`, which later messages and later connections find (`ApplyFragments`).
- A user who sets `MaxAmQCalling` between two connections to what the PLC then grants
  keeps the semaphore of the old number (`ProtocolHandler.cs:341`): `userSet` in `AgreedJobs`.
- A job in the line of a semaphore that is replaced or disposed of waits for ever
  (`Stranded` in `JobsReturn`); nothing cancels that wait.
- A job that reads the field between `Dispose` and its second look gets null, and
  `SemaphoreGuard.Async` throws (`Fetch`). A `Dispose` that meets an acknowledgement may
  forget the new semaphore without disposing of it.

## 7. Proofs

TLAPS checks these for all values of the constants under the ASSUME of each
module (`EventAssumption`, `ExchangeAssumption`, `ConnectionAssumption`,
`AlarmAssumption`: disjoint sets, at least one permit and two references;
`NegotiationAssumption`: finitely many jobs, at least one permit to ask for;
`BufferAssumption`: frames that have a header with
their length in it, and any byte values besides; the four assumptions of `Packaging`: a
number of items, lengths, PDU sizes above the 28 bytes that a slice subtracts, and
Success among the codes).

| Theorem | Says |
|---|---|
| `EventTypes`, `QueueIsSound`, `ClaimsAreDisjoint` | types; `QueueSound`; `ClaimsDisjoint` |
| `WakeupsAreKept`, `ValuesReachOneCaller`, `AcceptedValuesArrive` | `NoLostWakeup`; `ReceivedOnce`; `AcceptedIsDelivered` |
| `EventImplementsMailbox` | the event, `Reset` included, refines `EventMailbox` |
| `ExchangeTypes`, `PermitsAreConserved` | types; `PermitsConserved` |
| `TablesAreSound` | the tables hold exactly the packages under way |
| `AnswersReachTheirCall` | `OwnAnswer` |
| `NobodyIsStranded` | `NoCallerStranded` |
| `ExchangeKeepsPromise` | reads and writes refine `CallPromise` (`KeepsPromise`) |
| `ConnectionTypes`, `ClosedClientsStayClosed` | types; `ClosedStaysClosed` |
| `CallsHaveOneReader`, `CallsFollowTheHandshake` | without reconnects: `SingleReader`; `HandshakeInOrder` |
| `NegotiationTypes`, `PermitsOfEachKept`, `JobsAsAgreed` | types; `PermitsOfEach`; `AgreedJobs` |
| `AlarmTypes`, `NoAlarmIsMissed`, `LastOneDisables` | types; `NoMissedAlarm`; `LastOneOut` |
| `ReceiveBufferTypes`, `MessagesInOrder`, `TurnsEnd` | types; `HandedOnInOrder`; `TurnEnds` |
| `PackagingTypes`, `PackagesAlwaysFit`, `SlicesFindRoom` | types; `PackagesFit`; `RoomForEverySlice` |
| `BytesTravelOnce` | `EveryByteOnce` |
| `RefusalsAreReported`, `ReadsAreWhole` | `FirstRefusalStays`; `ReadsComplete` |
| `WorkRunsOut`, `EnumerationGoesOn` | `WorkShrinks`, on natural numbers; `AlwaysNext` |

`ClaimsDisjoint`, `TurnEnds`, `WorkShrinks` and `AlwaysNext` are proved and in no run.

Inductive invariants and why they are needed:

- `EventInv` adds `Untouched` to the checked invariants: who has not waited yet has no
  cancel callback, who has not returned has no result. The refinement maps a
  claimed waiter to its outcome at the moment it leaves the queue, hence the CHOOSE
  in `Outcome`; that the choice is unique is `ClaimsDisjoint`.
- `SemaphoreInv` adds `LineSound` to `PermitsConserved`: the line has exactly who waits,
  without repeats, and only while no permit is left. The work is in what `Append` and
  `Tail` do to it, and in the cardinality of the holders.
- `TableInv` adds `TableSound` to it. `AnswerInv` adds, while references have not come
  round, that references in use differ and grow, that a request on the wire names at
  most the package that is at it, and that event, call and receive loop hold the
  call's own answer.
- `PromiseInv` puts `PermitsConserved` and the invariants of the answers together for
  the refinement and adds `Fresh`: a package begins without a result, and a call has
  no outcome while it is under way. Most steps show nothing (`OthersShowNothing`) or
  one call (`OneShows`). That `Send` finds room among the packages that are with the
  PLC needs the permits (`RoomToAsk`): who is at it holds one. That the answer that is
  taken is the call's own needs `AnswerInv` (`AnswerKeepsPromise`).
- `ClosingInv` of `JobExchange_answers` follows a sent request from its connection to the
  event: its event is set, or the cancellation of that connection still has it on
  its list, or is still to copy its table, or the copy has failed.
- `ClosingInv` of `Connection_proofs` says that until two disposals meet (`crossed`) only one
  party awaits the receiving task, that no socket is open meanwhile, nor while a
  cancelled source is left in its field, and that whoever is about to make a socket
  is not overtaken by a shutdown (`DisposalsAlone`).
- For calls alone, `OneAtATime` keeps them apart, and `Alone` adds that one loop runs
  (`OneLoop`), that a socket has one request or answer under way (`OneRequest`), and
  that a setup is sent by the loop that runs, on a confirmed transport
  (`SetupFollows`).
- `IInv` of `Negotiation_proofs` is the types, `PermitsOfEach` and `SizeAgreed`: the
  semaphore in the field was made with the number in the context unless the user
  has changed that since.
- `LastInv` is for one permit: `OneHolder` (one request at a time), `FreshClosers` (each
  end of a connection disables once), `Asked` (the PLC sends only what the handler's
  id says), and `SomebodyDisables`: while the PLC sends and no subscription is left,
  somebody is on the way to disable.
- `IInv` of `ReceiveBuffer_proofs` says of what is presented, as long as the loop is not
  astray and nothing has ended its promise (`Done`): it is a stretch of bytes left
  over from earlier frames, none of which will pass for a header, followed by the
  stream from the begin of the next frame on (`Ahead`), so that the loop steps over
  the former and recognises the latter (`Recognised`).
- `AlarmInv` adds `Announced`: from the look at the queue to the wake-up a datagram is in
  the queue only if its `Set` is still to come or has left its mark.
- `IInv` of `Packaging_proofs` adds `Sound`: of an open package, that a write's size is
  its wire length rounded up, and that a read's is above what the request and the
  answer take without fill bytes. A read does not count fill bytes; that it is
  safe follows because `TryAdd` asks for room for the whole package in what is left
  of it (`ReadRoom`), which is more than needed. `LengthOK` says that what is placed was
  short enough at the PDU size the call began with. `RefusalsAreReported` has
  `CodesOfWrites` on top, the same fact in the middle of a call.
- For `BytesTravelOnce`, `BytesOK` follows each byte: it waits with its item, is in
  hand, in the slice in hand, in an open package, in the package that is sent, or in
  the log, in one of these places and at one position there. At the end only the log
  is left. `ProgressOK` says why no slice is dropped by the way `currentPackage` is
  handed on: none is cut while a package is current, as a slice of the longest
  length fills its package. `ReadsAreWhole` adds `FilledSoFar`, the bytes of the
  log are those in the array, in the middle of a call.

- The types of `ReceiveBuffer` are inductive as they stand, damaged headers included: no
  step takes more than what is presented, and `KeepRest` moves the offsets by what
  was received. `TurnsEnd` says that no data header keeps the loop in a turn: a look
  at it takes at least one byte or ends the turn. The exception is what passes for a
  connection datagram, whose parameters may be read for ever; what the reading of
  parameters yields (`Parameters`, a recursive function) is not proved. It is the safety
  half of `EverythingHandedOn`.
- `WorkRunsOut` is the safety half of `CallEnds`. `ToDo` counts, in this order, items not
  taken, bytes of the item in hand not cut, slices not placed, open packages, and
  the phase of the loop; each step of `Pack` or `Exchange` makes it lexicographically
  smaller, `Renegotiate` keeps it, and `ProgressOK` makes its parts natural numbers. As
  that order is well-founded, a call takes finitely many steps, and by `AlwaysNext`
  (one of the actions fits whatever item or slice comes next) it does not stand
  still before its end. What remains is that its steps are taken, which is fairness.

Only model-checked: liveness (`EveryCallReturns`, `LostCallsReturn`, `CallsReturn`,
`CancelledReceiveReturns`, `CallEnds`, `EverythingHandedOn`, `JobsReturn`,
`ClaimedWaiterReturns`). It needs fairness and ENABLED, which are out of this
prover's reach.

## 8. What is not modelled, and the plan

Not modelled: bytes, but for the headers `ReceiveBuffer` looks for. Datagrams and
converters keep no state. The
command line tool, the tests and the documentation are not part of the library;
the JavaScript in `src/docfx` and `src/docs` is the template of Microsoft's docfx and
the site it has built, third-party code the library never runs.

Next, in this order:

1. **Packaging, the rest**: elements of several bytes, which the code counts as one.
2. **Sending side of the frames**: `Build` cuts a message into fragments and sends the
   first of them only (`TcpTransport.cs:59`).
3. **Registered tags**: the compare-and-swap loop against an atomic registry.
4. **Server**: the list of handlers under connections that end while it is walked
   over; data areas under release; its use of `UpdateJobsSemaphore`.
5. **Block information and pending alarms**: the other handler tables and answers in
   several parts; the cancellation that leaves one table out.
6. **Composition**: `Connection` in place of the reduced connection of `JobExchange`, so that
   calls meet overlapping reconnects, and `Negotiation` in place of its permits.

Theorems planned with them: that a registry's result is that of some order of
the registrations; that `JobExchange` stays within the bounds `Negotiation` keeps when
both are composed.
