---------------------------- MODULE ReceiveBuffer ----------------------------
(***************************************************************************)
(* The receive loop of a socket as a parser: StartReceive cuts the bytes   *)
(* that arrive into the frames that the peer has sent, whatever pieces TCP *)
(* delivers them in, and DataTransferDatagram joins the frames of a        *)
(* message.  A cell of the buffer holds the number of its byte in the      *)
(* stream, so that stale bytes can be told from others; what the code      *)
(* compares is the value of that byte.                                     *)
(***************************************************************************)
EXTENDS Integers, Sequences, Functions

CONSTANTS
  Frames,           \* number of frames the peer sends
  Begin,            \* Begin[f]: the number of the first byte of frame f
  Byte,             \* the values of the bytes; Byte[0] stands for no byte
  DataType,         \* 0xf0, the type of a data frame
  ConnectionTypes,  \* 0xd0 and 0xe0, those of a connection datagram
  Readable,         \* the frames whose message is handled without a throw
  BufferSize,       \* ReceiveBufferSize
  Pieces            \* the numbers of bytes that a ReceiveAsync may bring

DataHeaderSize == 7
MinimumBufferSize == 6
ConnectionHeader == 11           \* before the parameters
ParameterCodes == {192, 193, 194}  \* 0xc0, 0xc1, 0xc2
EndOfTransmition == 128

FrameNumbers == 1..Frames
Length(f) == Begin[f + 1] - Begin[f]
Total == Begin[Frames + 1] - 1

(* The bytes pass for the prefix and the type of a datagram.               *)
IsHeader(a, b, type) ==
  Byte[a] = 3 /\ Byte[b] = 0 /\ Byte[type] \in ConnectionTypes \union {DataType}

ASSUME BufferAssumption ==
  /\ Frames \in Nat /\ BufferSize \in Nat \ {0}
  /\ Begin \in [1..(Frames + 1) -> Nat] /\ Begin[1] = 1
  /\ \A f, g \in 1..(Frames + 1) : f < g => Begin[f] < Begin[g]
  /\ Byte \in [0..Total -> 0..255] /\ DataType \notin ConnectionTypes
  /\ \A f \in FrameNumbers :
       /\ Length(f) >= DataHeaderSize
       /\ IsHeader(Begin[f], Begin[f] + 1, Begin[f] + 5)
       /\ 256 * Byte[Begin[f] + 2] + Byte[Begin[f] + 3] = Length(f)
  /\ Readable \subseteq FrameNumbers /\ Pieces \subseteq Nat \ {0}

VARIABLES
  taken,          \* how many bytes of the stream have been received
  buffer,         \* receiveBuffer: the byte in each cell, 0 for none
  receiveOffset,  \* the cell the next bytes are received into
  bufferOffset,   \* the cell of the first byte that is kept
  received,       \* how many bytes the last ReceiveAsync has brought
  processed,      \* how many bytes of this turn are processed
  pc,             \* the loop: "receive", "process", "ended" or "endless"
  frameBuffer,    \* whether FrameBuffer has entries
  handed,         \* history: the frames handed on, 0 for a damaged one
  astray          \* history: the loop has lost the frames, see Advance

offsets == <<receiveOffset, bufferOffset>>
turn == <<taken, buffer, received>>
vars == <<turn, offsets, processed, pc, frameBuffer, handed, astray>>

Cells == 0..(BufferSize - 1)

Init ==
  /\ taken = 0
  /\ buffer = [i \in Cells |-> 0]
  /\ receiveOffset = 0 /\ bufferOffset = 0
  /\ received = 0 /\ processed = 0
  /\ pc = "receive"
  /\ frameBuffer = FALSE
  /\ handed = <<>>
  /\ astray = FALSE

-----------------------------------------------------------------------------
(* The slice of the buffer that is presented to ProcessData.               *)

kept == receiveOffset - bufferOffset
toProcess == received + kept
off == bufferOffset + processed
length == toProcess - processed
Value(k) == Byte[buffer[off + k]]

Detected == /\ length > MinimumBufferSize
            /\ IsHeader(buffer[off], buffer[off + 1], buffer[off + 5])
IsData == Detected /\ Value(5) = DataType
IsConnection == Detected /\ Value(5) # DataType

(* The length that stands in the header.                                   *)
Told == 256 * Value(2) + Value(3)

(* Slip: off by one.                                                       *)
CompleteTooSoon == Told <= length + 1

(* TranslateFromMemory has all of the bytes that it was told of.           *)
Complete == Told <= length

Last == Value(6) = EndOfTransmition

(* The slice begins with frame f.                                          *)
Intact(f) == \A k \in 0..(Length(f) - 1) : buffer[off + k] = Begin[f] + k

(* A connection datagram is read to the end of the slice, whatever length  *)
(* its header tells: parameter after parameter, a code, a length and so    *)
(* many bytes.  With an unknown code the loop does not move.               *)
Parameters ==
  LET from[k \in ConnectionHeader..length] ==
        CASE k = length -> "read"
          [] k < length /\ Value(k) \notin ParameterCodes -> "endless"
          [] OTHER -> IF k + 1 < length /\ k + 2 + Value(k + 1) <= length
                        THEN from[k + 2 + Value(k + 1)] ELSE "throws"
  IN  IF length < ConnectionHeader THEN "throws" ELSE from[ConnectionHeader]

(* The k-th byte of those that are kept and the rest of the stream.        *)
Coming(k) == IF k < kept THEN buffer[bufferOffset + k] ELSE taken + 1 + (k - kept)

(* One of the kept bytes will pass for the begin of a header.              *)
KeptPasses ==
  \E i \in 0..(kept - 1) :
    Coming(i + 5) <= Total /\ IsHeader(Coming(i), Coming(i + 1), Coming(i + 5))

(* After n bytes the loop goes on, or receives: only the branch without    *)
(* progress changes the offsets, so that what was kept is kept for good.   *)
(* The loop is astray once kept bytes pass for a header, and once it has   *)
(* read a connection datagram that is not whole and alone in the slice.    *)
Advance(n, whole) ==
  /\ processed' = processed + n
  /\ pc' = IF processed + n < toProcess THEN "process" ELSE "receive"
  /\ astray' = (astray \/ ~whole \/ (processed + n = toProcess /\ KeptPasses))

-----------------------------------------------------------------------------
(* One turn of StartReceive.                                               *)

(* ReceiveAsync brings some of the bytes that are under way.               *)
Receive ==
  /\ pc = "receive" /\ receiveOffset < BufferSize
  /\ \E n \in Pieces :
       /\ receiveOffset + n <= BufferSize /\ taken + n <= Total
       /\ taken' = taken + n
       /\ received' = n
       /\ buffer' = [i \in Cells |->
                       IF i \in receiveOffset..(receiveOffset + n - 1)
                         THEN taken + 1 + (i - receiveOffset) ELSE buffer[i]]
  /\ processed' = 0
  /\ pc' = "process"
  /\ UNCHANGED <<offsets, frameBuffer, handed, astray>>

(* No room is left: ReceiveAsync brings nothing, and the loop ends.        *)
BufferFull ==
  /\ pc = "receive" /\ receiveOffset = BufferSize
  /\ pc' = "ended"
  /\ UNCHANGED <<turn, offsets, processed, frameBuffer, handed, astray>>

(* An unknown datagram: one byte on.                                       *)
MoveForward ==
  /\ pc = "process" /\ length > MinimumBufferSize /\ ~Detected
  /\ Advance(1, TRUE)
  /\ UNCHANGED <<turn, offsets, frameBuffer, handed>>

(* Slip: the two offsets are set in the other order.                       *)
KeepRestSwapped ==
  /\ pc = "process"
  /\ length <= MinimumBufferSize \/ (IsData /\ ~Complete)
  /\ bufferOffset' = receiveOffset - length
  /\ receiveOffset' = receiveOffset + received
  /\ pc' = "receive"
  /\ UNCHANGED <<turn, processed, frameBuffer, handed, astray>>

(* Slip: the next bytes are presented without those that are kept.         *)
KeepRestUnread ==
  /\ pc = "process"
  /\ length <= MinimumBufferSize \/ (IsData /\ ~Complete)
  /\ receiveOffset' = receiveOffset + received
  /\ bufferOffset' = receiveOffset'
  /\ pc' = "receive"
  /\ UNCHANGED <<turn, processed, frameBuffer, handed, astray>>

(* Too short, or not all of the frame: the rest is kept.                   *)
KeepRest ==
  /\ pc = "process"
  /\ length <= MinimumBufferSize \/ (IsData /\ ~Complete)
  /\ receiveOffset' = receiveOffset + received
  /\ bufferOffset' = receiveOffset' - length
  /\ pc' = "receive"
  /\ UNCHANGED <<turn, processed, frameBuffer, handed, astray>>

(* What throws leaves the offsets, and drops the rest of the turn.         *)
Drop == pc' = "receive" /\ UNCHANGED <<turn, offsets, processed, frameBuffer, handed>>

(* A length that leaves no room for the header: Slice throws.              *)
TooShort ==
  /\ pc = "process" /\ IsData /\ Told < DataHeaderSize /\ Complete
  /\ Drop /\ UNCHANGED astray

(* A message in one frame is handed on.                                    *)
HandOn ==
  /\ pc = "process" /\ IsData /\ Told >= DataHeaderSize /\ Complete
  /\ Last /\ ~frameBuffer
  /\ \/ \E f \in Readable : Intact(f) /\ handed' = Append(handed, f)
     \/ (\A f \in FrameNumbers : ~Intact(f)) /\ handed' = Append(handed, 0)
  /\ Advance(Told, TRUE)
  /\ UNCHANGED <<turn, offsets, frameBuffer>>

(* The handling of the message throws; a damaged one may be unreadable.    *)
HandOnThrows ==
  /\ pc = "process" /\ IsData /\ Told >= DataHeaderSize /\ Complete
  /\ Last /\ ~frameBuffer
  /\ \A f \in Readable : ~Intact(f)
  /\ Drop /\ UNCHANGED astray

(* A fragment is copied.                                                   *)
AddFragment ==
  /\ pc = "process" /\ IsData /\ Told >= DataHeaderSize /\ Complete /\ ~Last
  /\ frameBuffer' = (frameBuffer \/ Told > DataHeaderSize)
  /\ Advance(Told, TRUE)
  /\ UNCHANGED <<turn, offsets, handed>>

(* The last fragment has no memory of its own: ApplyPayloadFromFrameBuffer *)
(* throws, and what it has added stays in FrameBuffer.                     *)
ApplyFragments ==
  /\ pc = "process" /\ IsData /\ Told >= DataHeaderSize /\ Complete
  /\ Last /\ frameBuffer
  /\ Drop /\ UNCHANGED astray

(* The frame of the connection datagram that is all of the slice.          *)
Alone(f) == Length(f) = length /\ Intact(f)

(* A connection datagram takes all of the slice.                           *)
TakeConnection ==
  /\ pc = "process" /\ IsConnection /\ Parameters = "read"
  /\ \/ \E f \in FrameNumbers : Alone(f) /\ handed' = Append(handed, f)
     \/ (\A f \in FrameNumbers : ~Alone(f)) /\ handed' = Append(handed, 0)
  /\ Advance(length, \E f \in FrameNumbers : Alone(f))
  /\ UNCHANGED <<turn, offsets, frameBuffer>>

(* Its parameters are cut off, or its handling throws.                     *)
ConnectionThrows ==
  /\ pc = "process" /\ IsConnection /\ Parameters # "endless"
  /\ Drop /\ astray' = TRUE

(* An unknown parameter: the loop over the parameters does not end.        *)
ConnectionEndless ==
  /\ pc = "process" /\ IsConnection /\ Parameters = "endless"
  /\ pc' = "endless" /\ astray' = TRUE
  /\ UNCHANGED <<turn, offsets, processed, frameBuffer, handed>>

Process ==
  \/ MoveForward \/ KeepRest \/ TooShort
  \/ HandOn \/ HandOnThrows \/ AddFragment \/ ApplyFragments
  \/ TakeConnection \/ ConnectionThrows \/ ConnectionEndless

Next == Receive \/ BufferFull \/ Process

Spec == Init /\ [][Next]_vars

(* The loop does not stop while there are bytes to process.                *)
FairSpec == Spec /\ WF_vars(Process)

-----------------------------------------------------------------------------
(* The variables keep their types, and what is kept and what is received   *)
(* lies within the buffer: the slice of StartReceive is one.               *)
TypeOK ==
  /\ taken \in 0..Total
  /\ buffer \in [Cells -> 0..Total]
  /\ receiveOffset \in 0..BufferSize /\ bufferOffset \in 0..receiveOffset
  /\ received \in 0..BufferSize /\ processed \in Nat
  /\ pc \in {"receive", "process", "ended", "endless"}
  /\ pc = "process" => /\ receiveOffset + received <= BufferSize
                       /\ processed < toProcess
  /\ frameBuffer \in BOOLEAN /\ astray \in BOOLEAN
  /\ handed \in Seq(0..Frames)

(* The frames before the first fragment and the first message that cannot  *)
(* be handled, and those of them that have arrived.                        *)
IsFragment(f) == /\ Byte[Begin[f] + 5] = DataType
                 /\ Byte[Begin[f] + 6] # EndOfTransmition
Whole == {f \in FrameNumbers : \A g \in 1..f : g \in Readable /\ ~IsFragment(g)}
Arrived == {f \in Whole : Begin[f + 1] - 1 <= taken}

(* What is handed on begins with these frames, each once, whole and in     *)
(* order, whatever the pieces they came in and the bytes of the payloads,  *)
(* and while the loop receives none is missing that has arrived; as long   *)
(* as no kept byte passes for a header and a connection datagram is read   *)
(* whole and alone.                                                        *)
HandedOnInOrder ==
  astray \/ /\ \A i \in Whole : i <= Len(handed) => handed[i] = i
            /\ pc # "process" => \A f \in Arrived : f <= Len(handed)

(* A look at the bytes that are presented is the last one of its turn, or  *)
(* leaves fewer of them, damaged ones included.  Only what passes for a    *)
(* connection datagram can keep the loop for ever.                         *)
TurnEnds ==
  [][pc = "process" =>
       \/ pc' = "receive"
       \/ pc' = "process" /\ toProcess' = toProcess /\ processed < processed'
       \/ pc' = "endless" /\ Value(5) \in ConnectionTypes]_vars

(* When the last byte has arrived, all of these frames are handed on in    *)
(* the end: no byte is waited for that does not come, and none of them     *)
(* stays behind in the buffer.                                             *)
EverythingHandedOn == taken = Total ~> (astray \/ \A f \in Whole : f <= Len(handed))
=============================================================================
