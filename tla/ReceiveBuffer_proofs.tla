------------------------ MODULE ReceiveBuffer_proofs ------------------------
(***************************************************************************)
(* For any stream of frames, any values of their payloads, any buffer size *)
(* and any pieces: the types of the receive loop, that its turns end but   *)
(* for one case, and HandedOnInOrder.  The offsets keep their types        *)
(* whatever stands in the buffer, as a header that is damaged may tell any *)
(* length, but one that is not all there is kept.  The invariant behind    *)
(* the order of the frames says where the next one begins: after the kept  *)
(* bytes of earlier frames, none of which passes for a header.  From the   *)
(* first frame on that cannot be handed on nothing is claimed any more.    *)
(***************************************************************************)
EXTENDS ReceiveBuffer, TLAPS

USE DEF DataHeaderSize, MinimumBufferSize, ConnectionHeader, EndOfTransmition

(* The stretch of cells that is still of interest, and the byte that       *)
(* stands in a cell now or will when the next bytes of the stream follow.  *)
First == IF pc = "process" THEN bufferOffset + processed ELSE bufferOffset
End == IF pc = "process" THEN receiveOffset + received ELSE receiveOffset
Seen(c) == IF c < End THEN buffer[c] ELSE taken + 1 + (c - End)

(* After j stale cells come the last bytes of the stream, and the first of *)
(* them begins the next frame.                                             *)
NextFrameAfter(j) ==
  /\ First + j <= End
  /\ taken - (End - (First + j)) = Begin[Len(handed) + 1] - 1
  /\ \A i \in (First + j)..(End - 1) : buffer[i] = taken - (End - 1 - i)

(* None of the stale cells passes for the begin of a header.               *)
Harmless(j) ==
  \A i \in 0..(j - 1) :
    Seen(First + i + 5) <= Total =>
      ~IsHeader(Seen(First + i), Seen(First + i + 1), Seen(First + i + 5))

Ahead == \E j \in Nat : NextFrameAfter(j) /\ Harmless(j)

InOrder ==
  /\ Len(handed) <= Frames
  /\ \A i \in 1..Len(handed) : handed[i] = i

(* While the loop receives, the next frame is not all there.               *)
Awaited ==
  Len(handed) = Frames \/ taken < Begin[Len(handed) + 2] - 1

InStep ==
  \/ pc = "process" /\ Ahead
  \/ pc = "receive" /\ Awaited /\ Ahead
  \/ pc = "ended" /\ Awaited

(* All of the frames that the properties speak of are handed on.           *)
Done == \A i \in Whole : i <= Len(handed) /\ handed[i] = i

IInv ==
  /\ TypeOK
  /\ \/ astray = TRUE
     \/ Done
     \/ InOrder /\ frameBuffer = FALSE /\ astray = FALSE /\ InStep

-----------------------------------------------------------------------------
(* The types.                                                              *)

LEMMA Numbers ==
  /\ Frames \in Nat /\ BufferSize \in Nat /\ BufferSize > 0
  /\ Total \in Nat
  /\ \A f \in FrameNumbers : /\ f \in Nat /\ Length(f) \in Nat /\ Length(f) >= 7
                             /\ Begin[f] \in Nat /\ Begin[f + 1] \in Nat
                             /\ Begin[f + 1] = Begin[f] + Length(f)
                             /\ Begin[f + 1] - 1 \in 0..Total
<1>1. Frames \in Nat /\ Begin[1] = 1 /\ Begin[Frames + 1] \in Nat
      /\ \A f \in 1..(Frames + 1) : Begin[f] \in Nat /\ Begin[f] <= Begin[Frames + 1]
  <2>1. Frames \in Nat /\ Begin[1] = 1 /\ Frames + 1 \in 1..(Frames + 1)
    BY BufferAssumption
  <2>2. \A f \in 1..(Frames + 1) : Begin[f] \in Nat
    BY BufferAssumption
  <2>3. ASSUME NEW f \in 1..(Frames + 1) PROVE Begin[f] <= Begin[Frames + 1]
    <3>1. CASE f = Frames + 1
      BY <3>1, <2>1, <2>2
    <3>2. CASE f # Frames + 1
      <4>1. f < Frames + 1
        BY <3>2, <2>1
      <4> QED BY <4>1, <2>1, <2>2, BufferAssumption
    <3> QED BY <3>1, <3>2
  <2> QED BY <2>1, <2>2, <2>3
<1>2. Total \in Nat
  <2>1. 1 \in 1..(Frames + 1)
    BY <1>1
  <2> QED BY <2>1, <1>1 DEF Total
<1>3. ASSUME NEW f \in FrameNumbers
      PROVE  /\ f \in Nat /\ Length(f) \in Nat /\ Length(f) >= 7
             /\ Begin[f] \in Nat /\ Begin[f + 1] \in Nat
             /\ Begin[f + 1] = Begin[f] + Length(f)
             /\ Begin[f + 1] - 1 \in 0..Total
  <2>1. f \in 1..(Frames + 1) /\ f + 1 \in 1..(Frames + 1)
    BY <1>1 DEF FrameNumbers
  <2>2. Length(f) >= 7
    BY BufferAssumption
  <2>3. Length(f) = Begin[f + 1] - Begin[f]
    BY DEF Length
  <2>4. Begin[f] \in Nat /\ Begin[f + 1] \in Nat /\ Begin[f + 1] <= Begin[Frames + 1]
    BY <2>1, <1>1
  <2>5. Total = Begin[Frames + 1] - 1
    BY DEF Total
  <2> QED BY <2>1, <2>2, <2>3, <2>4, <2>5, <1>1
<1> QED BY <1>1, <1>2, <1>3, BufferAssumption

LEMMA Slice ==
  ASSUME TypeOK, pc = "process"
  PROVE  /\ receiveOffset \in Nat /\ bufferOffset \in Nat /\ received \in Nat
         /\ processed \in Nat /\ receiveOffset + received <= BufferSize
         /\ receiveOffset <= BufferSize /\ bufferOffset <= receiveOffset
         /\ kept = receiveOffset - bufferOffset /\ kept \in Nat
         /\ toProcess = received + (receiveOffset - bufferOffset) /\ toProcess \in Nat
         /\ length = toProcess - processed /\ length \in Nat /\ length > 0
         /\ off = bufferOffset + processed /\ off \in Nat
         /\ off + length = receiveOffset + received
<1>1. /\ receiveOffset \in 0..BufferSize /\ bufferOffset \in 0..receiveOffset
      /\ received \in 0..BufferSize /\ processed \in Nat
      /\ receiveOffset + received <= BufferSize /\ processed < toProcess
      /\ BufferSize \in Nat
  BY Numbers DEF TypeOK
<1>2. /\ kept = receiveOffset - bufferOffset /\ toProcess = received + kept
      /\ length = toProcess - processed /\ off = bufferOffset + processed
  BY DEF kept, toProcess, length, off
<1> QED BY <1>1, <1>2

(* The bytes of the slice have values.                                     *)
LEMMA Values ==
  ASSUME TypeOK, pc = "process", NEW k \in 0..(length - 1)
  PROVE  /\ off + k \in Cells /\ buffer[off + k] \in 0..Total
         /\ Value(k) \in 0..255 /\ Value(k) = Byte[buffer[off + k]]
<1>1. off + k \in Cells
  BY Slice, Numbers DEF Cells
<1>2. buffer[off + k] \in 0..Total
  BY <1>1 DEF TypeOK
<1>3. Byte[buffer[off + k]] \in 0..255
  BY <1>2, BufferAssumption
<1> QED BY <1>1, <1>2, <1>3 DEF Value

(* The length that is told is some number.                                 *)
LEMMA ToldNumber ==
  ASSUME TypeOK, pc = "process", IsData
  PROVE  Told \in Nat /\ length > 6
<1>1. length > 6
  BY DEF IsData, Detected
<1>2. 2 \in 0..(length - 1) /\ 3 \in 0..(length - 1)
  BY <1>1, Slice
<1>3. Value(2) \in Nat /\ Value(3) \in Nat
  BY <1>2, Values
<1>4. 256 * Value(2) + Value(3) \in Nat
  BY <1>3
<1> QED BY <1>1, <1>4 DEF Told

(* What every step that counts n bytes as processed has in common.         *)
LEMMA AdvanceTypes ==
  ASSUME TypeOK, pc = "process", NEW n \in Nat, n > 0, NEW w \in BOOLEAN, Advance(n, w),
         UNCHANGED <<turn, offsets>>,
         frameBuffer' \in BOOLEAN, handed' \in Seq(0..Frames)
  PROVE  /\ TypeOK'
         /\ processed < processed' /\ toProcess' = toProcess
<1>1. /\ taken' = taken /\ buffer' = buffer /\ received' = received
      /\ receiveOffset' = receiveOffset /\ bufferOffset' = bufferOffset
  BY DEF turn, offsets
<1>2. /\ processed' = processed + n
      /\ pc' = IF processed + n < toProcess THEN "process" ELSE "receive"
      /\ astray' \in BOOLEAN
  BY DEF Advance
<1>3. toProcess' = toProcess
  BY <1>1 DEF toProcess, kept
<1>4. processed \in Nat /\ processed' \in Nat /\ processed < processed'
  <2>1. processed \in Nat /\ processed' = processed + n
    BY <1>2 DEF TypeOK
  <2> QED BY <2>1
<1>5. pc' \in {"receive", "process", "ended"}
  BY <1>2
<1>6. pc' = "process" => processed' < toProcess'
  BY <1>2, <1>3
<1>7. Cells' = Cells
  BY DEF Cells
<1> QED BY <1>1, <1>3, <1>4, <1>5, <1>6, <1>7, <1>2 DEF TypeOK

LEMMA ReceiveTypes ==
  ASSUME TypeOK, Receive
  PROVE  TypeOK'
<1>1. PICK n \in Pieces :
        /\ receiveOffset + n <= BufferSize /\ taken + n <= Total
        /\ taken' = taken + n /\ received' = n
        /\ buffer' = [i \in Cells |->
                       IF i \in receiveOffset..(receiveOffset + n - 1)
                         THEN taken + 1 + (i - receiveOffset) ELSE buffer[i]]
  BY DEF Receive
<1>2. /\ n \in Nat /\ n > 0 /\ taken \in Nat /\ Total \in Nat /\ BufferSize \in Nat
      /\ receiveOffset \in Nat /\ bufferOffset \in Nat /\ bufferOffset <= receiveOffset
  BY BufferAssumption, Numbers DEF TypeOK
<1>3. /\ pc' = "process" /\ processed' = 0
      /\ receiveOffset' = receiveOffset /\ bufferOffset' = bufferOffset
      /\ frameBuffer' = frameBuffer /\ handed' = handed /\ astray' = astray
  BY DEF Receive, offsets
<1>4. buffer' \in [Cells -> 0..Total]
  <2> SUFFICES ASSUME NEW i \in Cells PROVE buffer'[i] \in 0..Total
    BY <1>1
  <2>1. CASE i \in receiveOffset..(receiveOffset + n - 1)
    <3>1. buffer'[i] = taken + 1 + (i - receiveOffset)
      BY <2>1, <1>1
    <3> QED BY <3>1, <2>1, <1>1, <1>2
  <2>2. CASE i \notin receiveOffset..(receiveOffset + n - 1)
    BY <2>2, <1>1 DEF TypeOK
  <2> QED BY <2>1, <2>2
<1>5. taken' \in 0..Total /\ received' \in 0..BufferSize
  BY <1>1, <1>2
<1>6. receiveOffset' + received' <= BufferSize /\ processed' < toProcess'
  BY <1>1, <1>2, <1>3 DEF toProcess, kept
<1>7. Cells' = Cells
  BY DEF Cells
<1>8. receiveOffset \in 0..BufferSize /\ bufferOffset \in 0..receiveOffset
      /\ frameBuffer \in BOOLEAN /\ astray \in BOOLEAN /\ handed \in Seq(0..Frames)
  BY DEF TypeOK
<1> QED BY <1>3, <1>4, <1>5, <1>6, <1>7, <1>8 DEF TypeOK

LEMMA KeepRestTypes ==
  ASSUME TypeOK, KeepRest
  PROVE  /\ TypeOK'
         /\ bufferOffset' = bufferOffset + processed
<1>1. /\ pc = "process" /\ pc' = "receive"
      /\ receiveOffset' = receiveOffset + received
      /\ bufferOffset' = receiveOffset' - length
      /\ taken' = taken /\ buffer' = buffer /\ received' = received
      /\ processed' = processed /\ frameBuffer' = frameBuffer
      /\ handed' = handed /\ astray' = astray
  BY DEF KeepRest, turn
<1>2. bufferOffset' = bufferOffset + processed
  BY <1>1, Slice
<1>3. receiveOffset' \in 0..BufferSize /\ bufferOffset' \in 0..receiveOffset'
  BY <1>1, Slice, Numbers
<1>4. Cells' = Cells
  BY DEF Cells
<1> QED BY <1>1, <1>2, <1>3, <1>4 DEF TypeOK

LEMMA HandOnTypes ==
  ASSUME TypeOK, HandOn
  PROVE  TypeOK' /\ processed < processed' /\ toProcess' = toProcess
<1>1. /\ pc = "process" /\ IsData /\ Told >= 7 /\ Advance(Told, TRUE)
      /\ UNCHANGED <<turn, offsets>> /\ frameBuffer' = frameBuffer
      /\ \/ \E f \in Readable : handed' = Append(handed, f)
         \/ handed' = Append(handed, 0)
  BY DEF HandOn
<1>2. Told \in Nat /\ Told > 0
  BY <1>1, ToldNumber
<1>3. handed' \in Seq(0..Frames)
  <2>1. handed \in Seq(0..Frames) /\ 0 \in 0..Frames /\ Readable \subseteq 0..Frames
    BY Numbers, BufferAssumption DEF TypeOK, FrameNumbers
  <2>2. \E x \in 0..Frames : handed' = Append(handed, x)
    BY <1>1, <2>1
  <2> QED BY <2>1, <2>2
<1>4. frameBuffer' \in BOOLEAN
  BY <1>1 DEF TypeOK
<1> QED BY <1>1, <1>2, <1>3, <1>4, AdvanceTypes

LEMMA AddFragmentTypes ==
  ASSUME TypeOK, AddFragment
  PROVE  TypeOK' /\ processed < processed' /\ toProcess' = toProcess
<1>1. /\ pc = "process" /\ IsData /\ Told >= 7 /\ Advance(Told, TRUE)
      /\ UNCHANGED <<turn, offsets, handed>> /\ frameBuffer' \in BOOLEAN
  BY DEF AddFragment, TypeOK
<1>2. Told \in Nat /\ Told > 0
  BY <1>1, ToldNumber
<1>3. handed' \in Seq(0..Frames)
  BY <1>1 DEF TypeOK
<1> QED BY <1>1, <1>2, <1>3, AdvanceTypes

LEMMA MoveForwardTypes ==
  ASSUME TypeOK, MoveForward
  PROVE  TypeOK' /\ processed < processed' /\ toProcess' = toProcess
<1>1. /\ pc = "process" /\ Advance(1, TRUE) /\ UNCHANGED <<turn, offsets>>
      /\ frameBuffer' \in BOOLEAN /\ handed' \in Seq(0..Frames)
  BY DEF MoveForward, TypeOK
<1>2. 1 \in Nat /\ 1 > 0
  OBVIOUS
<1> QED BY <1>1, <1>2, AdvanceTypes

LEMMA TakeConnectionTypes ==
  ASSUME TypeOK, TakeConnection
  PROVE  TypeOK' /\ processed < processed' /\ toProcess' = toProcess
<1>1. /\ pc = "process" /\ Advance(length, \E f \in FrameNumbers : Alone(f))
      /\ UNCHANGED <<turn, offsets>> /\ frameBuffer' = frameBuffer
      /\ \/ \E f \in FrameNumbers : handed' = Append(handed, f)
         \/ handed' = Append(handed, 0)
  BY DEF TakeConnection
<1>2. length \in Nat /\ length > 0
  BY <1>1, Slice
<1>3. handed' \in Seq(0..Frames)
  <2>1. handed \in Seq(0..Frames) /\ 0 \in 0..Frames /\ FrameNumbers \subseteq 0..Frames
    BY Numbers DEF TypeOK, FrameNumbers
  <2>2. \E x \in 0..Frames : handed' = Append(handed, x)
    BY <1>1, <2>1
  <2> QED BY <2>1, <2>2
<1>4. frameBuffer' \in BOOLEAN /\ (\E f \in FrameNumbers : Alone(f)) \in BOOLEAN
  BY <1>1 DEF TypeOK
<1> QED BY <1>1, <1>2, <1>3, <1>4, AdvanceTypes

(* What throws, and the end of the loop.                                   *)
LEMMA StandstillTypes ==
  ASSUME TypeOK, pc' \in {"receive", "ended", "endless"}, astray' \in BOOLEAN,
         UNCHANGED <<turn, offsets, processed, frameBuffer, handed>>
  PROVE  TypeOK'
BY DEF TypeOK, turn, offsets, Cells

LEMMA InitTypes == Init => TypeOK
<1> SUFFICES ASSUME Init PROVE TypeOK
  OBVIOUS
<1>1. 0 \in 0..Total /\ 0 \in 0..BufferSize /\ <<>> \in Seq(0..Frames)
  BY Numbers
<1>2. buffer \in [Cells -> 0..Total]
  BY <1>1 DEF Init
<1>3. handed \in Seq(0..Frames)
  BY <1>1 DEF Init
<1>4. /\ taken = 0 /\ receiveOffset = 0 /\ bufferOffset = 0 /\ received = 0
      /\ processed = 0 /\ pc = "receive" /\ frameBuffer = FALSE /\ astray = FALSE
  BY DEF Init
<1>5. bufferOffset \in 0..receiveOffset
  BY <1>4
<1> QED BY <1>1, <1>2, <1>3, <1>4, <1>5 DEF TypeOK

LEMMA NextTypes == TypeOK /\ [Next]_vars => TypeOK'
<1> SUFFICES ASSUME TypeOK, [Next]_vars PROVE TypeOK'
  OBVIOUS
<1>0. astray \in BOOLEAN
  BY DEF TypeOK
<1>1. CASE Receive
  BY <1>1, ReceiveTypes
<1>2. CASE BufferFull
  BY <1>0, <1>2, StandstillTypes DEF BufferFull
<1>3. CASE MoveForward
  BY <1>3, MoveForwardTypes
<1>4. CASE KeepRest
  BY <1>4, KeepRestTypes
<1>5. CASE TooShort \/ HandOnThrows \/ ApplyFragments
  BY <1>0, <1>5, StandstillTypes DEF TooShort, HandOnThrows, ApplyFragments, Drop
<1>6. CASE HandOn
  BY <1>6, HandOnTypes
<1>7. CASE AddFragment
  BY <1>7, AddFragmentTypes
<1>8. CASE TakeConnection
  BY <1>8, TakeConnectionTypes
<1>9. CASE ConnectionThrows \/ ConnectionEndless
  BY <1>9, StandstillTypes DEF ConnectionThrows, ConnectionEndless, Drop
<1>10. CASE UNCHANGED vars
  BY <1>10 DEF vars, turn, offsets, TypeOK, Cells, toProcess, kept
<1> QED
  BY <1>1, <1>2, <1>3, <1>4, <1>5, <1>6, <1>7, <1>8, <1>9, <1>10 DEF Next, Process

(* For any frames, bytes, buffer size and pieces, damaged headers          *)
(* included: the variables keep their types, and the slice that is         *)
(* presented lies within the buffer.                                       *)
THEOREM ReceiveBufferTypes == Spec => []TypeOK
BY InitTypes, NextTypes, PTL DEF Spec

(* For any frames, bytes, buffer size and pieces: each look at the bytes   *)
(* that are presented is the last one of its turn, or leaves fewer of      *)
(* them, or is at a connection datagram.                                   *)
THEOREM TurnsEnd == Spec => TurnEnds
<1>1. ASSUME TypeOK, [Next]_vars
      PROVE  [pc = "process" =>
                \/ pc' = "receive"
                \/ pc' = "process" /\ toProcess' = toProcess /\ processed < processed'
                \/ pc' = "endless" /\ Value(5) \in ConnectionTypes]_vars
  <2>1. CASE MoveForward \/ HandOn \/ AddFragment \/ TakeConnection
    <3>1. processed < processed' /\ toProcess' = toProcess
      BY <2>1, <1>1, MoveForwardTypes, HandOnTypes, AddFragmentTypes, TakeConnectionTypes
    <3>2. pc' \in {"process", "receive"}
      BY <2>1 DEF MoveForward, HandOn, AddFragment, TakeConnection, Advance
    <3> QED BY <3>1, <3>2
  <2>2. CASE Receive \/ BufferFull \/ KeepRest \/ TooShort \/ HandOnThrows
             \/ ApplyFragments \/ ConnectionThrows
    BY <2>2 DEF Receive, BufferFull, KeepRest, TooShort, HandOnThrows, ApplyFragments,
                ConnectionThrows, Drop
  <2>3. CASE ConnectionEndless
    <3>1. pc' = "endless" /\ IsConnection
      BY <2>3 DEF ConnectionEndless
    <3>2. Value(5) \in ConnectionTypes
      BY <3>1 DEF IsConnection, Detected, IsHeader, Value
    <3> QED BY <3>1, <3>2
  <2> QED BY <2>1, <2>2, <2>3, <1>1 DEF Next, Process
<1> QED BY <1>1, ReceiveBufferTypes, PTL DEF Spec, TurnEnds

-----------------------------------------------------------------------------
(* Frames do not overlap, and each has a header.                           *)
LEMMA FramesApart ==
  ASSUME NEW f \in FrameNumbers, NEW g \in 1..(Frames + 1), f < g
  PROVE  Begin[f] \in Nat /\ Begin[g] \in Nat /\ Begin[f] + 7 <= Begin[g]
<1>1. f + 1 \in 1..(Frames + 1) /\ f \in 1..(Frames + 1)
  BY BufferAssumption DEF FrameNumbers
<1>2. Begin[f + 1] \in Nat /\ Begin[f] \in Nat /\ Begin[g] \in Nat
  BY <1>1, BufferAssumption
<1>3. Begin[f + 1] - Begin[f] >= 7
  BY BufferAssumption DEF Length
<1>4. Begin[f + 1] <= Begin[g]
  <2>1. CASE f + 1 = g
    BY <2>1, <1>2
  <2>2. CASE f + 1 < g
    BY <2>2, <1>1, <1>2, BufferAssumption
  <2> QED BY <2>1, <2>2, <1>1, BufferAssumption DEF FrameNumbers
<1> QED BY <1>2, <1>3, <1>4

(* There is a next frame while bytes of it are there.                      *)
LEMMA NextFrame ==
  ASSUME NEW h \in 0..Frames, Begin[h + 1] <= Total
  PROVE  /\ h + 1 \in FrameNumbers
         /\ Begin[h + 1] \in Nat /\ Begin[h + 2] \in Nat
         /\ Length(h + 1) = Begin[h + 2] - Begin[h + 1]
         /\ Length(h + 1) >= 7
<1>1. h # Frames
  <2>1. Begin[Frames + 1] \in Nat
    BY BufferAssumption
  <2> QED BY <2>1, BufferAssumption DEF Total
<1>2. h + 1 \in 1..Frames /\ h + 1 \in 1..(Frames + 1) /\ h + 2 \in 1..(Frames + 1)
      /\ (h + 1) + 1 = h + 2
  BY <1>1, BufferAssumption
<1> QED BY <1>2, BufferAssumption DEF Length, FrameNumbers

(* Stale cells are passed over.                                            *)
LEMMA PassedOver ==
  ASSUME TypeOK, pc = "process", length > MinimumBufferSize,
         NEW j \in Nat, j # 0, Harmless(j)
  PROVE  ~Detected
<1>1. /\ First = off /\ off \in Nat /\ End = off + length /\ length \in Nat /\ length > 6
  BY Slice DEF First, End
<1>2. /\ 0 \in 0..(length - 1) /\ 1 \in 0..(length - 1) /\ 5 \in 0..(length - 1)
  BY <1>1
<1>3. /\ Seen(First + 0) = buffer[off + 0] /\ Seen(First + 0 + 1) = buffer[off + 1]
      /\ Seen(First + 0 + 5) = buffer[off + 5]
  BY <1>1 DEF Seen
<1>4. buffer[off + 5] <= Total
  BY <1>2, Values, Numbers
<1>5. 0 \in 0..(j - 1)
  OBVIOUS
<1>6. ~IsHeader(buffer[off + 0], buffer[off + 1], buffer[off + 5])
  BY <1>3, <1>4, <1>5 DEF Harmless
<1>7. off + 0 = off
  BY <1>1
<1> QED BY <1>6, <1>7 DEF Detected

(* When the next frame begins with the slice, and more than six bytes are  *)
(* left to process, it is recognised.                                      *)
LEMMA Recognised ==
  ASSUME TypeOK, InOrder, pc = "process", length > MinimumBufferSize,
         NextFrameAfter(0)
  PROVE  \E g \in FrameNumbers :
           /\ g = Len(handed) + 1
           /\ Detected /\ Told = Length(g)
           /\ Value(5) = Byte[Begin[g] + 5]
           /\ Last <=> Byte[Begin[g] + 6] = EndOfTransmition
           /\ \A f \in FrameNumbers : Intact(f) => f = g
           /\ length >= Length(g) => Intact(g)
<1>h. PICK h \in Nat : h = Len(handed)
  BY DEF TypeOK
<1>1. h \in 0..Frames /\ taken \in Nat /\ taken <= Total /\ Total \in Int
  BY <1>h, Numbers DEF TypeOK, InOrder
<1>2. /\ off \in Nat /\ First = off /\ End \in Nat
      /\ length = End - off /\ length \in Nat /\ length > 6
  BY Slice DEF First, End
<1>3. /\ taken - (End - (First + 0)) = Begin[h + 1] - 1
      /\ \A i \in (First + 0)..(End - 1) : buffer[i] = taken - (End - 1 - i)
  BY <1>h DEF NextFrameAfter
<1>4. h + 1 \in 1..(Frames + 1) /\ Begin[h + 1] \in Nat
  BY <1>1, BufferAssumption
<1>5. Begin[h + 1] <= Total
  BY <1>1, <1>2, <1>3, <1>4
<1>g. PICK g : g = h + 1
  OBVIOUS
<1>b. PICK b \in Nat : b = Begin[g]
  BY <1>4, <1>g
<1>6. /\ g \in FrameNumbers /\ b = Begin[g] /\ Length(g) \in Nat /\ Length(g) >= 7
  BY NextFrame, <1>1, <1>5, <1>g, <1>b
<1>7. taken - length = b - 1
  BY <1>1, <1>2, <1>3, <1>g, <1>b
<1>8. ASSUME NEW i \in 0..(length - 1) PROVE buffer[off + i] = b + i
  <2>1. i \in Nat /\ off + i \in (First + 0)..(End - 1)
    BY <1>2
  <2>2. buffer[off + i] = taken - (End - 1 - (off + i))
    BY <2>1, <1>3
  <2> QED BY <2>1, <2>2, <1>1, <1>2, <1>7
<1>9. /\ 0 \in 0..(length - 1) /\ 1 \in 0..(length - 1) /\ 2 \in 0..(length - 1)
      /\ 3 \in 0..(length - 1) /\ 5 \in 0..(length - 1) /\ 6 \in 0..(length - 1)
  BY <1>2
<1>10. /\ buffer[off + 0] = b + 0 /\ buffer[off + 1] = b + 1
       /\ buffer[off + 2] = b + 2 /\ buffer[off + 3] = b + 3
       /\ buffer[off + 5] = b + 5 /\ buffer[off + 6] = b + 6
  BY <1>8, <1>9
<1>11. off + 0 = off /\ b + 0 = b
  BY <1>2
<1>12. Detected
  <2>1. IsHeader(b, b + 1, b + 5)
    BY <1>6, BufferAssumption
  <2> QED BY <2>1, <1>2, <1>10, <1>11 DEF Detected
<1>13. Told = Length(g)
  <2>1. 256 * Byte[b + 2] + Byte[b + 3] = Length(g)
    BY <1>6, BufferAssumption
  <2> QED BY <2>1, <1>10 DEF Told, Value
<1>14. /\ Value(5) = Byte[Begin[g] + 5]
       /\ Last <=> Byte[Begin[g] + 6] = EndOfTransmition
  BY <1>10, <1>6 DEF Value, Last
<1>15. length >= Length(g) => Intact(g)
  BY <1>8, <1>6, <1>2 DEF Intact
<1>16. ASSUME NEW f \in FrameNumbers, Intact(f) PROVE f = g
  <2>1. 0 \in 0..(Length(f) - 1)
    BY Numbers
  <2>2. buffer[off + 0] = Begin[f] + 0
    BY <2>1, <1>16 DEF Intact
  <2>3. Begin[f] = Begin[g] /\ Begin[f] \in Nat
    BY <2>2, <1>10, <1>6, Numbers
  <2>4. /\ f \in Nat /\ g \in Nat /\ f \in 1..(Frames + 1) /\ g \in 1..(Frames + 1)
    BY <1>6, Numbers DEF FrameNumbers
  <2>5. ~(f < g) /\ ~(g < f)
    BY <2>3, <2>4, <1>6, FramesApart
  <2> QED BY <2>4, <2>5
<1> QED BY <1>h, <1>g, <1>6, <1>12, <1>13, <1>14, <1>15, <1>16

(* What is detected in step begins with the slice, and is the next frame.  *)
LEMMA DetectedInStep ==
  ASSUME TypeOK, InOrder, InStep, pc = "process", Detected
  PROVE  /\ NextFrameAfter(0)
         /\ \E g \in FrameNumbers :
              /\ g = Len(handed) + 1
              /\ Told = Length(g)
              /\ Value(5) = Byte[Begin[g] + 5]
              /\ Last <=> Byte[Begin[g] + 6] = EndOfTransmition
              /\ \A f \in FrameNumbers : Intact(f) => f = g
              /\ length >= Length(g) => Intact(g)
<1>1. PICK j \in Nat : NextFrameAfter(j) /\ Harmless(j)
  BY DEF InStep, Ahead
<1>2. length > MinimumBufferSize
  BY DEF Detected
<1>3. j = 0
  BY <1>1, <1>2, PassedOver
<1>4. NextFrameAfter(0)
  BY <1>1, <1>3
<1> QED BY <1>4, <1>2, Recognised

-----------------------------------------------------------------------------
(* From a frame on that cannot be handed on, nothing is claimed.           *)
LEMMA Stopped ==
  ASSUME InOrder, NEW g \in FrameNumbers, g = Len(handed) + 1,
         g \notin Readable \/ IsFragment(g), handed \in Seq(0..Frames)
  PROVE  Done
<1> SUFFICES ASSUME NEW i \in Whole PROVE i <= Len(handed) /\ handed[i] = i
  BY DEF Done
<1>1. i \in 1..Frames /\ g \in 1..Frames /\ Len(handed) \in Nat /\ Frames \in Nat
  BY Numbers DEF Whole, FrameNumbers
<1>2. g \notin 1..i
  BY DEF Whole
<1>3. i \in 1..Len(handed)
  BY <1>1, <1>2
<1> QED BY <1>1, <1>3 DEF InOrder

(* No step takes back what is handed on.                                   *)
LEMMA DoneStays ==
  ASSUME Done, handed \in Seq(0..Frames),
         handed' = handed \/ \E x \in 0..Frames : handed' = Append(handed, x)
  PROVE  Done'
<1>1. Done' <=> \A i \in Whole : i <= Len(handed') /\ handed'[i] = i
  BY DEF Done, Whole, FrameNumbers, IsFragment
<1> SUFFICES ASSUME NEW i \in Whole PROVE i <= Len(handed') /\ handed'[i] = i
  BY <1>1
<1>2. i \in 1..Len(handed) /\ handed[i] = i /\ Len(handed) \in Nat
  <2>1. i <= Len(handed) /\ handed[i] = i /\ Len(handed) \in Nat
    BY DEF Done
  <2>2. i \in FrameNumbers
    BY DEF Whole
  <2>3. i \in Nat /\ i >= 1
    BY <2>2, Numbers DEF FrameNumbers
  <2> QED BY <2>1, <2>3
<1>3. CASE handed' = handed
  BY <1>2, <1>3
<1>4. ASSUME NEW x \in 0..Frames, handed' = Append(handed, x)
      PROVE  i <= Len(handed') /\ handed'[i] = i
  BY <1>2, <1>4
<1> QED BY <1>3, <1>4

-----------------------------------------------------------------------------
LEMMA InitInStep == Init => IInv
<1> SUFFICES ASSUME Init PROVE IInv
  OBVIOUS
<1>1. TypeOK
  BY InitTypes
<1>2. NextFrameAfter(0) /\ Harmless(0)
  <2>1. NextFrameAfter(0)
    BY BufferAssumption DEF Init, NextFrameAfter, First, End
  <2>2. 0..(0 - 1) = {}
    OBVIOUS
  <2> QED BY <2>1, <2>2 DEF Harmless
<1>3. Ahead
  BY <1>2 DEF Ahead
<1>4. Len(handed) = 0 /\ handed = <<>> /\ taken = 0
  BY DEF Init
<1>5. InOrder
  BY <1>4, Numbers DEF InOrder
<1>6. Awaited
  <2>1. CASE Frames = 0
    BY <2>1, <1>4 DEF Awaited
  <2>2. CASE Frames # 0
    <3>1. 1 \in FrameNumbers
      BY <2>2, Numbers DEF FrameNumbers
    <3>2. Begin[1] = 1 /\ Begin[1 + 1] = Begin[1] + Length(1) /\ Length(1) \in Nat /\ Length(1) >= 7
      BY <3>1, Numbers, BufferAssumption
    <3>3. Len(handed) + 2 = 1 + 1
      BY <1>4
    <3> QED BY <3>2, <3>3, <1>4 DEF Awaited
  <2> QED BY <2>1, <2>2
<1> QED BY <1>1, <1>3, <1>5, <1>6 DEF IInv, InStep, Init

(* ReceiveAsync puts the bytes of the stream where they were expected.     *)
LEMMA ReceiveInStep ==
  ASSUME TypeOK, InStep, Receive
  PROVE  InStep'
<1>1. PICK n \in Pieces :
        /\ receiveOffset + n <= BufferSize /\ taken + n <= Total
        /\ taken' = taken + n /\ received' = n
        /\ buffer' = [i \in Cells |->
                       IF i \in receiveOffset..(receiveOffset + n - 1)
                         THEN taken + 1 + (i - receiveOffset) ELSE buffer[i]]
  BY DEF Receive
<1>2. /\ n \in Nat /\ n > 0 /\ taken \in Nat
      /\ receiveOffset \in Nat /\ bufferOffset \in Nat /\ bufferOffset <= receiveOffset
      /\ BufferSize \in Nat /\ Total \in Int
  BY BufferAssumption, Numbers DEF TypeOK
<1>3. /\ pc = "receive" /\ pc' = "process" /\ processed' = 0
      /\ receiveOffset' = receiveOffset /\ bufferOffset' = bufferOffset
      /\ frameBuffer' = frameBuffer /\ handed' = handed /\ astray' = astray
  BY DEF Receive, offsets
<1>4. PICK j \in Nat : NextFrameAfter(j) /\ Harmless(j)
  BY <1>3 DEF InStep, Ahead
<1>5. /\ First = bufferOffset /\ End = receiveOffset
      /\ First' = bufferOffset /\ End' = receiveOffset + n
  BY <1>1, <1>2, <1>3 DEF First, End
<1>6. ASSUME NEW c \in Nat
      PROVE  (IF c < End' THEN buffer'[c] ELSE taken' + 1 + (c - End')) = Seen(c)
  <2>1. CASE c < receiveOffset
    <3>1. c \in Cells /\ c \notin receiveOffset..(receiveOffset + n - 1) /\ c < receiveOffset + n
      BY <2>1, <1>1, <1>2 DEF Cells
    <3> QED BY <2>1, <3>1, <1>1, <1>5 DEF Seen
  <2>2. CASE ~(c < receiveOffset) /\ c < receiveOffset + n
    <3>1. c \in Cells /\ c \in receiveOffset..(receiveOffset + n - 1)
      BY <2>2, <1>1, <1>2 DEF Cells
    <3> QED BY <2>2, <3>1, <1>1, <1>5 DEF Seen
  <2>3. CASE ~(c < receiveOffset + n)
    BY <2>3, <1>1, <1>2, <1>5 DEF Seen
  <2> QED BY <2>1, <2>2, <2>3
<1>7. Harmless(j)'
  <2> SUFFICES ASSUME NEW i \in 0..(j - 1), Seen(First + i + 5)' <= Total
               PROVE  ~IsHeader(Seen(First + i)', Seen(First + i + 1)', Seen(First + i + 5)')
    BY DEF Harmless, IsHeader, Total
  <2>1. First + i \in Nat /\ First + i + 1 \in Nat /\ First + i + 5 \in Nat /\ First' = First
    BY <1>2, <1>5
  <2>2. /\ Seen(First + i)' = Seen(First + i) /\ Seen(First + i + 1)' = Seen(First + i + 1)
        /\ Seen(First + i + 5)' = Seen(First + i + 5)
    BY <2>1, <1>6 DEF Seen
  <2> QED BY <2>2, <1>4 DEF Harmless
<1>8. NextFrameAfter(j)'
  <2>1. /\ bufferOffset + j <= receiveOffset
        /\ taken - (receiveOffset - (bufferOffset + j)) = Begin[Len(handed) + 1] - 1
        /\ \A i \in (bufferOffset + j)..(receiveOffset - 1) :
             buffer[i] = taken - (receiveOffset - 1 - i)
    BY <1>4, <1>5 DEF NextFrameAfter
  <2>2. bufferOffset + j <= receiveOffset + n
    BY <2>1, <1>2
  <2>3. taken' - ((receiveOffset + n) - (bufferOffset + j)) = Begin[Len(handed) + 1] - 1
    BY <2>1, <1>1, <1>2
  <2>4. ASSUME NEW i \in (bufferOffset + j)..((receiveOffset + n) - 1)
        PROVE  buffer'[i] = taken' - ((receiveOffset + n) - 1 - i)
    <3>1. i \in Nat /\ i \in Cells
      BY <1>1, <1>2 DEF Cells
    <3>2. CASE i \in receiveOffset..(receiveOffset + n - 1)
      BY <3>1, <3>2, <1>1, <1>2
    <3>3. CASE i \notin receiveOffset..(receiveOffset + n - 1)
      <4>1. i \in (bufferOffset + j)..(receiveOffset - 1)
        BY <3>1, <3>3, <1>2
      <4> QED BY <4>1, <3>1, <3>3, <2>1, <1>1, <1>2
    <3> QED BY <3>2, <3>3
  <2> QED BY <2>2, <2>3, <2>4, <1>3, <1>5 DEF NextFrameAfter
<1>9. Ahead'
  BY <1>7, <1>8 DEF Ahead
<1> QED BY <1>3, <1>9 DEF InStep

(* What is kept begins where the rest began, and is not all of the next    *)
(* frame.                                                                  *)
LEMMA KeepRestInStep ==
  ASSUME TypeOK, InOrder, InStep, KeepRest
  PROVE  InStep'
<1>1. /\ pc = "process" /\ pc' = "receive"
      /\ length <= 6 \/ (IsData /\ ~(Told <= length))
      /\ receiveOffset' = receiveOffset + received
      /\ taken' = taken /\ buffer' = buffer /\ received' = received
      /\ handed' = handed
  BY DEF KeepRest, turn, Complete
<1>2. First' = First /\ End' = End
  BY <1>1, KeepRestTypes DEF First, End
<1>3. PICK j \in Nat : NextFrameAfter(j) /\ Harmless(j)
  BY <1>1 DEF InStep, Ahead
<1>4. NextFrameAfter(j)' /\ Harmless(j)'
  BY <1>2, <1>3, <1>1 DEF NextFrameAfter, Harmless, Seen, IsHeader, Total
<1>h. PICK h \in Nat : h = Len(handed)
  BY DEF TypeOK
<1>5. /\ First \in Nat /\ End \in Nat /\ End = First + length /\ length \in Nat
      /\ taken \in Nat
  <2>1. First = bufferOffset + processed /\ End = receiveOffset + received
    BY <1>1 DEF First, End
  <2>2. taken \in Nat
    BY Numbers DEF TypeOK
  <2>3. pc = "process"
    BY <1>1
  <2> QED BY <2>1, <2>2, <2>3, Slice
<1>6. First + j <= End /\ taken - (End - (First + j)) = Begin[h + 1] - 1
  BY <1>3, <1>h DEF NextFrameAfter
<1>7. ASSUME h # Frames
      PROVE  taken < Begin[h + 2] - 1
  <2>1. h + 1 \in FrameNumbers /\ (h + 1) + 1 = h + 2
    BY <1>7, <1>h, Numbers DEF InOrder, FrameNumbers
  <2>2. /\ Begin[h + 1] \in Nat /\ Begin[h + 2] = Begin[h + 1] + Length(h + 1)
        /\ Length(h + 1) \in Nat /\ Length(h + 1) >= 7
    BY <2>1, Numbers
  <2>3. length - j < Length(h + 1)
    <3>1. CASE length <= 6
      BY <3>1, <2>2, <1>5
    <3>2. CASE ~(length <= 6)
      <4>1. Detected /\ Told = Length(h + 1)
        BY <3>2, <1>1, <1>h, DetectedInStep DEF IsData
      <4>2. ~(Length(h + 1) <= length)
        BY <4>1, <3>2, <1>1
      <4> QED BY <4>2, <2>2, <1>5
    <3> QED BY <3>1, <3>2
  <2> QED BY <2>2, <2>3, <1>5, <1>6
<1>8. Awaited'
  BY <1>7, <1>h, <1>1 DEF Awaited
<1>9. Ahead'
  BY <1>4 DEF Ahead
<1> QED BY <1>1, <1>8, <1>9 DEF InStep

(* A stale cell is passed over, and the next frame comes one cell earlier. *)
LEMMA MoveForwardInStep ==
  ASSUME TypeOK, InOrder, InStep, MoveForward
  PROVE  InStep'
<1>1. /\ pc = "process" /\ length > 6 /\ ~Detected /\ Advance(1, TRUE)
      /\ received' = received /\ receiveOffset' = receiveOffset /\ bufferOffset' = bufferOffset
      /\ taken' = taken /\ buffer' = buffer /\ handed' = handed
  BY DEF MoveForward, turn, offsets
<1>2. /\ First \in Nat /\ pc' = "process" /\ First' = First + 1 /\ End' = End
  <2>1. processed' = processed + 1
        /\ pc' = IF processed + 1 < toProcess THEN "process" ELSE "receive"
    BY <1>1 DEF Advance
  <2>2. processed + 1 < toProcess /\ bufferOffset \in Nat /\ processed \in Nat
    BY <1>1, Slice
  <2>3. pc' = "process" /\ pc = "process"
    BY <2>1, <2>2, <1>1
  <2>4. /\ First = bufferOffset + processed /\ First' = bufferOffset' + processed'
        /\ End = receiveOffset + received /\ End' = receiveOffset' + received'
    BY <2>3 DEF First, End
  <2> QED BY <2>1, <2>2, <2>3, <2>4, <1>1
<1>3. PICK j \in Nat : NextFrameAfter(j) /\ Harmless(j)
  BY <1>1 DEF InStep, Ahead
<1>4. j # 0
  BY <1>1, <1>3, Recognised
<1>5. PICK m \in Nat : j = m + 1
  <2>1. j - 1 \in Nat /\ j = (j - 1) + 1
    BY <1>4
  <2> QED BY <2>1
<1>6. First' + m = First + j
  BY <1>2, <1>5
<1>7. NextFrameAfter(m)'
  BY <1>1, <1>2, <1>3, <1>6 DEF NextFrameAfter
<1>8. Harmless(m)'
  <2> SUFFICES ASSUME NEW i \in 0..(m - 1), Seen(First + i + 5)' <= Total
               PROVE  ~IsHeader(Seen(First + i)', Seen(First + i + 1)', Seen(First + i + 5)')
    BY DEF Harmless, IsHeader, Total
  <2>1. i \in Nat /\ i + 1 \in 0..(j - 1)
    BY <1>5
  <2>2. /\ First' + i = First + (i + 1) /\ First' + i + 1 = First + (i + 1) + 1
        /\ First' + i + 5 = First + (i + 1) + 5
    BY <1>2, <2>1
  <2>3. /\ Seen(First + i)' = Seen(First + (i + 1))
        /\ Seen(First + i + 1)' = Seen(First + (i + 1) + 1)
        /\ Seen(First + i + 5)' = Seen(First + (i + 1) + 5)
    BY <2>2, <1>1, <1>2 DEF Seen
  <2> QED BY <2>1, <2>3, <1>3 DEF Harmless
<1>9. Ahead'
  BY <1>7, <1>8 DEF Ahead
<1> QED BY <1>2, <1>9 DEF InStep

(* What stays kept after a turn, followed by the rest of the stream.       *)
LEMMA KeptHarmless ==
  ASSUME TypeOK, pc = "process", pc' = "receive", UNCHANGED <<turn, offsets>>,
         ~KeptPasses, NEW j \in Nat, j = kept
  PROVE  Harmless(j)'
<1>1. /\ taken' = taken /\ buffer' = buffer
      /\ receiveOffset' = receiveOffset /\ bufferOffset' = bufferOffset
  BY DEF turn, offsets
<1>2. /\ First' = bufferOffset /\ End' = receiveOffset /\ bufferOffset \in Nat
      /\ receiveOffset \in Nat /\ receiveOffset = bufferOffset + j
  BY <1>1, Slice DEF First, End
<1> SUFFICES ASSUME NEW i \in 0..(j - 1), Seen(First + i + 5)' <= Total
             PROVE  ~IsHeader(Seen(First + i)', Seen(First + i + 1)', Seen(First + i + 5)')
  BY DEF Harmless, IsHeader, Total
<1>3. ASSUME NEW k \in Nat
      PROVE  (IF bufferOffset + k < receiveOffset THEN buffer[bufferOffset + k]
              ELSE taken + 1 + ((bufferOffset + k) - receiveOffset)) = Coming(k)
  BY <1>2 DEF Coming
<1>4. i \in Nat /\ i + 1 \in Nat /\ i + 5 \in Nat
  OBVIOUS
<1>5. /\ bufferOffset + i + 1 = bufferOffset + (i + 1)
      /\ bufferOffset + i + 5 = bufferOffset + (i + 5)
  BY <1>2, <1>4
<1>6. /\ Seen(First + i)' = Coming(i) /\ Seen(First + i + 1)' = Coming(i + 1)
      /\ Seen(First + i + 5)' = Coming(i + 5)
  BY <1>1, <1>2, <1>3, <1>4, <1>5 DEF Seen
<1> QED BY <1>6 DEF KeptPasses

(* The frame that is taken is the next one; after it comes the one after   *)
(* that, or the bytes that stay kept and then the one after that.          *)
LEMMA TakenInStep ==
  ASSUME TypeOK, InOrder, pc = "process", NextFrameAfter(0),
         NEW n \in Nat, NEW h \in Nat, h = Len(handed), h + 1 \in FrameNumbers,
         n = Length(h + 1), n <= length, NEW w \in BOOLEAN, Advance(n, w), astray' = FALSE,
         UNCHANGED <<turn, offsets>>, handed' = Append(handed, h + 1)
  PROVE  InOrder' /\ InStep'
<1>1. /\ taken' = taken /\ buffer' = buffer /\ received' = received
      /\ receiveOffset' = receiveOffset /\ bufferOffset' = bufferOffset
  BY DEF turn, offsets
<1>2. /\ n >= 7 /\ Begin[h + 1] \in Nat /\ Begin[h + 2] = Begin[h + 1] + n
  <2>1. (h + 1) + 1 = h + 2
    OBVIOUS
  <2> QED BY <2>1, Numbers
<1>3. /\ Len(handed') = h + 1 /\ h + 1 <= Frames
      /\ \A i \in 1..Len(handed') : handed'[i] = i
  <2>1. handed \in Seq(0..Frames) /\ h + 1 \in 0..Frames
    BY Numbers DEF TypeOK, FrameNumbers
  <2>2. Len(handed') = h + 1
    BY <2>1
  <2>3. ASSUME NEW i \in 1..(h + 1) PROVE handed'[i] = i
    <3>1. CASE i = h + 1
      BY <3>1, <2>1
    <3>2. CASE i # h + 1
      <4>1. i \in 1..Len(handed)
        BY <3>2
      <4> QED BY <4>1, <2>1 DEF InOrder
    <3> QED BY <3>1, <3>2
  <2> QED BY <2>1, <2>2, <2>3, Numbers
<1>4. InOrder'
  BY <1>3 DEF InOrder
<1>5. /\ processed' = processed + n
      /\ pc' = IF processed + n < toProcess THEN "process" ELSE "receive"
      /\ ~(processed + n = toProcess /\ KeptPasses)
  BY DEF Advance
<1>s. /\ receiveOffset \in Nat /\ bufferOffset \in Nat /\ received \in Nat
      /\ processed \in Nat /\ kept \in Nat /\ receiveOffset = bufferOffset + kept
      /\ toProcess \in Nat /\ length \in Nat /\ toProcess = processed + length
      /\ bufferOffset + processed + length = receiveOffset + received
  <2>1. /\ receiveOffset \in Nat /\ bufferOffset \in Nat /\ received \in Nat
        /\ processed \in Nat /\ toProcess \in Nat /\ length \in Nat
    BY Slice
  <2>2. kept \in Nat /\ kept = receiveOffset - bufferOffset
    BY Slice
  <2>3. /\ toProcess = received + (receiveOffset - bufferOffset)
        /\ length = toProcess - processed
    BY Slice
  <2> QED BY <2>1, <2>2, <2>3
<1>f. First = bufferOffset + processed /\ End = receiveOffset + received
  BY DEF First, End
<1>6. /\ First \in Nat /\ End \in Nat /\ End = First + length
      /\ length \in Nat /\ taken \in Nat
  <2>1. taken \in Nat
    BY Numbers DEF TypeOK
  <2> QED BY <2>1, <1>s, <1>f
<1>7. /\ taken - length = Begin[h + 1] - 1
      /\ \A i \in First..(End - 1) : buffer[i] = taken - (End - 1 - i)
  <2>1. /\ taken - (End - (First + 0)) = Begin[h + 1] - 1
        /\ \A i \in (First + 0)..(End - 1) : buffer[i] = taken - (End - 1 - i)
    BY DEF NextFrameAfter
  <2> QED BY <2>1, <1>6
<1>t. taken = Begin[h + 1] - 1 + length
  BY <1>2, <1>6, <1>7
<1>8. Len(handed') + 1 = h + 2 /\ Len(handed') + 2 = h + 3
  BY <1>3
<1>9. CASE n < length
  <2>1. pc' = "process" /\ processed \in Nat
    BY <1>5, <1>9, <1>s
  <2>2. First' = First + n /\ End' = End
    <3>1. First' = bufferOffset' + processed' /\ End' = receiveOffset' + received'
      BY <2>1 DEF First, End
    <3> QED BY <3>1, <1>1, <1>5, <1>f, <1>s
  <2>3. /\ First' + 0 <= End'
        /\ taken' - (End' - (First' + 0)) = Begin[h + 2] - 1
    <3>1. First' + 0 = First + n /\ End' = First + length /\ taken' = taken
      BY <2>2, <1>1, <1>6
    <3>2. End' - (First' + 0) = length - n /\ First' + 0 <= End'
      BY <3>1, <1>6, <1>9
    <3>3. taken - (length - n) = Begin[h + 2] - 1
      <4>1. PICK b \in Nat : b = Begin[h + 1]
        BY <1>2
      <4>2. Begin[h + 2] = b + n /\ taken = b - 1 + length
        BY <4>1, <1>2, <1>t
      <4>3. taken - (length - n) = b + n - 1
        BY <4>2, <1>6
      <4> QED BY <4>2, <4>3
    <3> QED BY <3>1, <3>2, <3>3
  <2>4. ASSUME NEW i \in (First' + 0)..(End' - 1)
        PROVE  buffer'[i] = taken' - (End' - 1 - i)
    <3>1. i \in First..(End - 1)
      BY <2>2, <1>6
    <3> QED BY <3>1, <2>2, <1>7, <1>1
  <2>5. NextFrameAfter(0)'
    BY <2>3, <2>4, <1>8 DEF NextFrameAfter
  <2>6. Harmless(0)'
    <3>1. 0..(0 - 1) = {}
      OBVIOUS
    <3> QED BY <3>1 DEF Harmless
  <2>7. Ahead'
    BY <2>5, <2>6 DEF Ahead
  <2> QED BY <2>1, <2>7, <1>4 DEF InStep
<1>10. CASE n = length
  <2>1. pc' = "receive" /\ processed + n = toProcess
    BY <1>5, <1>10, <1>s
  <2>2. PICK k \in Nat : k = kept /\ receiveOffset = bufferOffset + k
    BY <1>s
  <2>3. First' = bufferOffset /\ End' = receiveOffset /\ receiveOffset \in Nat
        /\ bufferOffset \in Nat
    BY <2>1, <1>1, <1>s DEF First, End
  <2>4. taken = Begin[h + 2] - 1
    BY <1>10, <1>2, <1>6, <1>t
  <2>5. NextFrameAfter(k)'
    <3>1. First' + k = End' /\ End' \in Nat
      BY <2>2, <2>3
    <3>2. (First' + k)..(End' - 1) = {}
      BY <3>1
    <3>3. taken' - (End' - (First' + k)) = Begin[h + 2] - 1
      BY <3>1, <2>4, <1>1, <1>6
    <3>4. First' + k <= End'
      BY <3>1
    <3>5. \A i \in (First' + k)..(End' - 1) : buffer'[i] = taken' - (End' - 1 - i)
      BY <3>2
    <3> QED BY <3>3, <3>4, <3>5, <1>8 DEF NextFrameAfter
  <2>6. Harmless(k)'
    BY <2>1, <2>2, <1>5, KeptHarmless
  <2>7. Awaited'
    <3>1. CASE h + 1 = Frames
      BY <3>1, <1>3 DEF Awaited
    <3>2. CASE h + 1 # Frames
      <4>1. h + 2 \in FrameNumbers /\ (h + 2) + 1 = h + 3
        BY <3>2, <1>3, Numbers DEF FrameNumbers
      <4>2. /\ Begin[h + 2] \in Nat /\ Begin[h + 3] = Begin[h + 2] + Length(h + 2)
            /\ Length(h + 2) \in Nat /\ Length(h + 2) >= 7
        BY <4>1, Numbers
      <4>3. taken' < Begin[h + 3] - 1
        BY <4>2, <2>4, <1>1
      <4> QED BY <4>3, <1>8 DEF Awaited
    <3> QED BY <3>1, <3>2
  <2>8. Ahead'
    BY <2>5, <2>6 DEF Ahead
  <2> QED BY <2>1, <2>7, <2>8, <1>4 DEF InStep
<1> QED BY <1>6, <1>9, <1>10

LEMMA HandOnInStep ==
  ASSUME TypeOK, InOrder, InStep, HandOn, astray' = FALSE
  PROVE  InOrder' /\ InStep'
<1>1. /\ pc = "process" /\ IsData /\ Detected /\ Told <= length /\ Advance(Told, TRUE)
      /\ UNCHANGED <<turn, offsets>>
      /\ \/ \E f \in Readable : Intact(f) /\ handed' = Append(handed, f)
         \/ \A f \in FrameNumbers : ~Intact(f)
  BY DEF HandOn, IsData, Complete
<1>2. PICK g \in FrameNumbers :
        /\ g = Len(handed) + 1 /\ Told = Length(g)
        /\ \A f \in FrameNumbers : Intact(f) => f = g
        /\ length >= Length(g) => Intact(g)
  BY <1>1, DetectedInStep
<1>3. NextFrameAfter(0)
  BY <1>1, DetectedInStep
<1>4. Told \in Nat /\ length \in Nat
  BY <1>1, ToldNumber, Slice
<1>5. Intact(g)
  BY <1>1, <1>2, <1>4
<1>6. handed' = Append(handed, g)
  BY <1>1, <1>2, <1>5, BufferAssumption
<1>7. PICK h \in Nat : h = Len(handed)
  BY DEF TypeOK
<1>8. g = h + 1
  BY <1>2, <1>7
<1> QED BY <1>1, <1>2, <1>3, <1>4, <1>6, <1>7, <1>8, TakenInStep

LEMMA TakeConnectionInStep ==
  ASSUME TypeOK, InOrder, InStep, TakeConnection, astray' = FALSE
  PROVE  InOrder' /\ InStep'
<1>1. /\ pc = "process" /\ Detected /\ UNCHANGED <<turn, offsets>>
      /\ Advance(length, \E f \in FrameNumbers : Alone(f))
      /\ \/ \E f \in FrameNumbers : Alone(f) /\ handed' = Append(handed, f)
         \/ \A f \in FrameNumbers : ~Alone(f)
  BY DEF TakeConnection, IsConnection
<1>2. PICK g \in FrameNumbers :
        /\ g = Len(handed) + 1
        /\ \A f \in FrameNumbers : Intact(f) => f = g
  BY <1>1, DetectedInStep
<1>3. NextFrameAfter(0)
  BY <1>1, DetectedInStep
<1>4. \E f \in FrameNumbers : Alone(f)
  BY <1>1 DEF Advance
<1>5. Length(g) = length /\ handed' = Append(handed, g)
  BY <1>1, <1>2, <1>4 DEF Alone
<1>6. length \in Nat /\ length <= length
  BY <1>1, Slice
<1>7. PICK h \in Nat : h = Len(handed)
  BY DEF TypeOK
<1>8. g = h + 1
  BY <1>2, <1>7
<1>9. Advance(length, TRUE)
  BY <1>1, <1>4 DEF Advance
<1> QED BY <1>1, <1>2, <1>3, <1>5, <1>6, <1>7, <1>8, <1>9, TakenInStep

(* A fragment that is in step is the next frame.                           *)
LEMMA AddFragmentInStep ==
  ASSUME TypeOK, InOrder, InStep, AddFragment
  PROVE  Done
<1>1. /\ pc = "process" /\ IsData /\ Detected /\ ~Last
  BY DEF AddFragment, IsData
<1>2. PICK g \in FrameNumbers :
        /\ g = Len(handed) + 1 /\ Value(5) = Byte[Begin[g] + 5]
        /\ Last <=> Byte[Begin[g] + 6] = EndOfTransmition
  BY <1>1, DetectedInStep
<1>3. IsFragment(g)
  BY <1>1, <1>2 DEF IsFragment, IsData
<1>4. handed \in Seq(0..Frames)
  BY DEF TypeOK
<1> QED BY <1>2, <1>3, <1>4, Stopped

(* In step nothing is damaged: what throws is a message that cannot be     *)
(* handled.                                                                *)
LEMMA ThrowsInStep ==
  ASSUME TypeOK, InOrder, InStep, TooShort \/ HandOnThrows
  PROVE  Done
<1>1. /\ pc = "process" /\ IsData /\ Detected /\ Told <= length
  BY DEF TooShort, HandOnThrows, IsData, Complete
<1>2. PICK g \in FrameNumbers :
        /\ g = Len(handed) + 1 /\ Told = Length(g)
        /\ length >= Length(g) => Intact(g)
  BY <1>1, DetectedInStep
<1>3. Length(g) \in Nat /\ Length(g) >= 7 /\ length \in Nat
  BY <1>1, Numbers, Slice
<1>4. Intact(g)
  BY <1>1, <1>2, <1>3
<1>5. ~TooShort
  BY <1>2, <1>3 DEF TooShort
<1>6. g \notin Readable
  BY <1>4, <1>5 DEF HandOnThrows
<1>7. handed \in Seq(0..Frames)
  BY DEF TypeOK
<1> QED BY <1>2, <1>6, <1>7, Stopped

(* A step hands on nothing or one frame more.                              *)
LEMMA Appends ==
  ASSUME [Next]_vars
  PROVE  handed' = handed \/ \E x \in 0..Frames : handed' = Append(handed, x)
<1>1. 0 \in 0..Frames /\ Readable \subseteq 0..Frames /\ FrameNumbers \subseteq 0..Frames
  BY Numbers, BufferAssumption DEF FrameNumbers
<1>2. CASE HandOn
  BY <1>1, <1>2 DEF HandOn
<1>3. CASE TakeConnection
  BY <1>1, <1>3 DEF TakeConnection
<1>4. CASE Receive \/ BufferFull \/ MoveForward \/ KeepRest \/ TooShort \/ HandOnThrows
           \/ AddFragment \/ ApplyFragments \/ ConnectionThrows \/ ConnectionEndless
           \/ UNCHANGED vars
  BY <1>4 DEF Receive, BufferFull, MoveForward, KeepRest, TooShort, HandOnThrows, AddFragment,
              ApplyFragments, ConnectionThrows, ConnectionEndless, Drop, vars
<1> QED BY <1>2, <1>3, <1>4 DEF Next, Process

LEMMA NextInStep == IInv /\ [Next]_vars => IInv'
<1> SUFFICES ASSUME IInv, [Next]_vars PROVE IInv'
  OBVIOUS
<1>1. TypeOK /\ TypeOK' /\ handed \in Seq(0..Frames) /\ astray' \in BOOLEAN
  BY NextTypes DEF IInv, TypeOK
<1>2. CASE astray = TRUE
  <2>1. astray' = TRUE
    BY <1>2 DEF Next, Process, Receive, BufferFull, MoveForward, KeepRest, TooShort, HandOn,
                HandOnThrows, AddFragment, ApplyFragments, TakeConnection, ConnectionThrows,
                ConnectionEndless, Advance, vars
  <2> QED BY <2>1, <1>1 DEF IInv
<1>3. CASE Done
  BY <1>1, <1>3, Appends, DoneStays DEF IInv
<1>4. CASE InOrder /\ frameBuffer = FALSE /\ astray = FALSE /\ InStep
  <2>1. CASE Receive
    <3>1. handed' = handed /\ frameBuffer' = FALSE /\ astray' = FALSE
      BY <2>1, <1>4 DEF Receive
    <3>2. InStep'
      BY <2>1, <1>1, <1>4, ReceiveInStep
    <3> QED BY <3>1, <3>2, <1>1, <1>4 DEF IInv, InOrder
  <2>2. CASE BufferFull
    <3>1. /\ pc = "receive" /\ pc' = "ended" /\ taken' = taken
          /\ frameBuffer' = FALSE /\ astray' = FALSE /\ handed' = handed
      BY <2>2, <1>4 DEF BufferFull, turn
    <3> QED BY <3>1, <1>1, <1>4 DEF IInv, InOrder, InStep, Awaited
  <2>3. CASE MoveForward
    <3>1. handed' = handed /\ frameBuffer' = FALSE
      BY <2>3, <1>4 DEF MoveForward
    <3>2. InStep'
      BY <2>3, <1>1, <1>4, MoveForwardInStep
    <3> QED BY <3>1, <3>2, <1>1, <1>4 DEF IInv, InOrder
  <2>4. CASE KeepRest
    <3>1. handed' = handed /\ frameBuffer' = FALSE /\ astray' = FALSE
      BY <2>4, <1>4 DEF KeepRest
    <3>2. InStep'
      BY <2>4, <1>1, <1>4, KeepRestInStep
    <3> QED BY <3>1, <3>2, <1>1, <1>4 DEF IInv, InOrder
  <2>5. CASE HandOn \/ TakeConnection
    <3>1. frameBuffer' = FALSE
      BY <2>5, <1>4 DEF HandOn, TakeConnection
    <3>2. astray' = FALSE => InOrder' /\ InStep'
      BY <2>5, <1>1, <1>4, HandOnInStep, TakeConnectionInStep
    <3> QED BY <3>1, <3>2, <1>1 DEF IInv
  <2>6. CASE AddFragment \/ TooShort \/ HandOnThrows
    <3>1. Done
      BY <2>6, <1>1, <1>4, AddFragmentInStep, ThrowsInStep
    <3> QED BY <3>1, <1>1, Appends, DoneStays DEF IInv
  <2>7. CASE ApplyFragments
    BY <2>7, <1>4 DEF ApplyFragments
  <2>8. CASE ConnectionThrows \/ ConnectionEndless
    BY <2>8, <1>1 DEF ConnectionThrows, ConnectionEndless, IInv
  <2>9. CASE UNCHANGED vars
    <3>1. InStep'
      BY <2>9, <1>4 DEF vars, turn, offsets, InStep, Awaited, Ahead, NextFrameAfter, Harmless,
                        Seen, First, End, IsHeader, Total
    <3> QED BY <3>1, <2>9, <1>1, <1>4 DEF IInv, InOrder, vars
  <2> QED BY <2>1, <2>2, <2>3, <2>4, <2>5, <2>6, <2>7, <2>8, <2>9 DEF Next, Process
<1> QED BY <1>2, <1>3, <1>4 DEF IInv

(* Before the next frame come only frames that are handed on.              *)
LEMMA ArrivedBefore ==
  ASSUME TypeOK, InOrder, Awaited, NEW f \in Arrived
  PROVE  f <= Len(handed)
<1>h. PICK h \in Nat : h = Len(handed)
  BY DEF TypeOK
<1>1. f \in FrameNumbers /\ Begin[f + 1] - 1 <= taken
  BY DEF Arrived, Whole
<1>2. /\ f \in Nat /\ f <= Frames /\ f >= 1 /\ Begin[f + 1] \in Nat
      /\ taken \in Nat /\ h <= Frames /\ Frames \in Nat
  BY <1>1, <1>h, Numbers DEF FrameNumbers, TypeOK, InOrder
<1>3. CASE h = Frames
  BY <1>3, <1>2, <1>h
<1>4. CASE h # Frames
  <2>1. taken < Begin[h + 2] - 1
    BY <1>4, <1>h DEF Awaited
  <2>2. SUFFICES ASSUME h < f PROVE FALSE
    BY <1>2, <1>h
  <2>3. h + 2 \in 1..(Frames + 1) /\ f + 1 \in 1..(Frames + 1) /\ h + 2 <= f + 1
    BY <2>2, <1>2
  <2>4. Begin[h + 2] <= Begin[f + 1] /\ Begin[h + 2] \in Nat
    <3>1. CASE h + 2 = f + 1
      BY <3>1, <1>2
    <3>2. CASE h + 2 < f + 1
      BY <3>2, <2>3, BufferAssumption
    <3> QED BY <3>1, <3>2, <2>3
  <2> QED BY <2>1, <2>4, <1>1, <1>2
<1> QED BY <1>3, <1>4

(* For any stream, buffer size and pieces: what is handed on begins with   *)
(* the frames before the first fragment and the first message that cannot  *)
(* be handled, each once, whole and in order, and while the loop receives  *)
(* none of them is missing that has arrived, unless kept bytes pass for a  *)
(* header or a connection datagram is not read whole and alone.            *)
THEOREM MessagesInOrder == Spec => []HandedOnInOrder
<1>1. IInv => HandedOnInOrder
  <2> SUFFICES ASSUME IInv, astray # TRUE
               PROVE  /\ \A i \in Whole : i <= Len(handed) => handed[i] = i
                      /\ pc # "process" => \A f \in Arrived : f <= Len(handed)
    BY DEF HandedOnInOrder
  <2>1. CASE Done
    BY <2>1 DEF Done, Arrived
  <2>2. CASE InOrder /\ InStep
    <3>1. ASSUME NEW i \in Whole, i <= Len(handed) PROVE handed[i] = i
      <4>1. i \in 1..Frames /\ Frames \in Nat /\ Len(handed) \in Nat
        BY Numbers DEF Whole, FrameNumbers, IInv, TypeOK
      <4>2. i \in 1..Len(handed)
        BY <3>1, <4>1
      <4> QED BY <4>2, <2>2 DEF InOrder
    <3>2. pc # "process" => Awaited
      BY <2>2 DEF InStep
    <3>3. pc # "process" => \A f \in Arrived : f <= Len(handed)
      BY <2>2, <3>2, ArrivedBefore DEF IInv
    <3> QED BY <3>1, <3>3
  <2> QED BY <2>1, <2>2 DEF IInv
<1> QED BY <1>1, InitInStep, NextInStep, PTL DEF Spec
=============================================================================
