-------------------------- MODULE MCReceiveBuffer --------------------------
(* A connection confirmation of 14 bytes, two messages of 8, one that      *)
(* cannot be handled, and a message in fragments of 8 and 14 bytes, the    *)
(* payload of which looks like a header with too short a length.  The      *)
(* types are small, so that the length of a frame may be taken for one, as *)
(* that of a frame of 240 bytes may in the code.                           *)
EXTENDS ReceiveBuffer
MCBegin == <<1, 15, 23, 31, 39, 47, 61>>
MCBytes ==
  << 3, 0, 0, 14, 2, 9, 0, 0, 0, 0, 0, 192, 1, 3,
     3, 0, 0, 8, 2, 8, 128, 3,
     3, 0, 0, 8, 2, 8, 128, 3,
     3, 0, 0, 8, 2, 8, 128, 3,
     3, 0, 0, 8, 2, 8, 0, 3,
     3, 0, 0, 14, 2, 8, 128, 3, 0, 0, 5, 2, 8, 128 >>
MCByte == [b \in 0..60 |-> IF b = 0 THEN 0 ELSE MCBytes[b]]
=============================================================================
