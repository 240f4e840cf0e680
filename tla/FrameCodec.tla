----------------------------- MODULE FrameCodec -----------------------------
(***************************************************************************)
(* The frame heads both sides of a connection write and read, byte by      *)
(* byte: webSocket_enPackage and webSocket_dePackage of the client         *)
(* (websocket-client.cc), sendResult and readAndParsePacket of the server  *)
(* (websocket-data.cc).  Each of the four draws the borders between the    *)
(* three forms of a length by itself.                                      *)
(***************************************************************************)
EXTENDS Integers, Sequences

CONSTANTS Base,   \* values of a byte: 256
          L7      \* lengths below it fit the second byte: 126

ASSUME CodecAssumption ==
  /\ Base \in Nat \ {0, 1}
  /\ L7 \in 1 .. Base * Base - 2

Base2 == Base * Base
Base3 == Base * Base2
Base4 == Base * Base3

MaskBit == L7 + 2          \* 0x80, above the codes L7 and L7 + 1
FinText == MaskBit + 1     \* 0x81

Byte(n, unit) == (n \div unit) % Base

\* webSocket_enPackage: the head without the masking key.  A length of all
\* ones has no form and leaves the field empty.
EnHead(n, masked) ==
  LET m == IF masked THEN MaskBit ELSE 0 IN
  IF n < L7 THEN <<FinText, m + n>>
  ELSE IF n < Base2
  THEN <<FinText, m + L7, Byte(n, Base), Byte(n, 1)>>
  ELSE IF n < Base4 - 1
  THEN <<FinText, m + L7 + 1, 0, 0, 0, 0,
         Byte(n, Base3), Byte(n, Base2), Byte(n, Base), Byte(n, 1)>>
  ELSE <<FinText, m>>

\* Fault: the two bytes of the length in the order of a little-endian machine.
SendResultHeadSwapped(n) ==
  IF n < L7 THEN <<FinText, n>>
  ELSE IF n < Base2 - 1
  THEN <<FinText, L7, Byte(n, 1), Byte(n, Base)>>
  ELSE <<FinText, L7 + 1, 0, 0, 0, 0,
         Byte(n, Base3), Byte(n, Base2), Byte(n, Base), Byte(n, 1)>>

\* WebSocketData::sendResult, which never masks.
SendResultHead(n) ==
  IF n < L7 THEN <<FinText, n>>
  ELSE IF n < Base2 - 1
  THEN <<FinText, L7, Byte(n, Base), Byte(n, 1)>>
  ELSE <<FinText, L7 + 1, 0, 0, 0, 0,
         Byte(n, Base3), Byte(n, Base2), Byte(n, Base), Byte(n, 1)>>

\* What dePackage knows of a frame: nothing, or the lengths of head and payload.
NoHead == [head |-> 0, len |-> 0]

\* webSocket_dePackage on what has been received, which starts with a frame of
\* this protocol and may end anywhere: retHeadLen and retLen.
DeHead(buf) ==
  LET code == buf[2] % MaskBit
      key  == IF buf[2] >= MaskBit THEN 4 ELSE 0 IN
  IF Len(buf) < 2 THEN NoHead
  ELSE IF code = L7
  THEN IF Len(buf) < 4 THEN NoHead
       ELSE [head |-> 4 + key, len |-> buf[3] * Base + buf[4]]
  ELSE IF code = L7 + 1
  THEN IF Len(buf) < 10 \/ \E i \in 3 .. 6 : buf[i] # 0 THEN NoHead
       ELSE [head |-> 10 + key,
             len |-> buf[7] * Base3 + buf[8] * Base2 + buf[9] * Base + buf[10]]
  ELSE [head |-> 2 + key, len |-> code]

\* readAndParsePacket of the server on a whole head, the key included: the size
\* of the payload.
ServerBodySize(h) ==
  LET code == h[2] % MaskBit IN
  IF code = L7 THEN h[3] * Base + h[4]
  ELSE IF code = L7 + 1
  THEN h[7] * Base3 + h[8] * Base2 + h[9] * Base + h[10]
  ELSE code
=============================================================================
