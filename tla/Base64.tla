------------------------------- MODULE Base64 -------------------------------
(* The two Base64 codecs: base64_encode and base64_decode of the server
   (base64.cc), websocket_base64_encode and _decode of the client
   (websocket-client.cc). A text is a sequence of positions in the alphabet,
   which both files spell out alike, and of Pad, the character '='.           *)
EXTENDS Naturals, Sequences

Pad == 64

(* The four characters of three bytes. *)
Quad(a, b, c) == <<a \div 4, (a % 4) * 16 + (b \div 16), (b % 16) * 4 + (c \div 64), c % 64>>

RECURSIVE Encode(_)
(* base64_encode: whole groups, then one filled up with zeros of which i + 1
   characters are kept.                                                      *)
Encode(s) ==
  IF Len(s) >= 3 THEN Quad(s[1], s[2], s[3]) \o Encode(SubSeq(s, 4, Len(s)))
  ELSE IF s = <<>> THEN <<>>
  ELSE LET filled == s \o <<0, 0>>
       IN  SubSeq(Quad(filled[1], filled[2], filled[3]), 1, Len(s) + 1) \o [i \in 1..3 - Len(s) |-> Pad]

(* The three bytes of four characters, each kept to eight bits. *)
Triple(t) == <<(t[1] * 4 + ((t[2] % 64) \div 16)) % 256,
               ((t[2] % 16) * 16 + ((t[3] % 64) \div 4)) % 256,
               ((t[3] % 4) * 64 + t[4]) % 256>>

RECURSIVE Decode(_)
(* base64_decode: up to the first '='. The characters missing in the last group
   are looked up as 0, which is not found: npos, 255 in a byte.                 *)
Decode(t) ==
  IF Len(t) >= 4 /\ \A i \in 1..4 : t[i] # Pad
  THEN Triple(t) \o Decode(SubSeq(t, 5, Len(t)))
  ELSE LET kept == SelectSeq(t, LAMBDA x : x # Pad)
       IN  IF kept = <<>> THEN <<>>
           ELSE SubSeq(Triple(kept \o <<255, 255, 255>>), 1, Len(kept) - 1)

-----------------------------------------------------------------------------
RECURSIVE ClientEncode(_)
(* websocket_base64_encode: the loop breaks in the group that is not full. *)
ClientEncode(s) ==
  IF s = <<>> THEN <<>>
  ELSE LET c1  == s[1] \div 4
           top == (s[1] % 4) * 16
       IN  IF Len(s) = 1 THEN <<c1, top, Pad, Pad>>
           ELSE LET mid == (s[2] % 16) * 4
                    c2  == top + (s[2] \div 16)
                IN  IF Len(s) = 2 THEN <<c1, c2, mid, Pad>>
                    ELSE <<c1, c2, mid + (s[3] \div 64), s[3] % 64>> \o ClientEncode(SubSeq(s, 4, Len(s)))

RECURSIVE ClientDecode(_)
(* websocket_base64_decode: a character that is not found leaves 0xFF. *)
ClientDecode(t) ==
  IF t = <<>> THEN <<>>
  ELSE LET temp == [i \in 1..4 |-> IF t[i] = Pad THEN 255 ELSE t[i]]
           b1   == (temp[1] % 64) * 4 + ((temp[2] \div 16) % 4)
           b2   == (temp[2] % 16) * 16 + ((temp[3] \div 4) % 16)
           b3   == (temp[3] % 4) * 64 + (temp[4] % 64)
       IN  IF t[3] = Pad THEN <<b1>>
           ELSE IF t[4] = Pad THEN <<b1, b2>>
           ELSE <<b1, b2, b3>> \o ClientDecode(SubSeq(t, 5, Len(t)))
=============================================================================
