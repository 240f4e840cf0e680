------------------------------ MODULE ShakeKey ------------------------------
(* The key of the WebSocket handshake: sendRespond of the server
   (websocket-data.cc), webSocket_buildShakeKey, webSocket_buildRespondShakeKey
   and webSocket_matchShakeKey of the client (websocket-client.cc). The server
   takes the bytes of the digest from memory, the client from a text of
   hexadecimal digits. Keys are texts of Base64.                              *)
EXTENDS Naturals, Sequences, SequencesExt, Base64

SB  == INSTANCE Sha1Block
Sha == INSTANCE Sha1 WITH Base <- 256, Half <- 4, BlockLen <- 64, First <- 128,
                          H0 <- SB!H0, Compress <- SB!ProcessBlock

(* ASCII of the alphabet. *)
Ascii(c) == CASE c < 26 -> 65 + c
              [] c \in 26..51 -> 71 + c
              [] c \in 52..61 -> c - 4
              [] c = 62 -> 43
              [] c = 63 -> 47
              [] c = Pad -> 61
AsciiText(t) == [i \in DOMAIN t |-> Ascii(t[i])]

(* MAGIC_KEY and GUID. *)
Guid == <<50,53,56,69,65,70,65,53,45,69,57,49,52,45,52,55,68,65,45,57,53,67,65,45,
          67,53,65,66,48,68,67,56,53,66,49,49>>

Htonl(w) == SB!Words(Reverse(SB!Bytes(w)))[1]
InMemory(w) == Reverse(SB!Bytes(w))

(* Fault: the words are not put in network order. *)
AcceptKeyHostOrder(key) ==
  LET digest == Sha!Result(Sha!Stream(Sha!Reset, AsciiText(key) \o Guid)).context.h
  IN  Encode(FlattenSeq([i \in 1..5 |-> InMemory(digest[i])]))

(* sendRespond and sendErrorRespond: htonl on every word of the digest, then the
   20 bytes as a little-endian machine keeps them.                              *)
AcceptKey(key) ==
  LET digest == Sha!Result(Sha!Stream(Sha!Reset, AsciiText(key) \o Guid)).context.h
  IN  Encode(FlattenSeq([i \in 1..5 |-> InMemory(Htonl(digest[i]))]))

(* webSocket_buildShakeKey: no byte of the random string is 0. *)
BuildShakeKey(random) == ClientEncode([i \in DOMAIN random |-> IF random[i] = 0 THEN 128 ELSE random[i]])

(* SHA1Reset, SHA1Input and SHA1Result of the client, the same code once more. *)
ClientSha1(bytes) == Sha!Result(Sha!Input(Sha!Reset, bytes))

(* sha1_hash: "%08X" of every word, as ASCII. *)
HexDigit(n) == IF n < 10 THEN 48 + n ELSE 55 + n
Sha1Hash(bytes) ==
  LET digest == ClientSha1(bytes).context.h
  IN  FlattenSeq([i \in 1..5 |-> [k \in 1..8 |-> HexDigit((digest[i][(k + 3) \div 4] \div (16 ^ ((8 - k) % 4))) % 16)]])

(* htoi(s, start, 2), behind tolower. *)
ToLower(c) == IF c \in 65..90 THEN c + 32 ELSE c
Nibble(c) == IF ToLower(c) > 57 THEN 10 + ToLower(c) - 97 ELSE ToLower(c) - 48
Htoi(s, start) == 16 * Nibble(s[start + 1]) + Nibble(s[start + 2])

BuildRespondShakeKey(key) ==
  LET hex == Sha1Hash(AsciiText(key) \o Guid)
  IN  ClientEncode([i \in 1..Len(hex) \div 2 |-> Htoi(hex, 2 * (i - 1))])

MatchShakeKey(key, accept) == BuildRespondShakeKey(key) = accept
=============================================================================
