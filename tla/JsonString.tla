----------------------------- MODULE JsonString -----------------------------
(* The strings of cJSON.cc, byte by byte: print_string_ptr, parse_string with
   its UTF-16 literals, and cJSON_Minify, which must know a string when it sees
   one.                                                                        *)
EXTENDS Naturals, Sequences, SequencesExt, FiniteSets

Quote     == 34
Backslash == 92
Slash     == 47
Star      == 42
Newline   == 10
Space     == 32
LetterU   == 117

(* The bytes with an escape of one letter: \b \f \n \r \t. *)
Controls == {8, 12, 10, 13, 9}
LetterOf(c) == CASE c = 8 -> 98 [] c = 12 -> 102 [] c = 10 -> 110 [] c = 13 -> 114 [] c = 9 -> 116

-----------------------------------------------------------------------------
(* print_string_ptr counts the additional characters first ... *)
Extra(c) == IF c \in Controls \cup {Quote, Backslash} THEN 1 ELSE IF c < 32 THEN 5 ELSE 0
RECURSIVE ExtraOf(_)
ExtraOf(s) == IF s = <<>> THEN 0 ELSE Extra(Head(s)) + ExtraOf(Tail(s))

(* ... and writes them afterwards; "u%04x" of a byte below 32. *)
HexLetter(n) == IF n < 10 THEN 48 + n ELSE 87 + n
Escape(c) ==
  CASE c > 31 /\ c \notin {Quote, Backslash} -> <<c>>
    [] c \in {Quote, Backslash} -> <<Backslash, c>>
    [] c \in Controls -> <<Backslash, LetterOf(c)>>
    [] OTHER -> <<Backslash, LetterU, 48, 48, 48 + (c \div 16), HexLetter(c % 16)>>

(* The literal, closed where the count says, and the bytes it reserved. *)
PrintStringPtr(s) ==
  LET n    == Len(s) + ExtraOf(s)
      body == FlattenSeq([i \in DOMAIN s |-> Escape(s[i])])
  IN  [text |-> <<Quote>> \o SubSeq(body, 1, n) \o <<Quote>>, reserved |-> n + 3]

-----------------------------------------------------------------------------
(* parse_hex4: a character that is no digit makes the whole 0. *)
IsHex(c) == c \in 48..57 \cup 65..70 \cup 97..102
HexValue(c) == IF c <= 57 THEN c - 48 ELSE IF c <= 70 THEN c - 55 ELSE c - 87
ParseHex4(t, i) ==
  IF \A k \in 0..3 : IsHex(t[i + k])
  THEN 4096 * HexValue(t[i]) + 256 * HexValue(t[i + 1]) + 16 * HexValue(t[i + 2]) + HexValue(t[i + 3])
  ELSE 0

(* The encoding loop: continuation bytes from the last to the second. *)
Utf8(cp) ==
  CASE cp < 128   -> <<cp>>
    [] cp \in 128..2047 -> <<192 + (cp \div 64), 128 + (cp % 64)>>
    [] cp \in 2048..65535 -> <<224 + (cp \div 4096), 128 + ((cp \div 64) % 64), 128 + (cp % 64)>>
    [] cp > 65535 -> <<240 + (cp \div 262144), 128 + ((cp \div 4096) % 64),
                       128 + ((cp \div 64) % 64), 128 + (cp % 64)>>

Refused == [bytes |-> <<>>, length |-> 0]

(* Fault: surrogates are taken for characters. *)
Utf16LiteralLax(t, i, end) ==
  IF end - i < 6 THEN Refused
  ELSE [bytes |-> Utf8(ParseHex4(t, i + 2)), length |-> 6]

(* utf16_literal_to_utf8 on t[i..end-1]: the bytes and how far to go on, 0 if
   the literal is refused.                                                   *)
Utf16Literal(t, i, end) ==
  IF end - i < 6 THEN Refused
  ELSE LET first == ParseHex4(t, i + 2)
       IN  IF first \in 56320..57343 THEN Refused
           ELSE IF first \notin 55296..56319 THEN [bytes |-> Utf8(first), length |-> 6]
           ELSE IF end - (i + 6) < 6 \/ t[i + 6] # Backslash \/ t[i + 7] # LetterU THEN Refused
           ELSE LET second == ParseHex4(t, i + 8)
                IN  IF second \notin 56320..57343 THEN Refused
                    ELSE [bytes |-> Utf8(65536 + (first % 1024) * 1024 + (second % 1024)), length |-> 12]

RECURSIVE EndOf(_, _, _)
(* The first loop of parse_string: where the closing quote is, and how many
   backslashes it skipped; 0 if the text ends before.                       *)
EndOf(t, i, skipped) ==
  IF i > Len(t) THEN [at |-> 0, skipped |-> 0]
  ELSE IF t[i] = Quote THEN [at |-> i, skipped |-> skipped]
  ELSE IF t[i] = Backslash
  THEN IF i + 1 > Len(t) THEN [at |-> 0, skipped |-> 0] ELSE EndOf(t, i + 2, skipped + 1)
  ELSE EndOf(t, i + 1, skipped)

NoString == [ok |-> FALSE, bytes |-> <<>>]
RECURSIVE Unescape(_, _, _, _)
(* The second loop. *)
Unescape(t, i, end, out) ==
  IF i >= end THEN [ok |-> TRUE, bytes |-> out]
  ELSE IF t[i] # Backslash THEN Unescape(t, i + 1, end, Append(out, t[i]))
  ELSE LET c == t[i + 1]
       IN  IF c \in {Quote, Backslash, Slash} THEN Unescape(t, i + 2, end, Append(out, c))
           ELSE IF \E x \in Controls : LetterOf(x) = c
           THEN Unescape(t, i + 2, end, Append(out, CHOOSE x \in Controls : LetterOf(x) = c))
           ELSE IF c # LetterU THEN NoString
           ELSE LET u == Utf16Literal(t, i, end)
                IN  IF u.length = 0 THEN NoString ELSE Unescape(t, i + u.length, end, out \o u.bytes)

(* parse_string on a text that starts with a literal: its bytes, where it ends,
   and the bytes allocated for it, the terminator included.                    *)
ParseString(t) ==
  LET end == EndOf(t, 2, 0)
      s   == Unescape(t, 2, end.at, <<>>)
  IN  IF t[1] # Quote \/ end.at = 0 THEN [ok |-> FALSE, bytes |-> <<>>, end |-> 0, allocated |-> 0]
      ELSE [ok |-> s.ok, bytes |-> s.bytes, end |-> end.at, allocated |-> (end.at - 1) - end.skipped + 1]

-----------------------------------------------------------------------------
ByteAt(t, i) == IF i > Len(t) THEN 0 ELSE t[i]   \* the terminator

RECURSIVE SkipTo(_, _, _), StringEnd(_, _), Minified(_, _, _)
(* Up to the end of a comment. *)
SkipTo(t, i, long) ==
  IF i > Len(t) \/ (~long /\ t[i] = Newline) \/ (long /\ t[i] = Star /\ ByteAt(t, i + 1) = Slash)
  THEN i ELSE SkipTo(t, i + 1, long)

(* The closing quote of a string, a backslash taking the byte behind it along. *)
StringEnd(t, i) ==
  IF i > Len(t) \/ t[i] = Quote THEN i ELSE StringEnd(t, IF t[i] = Backslash THEN i + 2 ELSE i + 1)

(* The loop of cJSON_Minify on a text whose comments and strings are closed. *)
Minified(t, i, into) ==
  IF i > Len(t) THEN into
  ELSE IF t[i] \in {Space, 9, 13, Newline} THEN Minified(t, i + 1, into)
  ELSE IF t[i] = Slash /\ ByteAt(t, i + 1) = Slash THEN Minified(t, SkipTo(t, i, FALSE), into)
  ELSE IF t[i] = Slash /\ ByteAt(t, i + 1) = Star THEN Minified(t, SkipTo(t, i, TRUE) + 2, into)
  ELSE IF t[i] = Quote
  THEN LET end == StringEnd(t, i + 1) IN Minified(t, end + 1, into \o SubSeq(t, i, end))
  ELSE Minified(t, i + 1, Append(into, t[i]))

Minify(t) == Minified(t, 1, <<>>)
=============================================================================
