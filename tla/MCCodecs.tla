------------------------------ MODULE MCCodecs ------------------------------
(* The conversions of the server, each computed once on every input of a
   bounded set and compared with a definition that does not look at the code. *)
EXTENDS Integers, Sequences, SequencesExt, FiniteSets

CONSTANTS SmallBuffer, MaxNumericSize, DateTime, NestingLimit

VARIABLES in,    \* <<kind, input>>
          done,  \* the conversion has run
          out    \* what it returned

vars == <<in, done, out>>

UpTo(S, n) == UNION {[1..k -> S] : k \in 0..n}

-----------------------------------------------------------------------------
(* Keys of the handshake, and the codec under them. *)
K == INSTANCE ShakeKey

SampleBytes == {0, 1, 62, 127, 255}
(* The sample nonce of RFC 6455, and a string with a zero byte. *)
Nonces == {<<116,104,101,32,115,97,109,112,108,101,32,110,111,110,99,101>>,
           [i \in 1..16 |-> (13 * i * i - 13) % 256]}

(* A block of 6 bytes and counters of one byte of 16 values: the counters run
   over after 2 and after 32 bytes. A digest is the sequence of its blocks.   *)
S == INSTANCE Sha1 WITH Base <- 16, Half <- 1, BlockLen <- 6, First <- 99, H0 <- <<>>, Compress <- Append

Message(n) == [i \in 1..n |-> 100 + i]
Digested(c) ==
  LET r == S!Result(c) IN [first |-> r, again |-> S!Result(r.context), late |-> S!Result(S!Input(r.context, <<1>>))]

(* The padding of FIPS 180: one bit, zeros, the length in bits. *)
PaddedBlocks(n) ==
  LET zeros == CHOOSE z \in 0..5 : (n + 1 + z + 2) % 6 = 0
      all   == Message(n) \o <<99>> \o S!Zeros(zeros) \o <<(8 * n) \div 16, (8 * n) % 16>>
  IN  [b \in 1..Len(all) \div 6 |-> SubSeq(all, 6 * b - 5, 6 * b)]

-----------------------------------------------------------------------------
(* Trees. Strings 1 and 2 are one letter in lower and in upper case, 3 is empty. *)
Wide(n)  == IF n = 3 THEN 2 ELSE 3
Lower(n) == IF n = 2 THEN 1 ELSE n
J == INSTANCE JsonText WITH Width <- Wide, Folded <- Lower

Named(t, n) == [t EXCEPT !.name = n]
Arrays(s) == J!Item("array", 0, 0, s)
Objects(s, names) == J!Item("object", 0, 0, [i \in DOMAIN s |-> Named(s[i], names[i])])

Leaves == {J!Item("null", 0, 0, <<>>), J!Item("false", 0, 0, <<>>), J!Item("number", 0, 0, <<>>),
           J!Item("number", 0, 25, <<>>), J!Item("string", 0, 3, <<>>), J!Item("raw", 0, 2, <<>>)}
Flat == Leaves \cup {Arrays(s) : s \in UpTo(Leaves, 2)}
               \cup {Objects(s, n) : s \in UpTo(Leaves, 2), n \in {<<1, 2>>, <<3, 1>>}}
Deep == {Arrays(<<t>>) : t \in Flat} \cup {Objects(<<t, u>>, <<1, 2>>) : t \in Flat, u \in {Arrays(<<>>), Objects(<<>>, <<>>)}}
RECURSIVE Nested(_)
Nested(n) == IF n = 0 THEN Arrays(<<>>)
             ELSE IF n % 2 = 0 THEN Arrays(<<Nested(n - 1)>>) ELSE Objects(<<Nested(n - 1)>>, <<1>>)
Trees == Flat \cup Deep \cup {Nested(n) : n \in 0..NestingLimit + 1}

RECURSIVE DepthOf(_), Readable(_)
DepthOf(t) == IF t.type \notin {"array", "object"} THEN 0
              ELSE 1 + (CHOOSE m \in 0..10 : /\ \A i \in DOMAIN t.kids : DepthOf(t.kids[i]) <= m
                                             /\ m = 0 \/ \E i \in DOMAIN t.kids : DepthOf(t.kids[i]) = m)
(* NaN and infinity are printed as null, a raw item reads as what it holds. *)
Readable(t) == IF t.type = "number" /\ t.val = 0 THEN [t EXCEPT !.type = "null"]
               ELSE IF t.type = "raw" THEN [t EXCEPT !.type = "string"]
               ELSE [t EXCEPT !.kids = [i \in DOMAIN t.kids |-> Readable(t.kids[i])]]

IntMaxes == {60, 1000}

-----------------------------------------------------------------------------
(* Strings. Raw ones, and literals made of pieces with UTF-16 escapes. *)
T == INSTANCE JsonString

RawBytes == {34, 92, 9, 31, 47, 65, 200}
U(a, b, c, d) == <<92, 117, a, b, c, d>>
Cut == <<92, 117, 48, 48>>   \* the closing quote comes too early
Literals == {<<65>>, <<92, 110>>, <<92, 47>>, <<92, 113>>,
             U(48, 48, 52, 49), U(48, 48, 101, 57), U(50, 48, 65, 67),
             U(68, 56, 51, 68), U(68, 69, 48, 48), U(48, 90, 48, 48)}
Borders == {U(48, 48, 55, 70), U(48, 48, 56, 48), U(48, 55, 70, 70), U(48, 56, 48, 48), U(68, 55, 70, 70),
            U(68, 56, 48, 48), U(68, 66, 70, 70), U(68, 67, 48, 48), U(68, 70, 70, 70), U(69, 48, 48, 48),
            U(70, 70, 70, 70)}
(* Lexemes of a text to minify: blanks, comments, a letter, a string that holds
   all of these.                                                               *)
Lexemes == {<<32>>, <<10>>, <<65>>, <<58>>, <<47, 47, 65, 34, 10>>, <<47, 42, 34, 42, 47>>,
            <<34, 32, 47, 47, 92, 34, 92, 92, 34>>}
IsKept(l) == l[1] \in {65, 58, 34}

(* What a literal stands for: escapes, and UTF-16 as Unicode defines it. A digit
   that is none makes the code 0.                                             *)
Hex(c) == IF c \in 48..57 THEN c - 48 ELSE IF c \in 65..70 THEN c - 55 ELSE c - 87
CodeOf(p) == IF p[4] = 90 THEN 0 ELSE ((Hex(p[3]) * 16 + Hex(p[4])) * 16 + Hex(p[5])) * 16 + Hex(p[6])
IsCode(p) == Len(p) = 6
IsHigh(p) == IsCode(p) /\ CodeOf(p) \in 55296..56319
IsLow(p)  == IsCode(p) /\ CodeOf(p) \in 56320..57343
Utf8Lead == [n \in 1..4 |-> <<0, 192, 224, 240>>[n]]
Utf8Ref(cp) ==
  LET n == IF cp < 128 THEN 1 ELSE IF cp < 2048 THEN 2 ELSE IF cp < 65536 THEN 3 ELSE 4
  IN  [i \in 1..n |-> (IF i = 1 THEN Utf8Lead[n] + (cp \div (64 ^ (n - 1)))
                       ELSE 128 + ((cp \div (64 ^ (n - i))) % 64))]
Bad == <<-1>>
RECURSIVE Meaning(_)
Meaning(ps) ==
  IF ps = <<>> THEN <<>>
  ELSE LET p == ps[1]
           pair == IsHigh(p) /\ Len(ps) > 1 /\ IsLow(ps[2])
           m == CASE pair -> Utf8Ref(65536 + 1024 * (CodeOf(p) - 55296) + (CodeOf(ps[2]) - 56320))
                  [] ~pair /\ (IsHigh(p) \/ IsLow(p) \/ p \in {<<92, 113>>, Cut}) -> Bad
                  [] ~pair /\ IsCode(p) /\ ~IsHigh(p) /\ ~IsLow(p) -> Utf8Ref(CodeOf(p))
                  [] p = <<92, 110>> -> <<10>>
                  [] p = <<92, 47>> -> <<47>>
                  [] p = <<65>> -> p
           rest == Meaning(SubSeq(ps, IF pair THEN 3 ELSE 2, Len(ps)))
       IN  IF m = Bad \/ rest = Bad THEN Bad ELSE m \o rest

-----------------------------------------------------------------------------
(* Lines of the log. *)
L == INSTANCE LogLine
MessagePieces == {L!Chars(n) : n \in {0, 1, 7, SmallBuffer - DateTime - 7}} \cup {L!Number(v) : v \in {7, -40}}
Numbers == {0, 9, 10, -1, -10, 2147483647, -2147483647 - 1, 1000000, -99}
RECURSIVE ValueOf(_)
ValueOf(digits) == IF digits = <<>> THEN 0 ELSE 10 * ValueOf(SubSeq(digits, 1, Len(digits) - 1)) - digits[Len(digits)]

RECURSIVE Within(_, _)
(* The first sequence is the second one with some elements left out. *)
Within(a, b) == IF a = <<>> THEN TRUE
                ELSE b # <<>> /\ Within(IF a[1] = b[1] THEN Tail(a) ELSE a, Tail(b))

-----------------------------------------------------------------------------
Init ==
  /\ done = FALSE
  /\ out = <<>>
  /\ \/ \E s \in UpTo(SampleBytes, 4) : in = <<"bytes", s>>
     \/ \E n \in Nonces : in = <<"nonce", n>>
     \/ \E n \in 0..40, m \in 0..3 : in = <<"message", <<n, m>>>>
     \/ \E t \in Trees, f \in BOOLEAN, x \in IntMaxes : in = <<"tree", <<t, f, x>>>>
     \/ \E t \in Flat, u \in Flat : in = <<"pair", <<t, u>>>>
     \/ \E s \in UpTo(Borders, 2) : in = <<"literal", s>>
     \/ \E s \in UpTo(RawBytes, 3) : in = <<"string", s>>
     \/ \E s \in UpTo(Literals, 3), c \in UpTo({Cut}, 1) : in = <<"literal", s \o c>>
     \/ \E s \in UpTo(Lexemes, 3) : in = <<"lexemes", s>>
     \/ \E m \in UpTo(MessagePieces, 3), base \in {1, 9} : in = <<"line", <<m, base>>>>
     \/ \E v \in Numbers : in = <<"decimal", v>>

Run(kind, result) == in[1] = kind /\ ~done /\ done' = TRUE /\ out' = result /\ UNCHANGED in

Base64 == Run("bytes", [server |-> K!Encode(in[2]), client |-> K!ClientEncode(in[2])])
Handshake == LET key == K!BuildShakeKey(in[2]) IN Run("nonce", [key |-> key, accept |-> K!AcceptKey(key)])
Hash == Run("message", Digested(S!Input(S!Stream(S!Reset, SubSeq(Message(in[2][1] + in[2][2]), 1, in[2][1])),
                                        SubSeq(Message(in[2][1] + in[2][2]), in[2][1] + 1, in[2][1] + in[2][2]))))
PrintTree == Run("tree", J!PrintGrowing(in[2][1], in[2][2], in[2][3]))
CompareTrees == Run("pair", [cs \in BOOLEAN |-> J!Compare(in[2][1], in[2][2], cs)])
WriteString == Run("string", T!PrintStringPtr(in[2]))
ReadLiteral == Run("literal", T!ParseString(<<34>> \o FlattenSeq(in[2]) \o <<34>>))
MinifyText == Run("lexemes", T!Minify(FlattenSeq(in[2])))
LogOne == Run("line", L!Line(in[2][1], in[2][2], 42))
Decimal == Run("decimal", L!Convert(in[2]))

Next == Base64 \/ Handshake \/ Hash \/ PrintTree \/ CompareTrees \/ WriteString \/ ReadLiteral \/ MinifyText
          \/ LogOne \/ Decimal

Spec == Init /\ [][Next]_vars

Done(kind) == done /\ in[1] = kind

-----------------------------------------------------------------------------
(* The handshake succeeds between this server and this client: the two Base64
   encoders agree on every string and both decoders undo them, and the accept
   key of sendRespond is the one webSocket_matchShakeKey computes.            *)
KeysAgree ==
  /\ Done("bytes") => /\ out.server = out.client
                      /\ K!Decode(out.server) = in[2]
                      /\ K!ClientDecode(out.client) = in[2]
  /\ Done("nonce") => /\ Len(out.key) = 24
                      /\ K!MatchShakeKey(out.key, out.accept)

(* The blocks that SHA1 processes are those of the standard's padding, wherever
   the message is cut between two calls of Input and on both sides of the border
   where the padding takes a block more. A message whose length does not fit the
   counters, or one that grows after Result, has no digest; asking twice gives
   the same one.                                                                 *)
PaddingReference ==
  Done("message") =>
    LET n == in[2][1] + in[2][2]
    IN  IF 8 * n >= 16 * 16 THEN ~out.first.ok
        ELSE /\ out.first.ok /\ out.first.context.h = PaddedBlocks(n)
             /\ out.again = out.first
             /\ ~out.late.ok

(* Printing writes no byte behind the buffer, whether it grows, starts with a
   given length or is the caller's; a text up to half the largest size is
   printed; and five bytes more than the text and its terminator are enough for
   PrintPreallocated, as cJSON.h promises.                                      *)
TextInside ==
  Done("tree") =>
    LET t == in[2][1]  f == in[2][2]  x == in[2][3]
        size == J!Size(J!PrintGrowing(t, f, 1000).text)
    IN  /\ ~out.overrun /\ out.length <= x
        /\ (2 * (size + 6) <= x => out.ok) /\ (out.ok => out.offset = size)
        /\ \A n \in 0..size + 6 :
             LET p == J!PrintPreallocated(t, n, f, x)
                 b == J!PrintBuffered(t, n, f, 1000)
             IN  /\ ~p.overrun /\ ~b.overrun
                 /\ p.length = n
                 /\ n = size + 6 => p.ok
                 /\ n > 0 => b.ok

(* What was printed is read back as the tree it was, formatted or not, up to the
   nesting limit and no further; no beginning of the text of a container is
   taken for a value. On trees without two members of one name cJSON_Compare is
   equality up to the order of members.                                         *)
NoTwins(t, cs) ==
  t.type = "object" => \A i, j \in DOMAIN t.kids :
    i # j => IF cs THEN t.kids[i].name # t.kids[j].name ELSE Lower(t.kids[i].name) # Lower(t.kids[j].name)
NameIn(cs, n) == IF cs THEN n ELSE Lower(n)
SameTree(t, u, cs) ==
  /\ t.type = u.type /\ t.val = u.val
  /\ IF t.type = "object"
     THEN {<<NameIn(cs, k.name), k.type, k.val>> : k \in ToSet(t.kids)}
            = {<<NameIn(cs, k.name), k.type, k.val>> : k \in ToSet(u.kids)}
     ELSE t.kids = u.kids

ParsesBack ==
  /\ Done("tree") /\ out.ok =>
       LET t == in[2][1]
           r == J!Parse(out.text, TRUE)
       IN  /\ r.ok <=> DepthOf(t) <= NestingLimit
           /\ r.ok => r.item = Readable(t)
           /\ t.type \in {"array", "object"} =>
                \A n \in 0..Len(out.text) - 1 : ~J!Parse(SubSeq(out.text, 1, n), FALSE).ok
  /\ Done("pair") =>
       \A cs \in BOOLEAN :
         NoTwins(in[2][1], cs) /\ NoTwins(in[2][2], cs) => (out[cs] <=> SameTree(in[2][1], in[2][2], cs))

(* Strings survive: what print_string_ptr writes fits what it reserved and is read
   back byte by byte; parse_string reads literals as Unicode defines them, refuses
   half a surrogate pair and stays in its allocation; cJSON_Minify drops blanks and
   comments and leaves strings alone, whatever they hold.                          *)
StringsSurvive ==
  /\ Done("string") =>
       LET r == T!ParseString(out.text)
       IN  /\ Len(out.text) + 1 <= out.reserved
           /\ r.ok /\ r.bytes = in[2] /\ r.end = Len(out.text)
           /\ Len(r.bytes) + 1 <= r.allocated
  /\ Done("literal") =>
       /\ out.ok <=> Meaning(in[2]) # Bad
       /\ out.ok => out.bytes = Meaning(in[2]) /\ Len(out.bytes) + 1 <= out.allocated
  /\ Done("lexemes") => out = FlattenSeq(SelectSeq(in[2], IsKept))

(* A line of the log stays in its buffer; it is made of whole pieces in their
   order; it lacks its end of line only when one byte is left; and a number is
   its decimal text, the smallest one included.                               *)
LineKept ==
  /\ Done("line") =>
       /\ out.cur <= SmallBuffer
       /\ Within(out.kept, L!Pieces(in[2][1], in[2][2], 42))
       /\ L!EndOfLine \in ToSet(out.kept) \/ L!Avail(out) <= 1
  /\ Done("decimal") =>
       LET abs == SelectSeq(out, LAMBDA d : d # L!Minus)
       IN  /\ (in[2] < 0 <=> out[1] = L!Minus) /\ Len(abs) >= Len(out) - 1
           /\ ValueOf(abs) = (IF in[2] < 0 THEN in[2] ELSE -in[2])
=============================================================================
