----------------------- MODULE WebSocketClientProofs -----------------------
(* The client library: what one side writes the other reads, with the real  *)
(* width of a byte; the handshake, for every response and every count; the  *)
(* lookup of a name; and the calls of recv, for every stream and every cut. *)
EXTENDS HostLookup, SequenceLemmas

\* The widths of a word grow.
LEMMA Widths ==
  ASSUME Base = 256
  PROVE  /\ Base2 \in Nat /\ Base4 \in Nat
         /\ 200 < Base2 /\ Base2 < Base4 - 1
  BY SMT DEF Base2, Base3, Base4

\* Two bytes make up every length of 16 bits.
LEMMA Word16 ==
  ASSUME Base = 256, NEW n \in Nat, n < Base2
  PROVE  Byte(n, Base) * Base + Byte(n, 1) = n
  BY DEF Base2, Byte

\* Four bytes make up every length of 32 bits.
LEMMA Word32 ==
  ASSUME Base = 256, NEW n \in Nat, n < Base4
  PROVE  Byte(n, Base3) * Base3 + Byte(n, Base2) * Base2
           + Byte(n, Base) * Base + Byte(n, 1) = n
  BY DEF Base2, Base3, Base4, Byte

\* The server's parser (readAndParsePacket, websocket-data.cc:305-382) finds the
\* length the client's webSocket_enPackage wrote (websocket-client.cc:756-789),
\* masked or not, for every length below 2^32 - 1.
THEOREM ServerReadsClient ==
  ASSUME Base = 256, L7 = 126, NEW n \in 0 .. Base4 - 2, NEW masked \in BOOLEAN
  PROVE  ServerBodySize(EnHead(n, masked)) = n
<1> DEFINE m == IF masked THEN MaskBit ELSE 0
<1>0. m \in {0, 128} /\ n \in Nat /\ n < Base4
  <2>1. m \in {0, 128}
    BY DEF MaskBit
  <2>2. QED
    BY <2>1, Widths
<1>1. CASE n < L7
  <2>1. EnHead(n, masked) = <<FinText, m + n>>
    BY <1>1 DEF EnHead
  <2>2. (m + n) % MaskBit = n
    BY <1>0, <1>1 DEF MaskBit
  <2>3. QED
    BY <1>1, <2>1, <2>2 DEF ServerBodySize
<1>2. CASE n >= L7 /\ n < Base2
  <2>1. EnHead(n, masked) = <<FinText, m + L7, Byte(n, Base), Byte(n, 1)>>
    BY <1>2 DEF EnHead
  <2>2. (m + L7) % MaskBit = L7
    BY <1>0 DEF MaskBit
  <2>3. QED
    BY <1>0, <1>2, <2>1, <2>2, Word16 DEF ServerBodySize
<1>3. CASE n >= Base2
  <2>1. EnHead(n, masked) = <<FinText, m + L7 + 1, 0, 0, 0, 0, Byte(n, Base3),
                              Byte(n, Base2), Byte(n, Base), Byte(n, 1)>>
    <3>1. ~(n < L7) /\ ~(n < Base2) /\ n < Base4 - 1
      BY <1>3, Widths
    <3>2. QED
      BY <3>1 DEF EnHead
  <2>2. (m + L7 + 1) % MaskBit = L7 + 1
    BY <1>0 DEF MaskBit
  <2>3. QED
    BY <1>0, <2>1, <2>2, Word32 DEF ServerBodySize
<1>4. QED
  BY <1>1, <1>2, <1>3 DEF Base2

\* The three forms of a head that dePackage tells apart.
CodeOf(buf) == buf[2] % MaskBit
KeyOf(buf)  == IF buf[2] >= MaskBit THEN 4 ELSE 0
ShortForm(buf)  == [head |-> 2 + KeyOf(buf), len |-> CodeOf(buf)]
MiddleForm(buf) == [head |-> 4 + KeyOf(buf), len |-> buf[3] * Base + buf[4]]
LongForm(buf)   == [head |-> 10 + KeyOf(buf),
                    len |-> buf[7] * Base3 + buf[8] * Base2 + buf[9] * Base + buf[10]]
LEMMA DeHeadForms ==
  ASSUME NEW buf, ~(Len(buf) < 2)
  PROVE  /\ CodeOf(buf) # L7 /\ CodeOf(buf) # L7 + 1 => DeHead(buf) = ShortForm(buf)
         /\ CodeOf(buf) = L7 /\ ~(Len(buf) < 4) => DeHead(buf) = MiddleForm(buf)
         /\ CodeOf(buf) # L7 /\ CodeOf(buf) = L7 + 1 /\ ~(Len(buf) < 10)
              /\ ~(\E i \in 3 .. 6 : buf[i] # 0) => DeHead(buf) = LongForm(buf)
<1>1. ASSUME CodeOf(buf) # L7, CodeOf(buf) # L7 + 1 PROVE DeHead(buf) = ShortForm(buf)
  BY <1>1, Zenon DEF DeHead, CodeOf, KeyOf, ShortForm
<1>2. ASSUME CodeOf(buf) = L7, ~(Len(buf) < 4) PROVE DeHead(buf) = MiddleForm(buf)
  BY <1>2, Zenon DEF DeHead, CodeOf, KeyOf, MiddleForm
<1>3. ASSUME CodeOf(buf) # L7, CodeOf(buf) = L7 + 1, ~(Len(buf) < 10),
             ~(\E i \in 3 .. 6 : buf[i] # 0)
      PROVE  DeHead(buf) = LongForm(buf)
  BY <1>3, Zenon DEF DeHead, CodeOf, KeyOf, LongForm
<1>4. QED
  BY <1>1, <1>2, <1>3, Zenon

\* The client's webSocket_dePackage (websocket-client.cc:834-978) finds head and
\* length of every result the server's sendResult wrote (websocket-data.cc:453-509),
\* whatever follows the head in the buffer.
THEOREM ClientReadsServer ==
  ASSUME Base = 256, L7 = 126, NEW n \in 0 .. Base4 - 1, NEW buf \in Seq(Int),
         Len(buf) >= Len(SendResultHead(n)),
         \A i \in 1 .. Len(SendResultHead(n)) : buf[i] = SendResultHead(n)[i]
  PROVE  DeHead(buf) = [head |-> Len(SendResultHead(n)), len |-> n]
<1> DEFINE h == SendResultHead(n)
           code == CodeOf(buf)
<1>0. n \in Nat /\ n < Base4 /\ MaskBit = 128 /\ Len(buf) \in Nat
  BY Widths DEF MaskBit
<1>l. Len(buf) >= Len(h)
  OBVIOUS
<1>h. \A i \in 1 .. Len(h) : buf[i] = h[i]
  OBVIOUS
<1> HIDE DEF h
<1>1. CASE n < L7
  <2>1. h = <<FinText, n>>
    BY <1>1 DEF SendResultHead, h
  <2>2. Len(h) = 2 /\ h[2] = n
    BY <2>1
  <2>3. buf[2] = n /\ ~(Len(buf) < 2)
    BY <1>h, <1>l, <1>0, <2>2
  <2>4. code = n /\ ~(buf[2] >= MaskBit) /\ n # L7 /\ n # L7 + 1
    BY <1>0, <1>1, <2>3 DEF CodeOf
  <2>k. KeyOf(buf) = 0
    BY <2>4, Zenon DEF KeyOf
  <2>5. DeHead(buf) = ShortForm(buf)
    BY <2>3, <2>4, DeHeadForms, Zenon
  <2>6. QED
    BY <2>2, <2>4, <2>5, <2>k DEF h, ShortForm
<1>2. CASE n >= L7 /\ n < Base2 - 1
  <2>1. h = <<FinText, L7, Byte(n, Base), Byte(n, 1)>>
    BY <1>2, Widths DEF SendResultHead, h
  <2>2. Len(h) = 4 /\ h[2] = L7 /\ h[3] = Byte(n, Base) /\ h[4] = Byte(n, 1)
    BY <2>1
  <2>3. /\ buf[2] = L7 /\ buf[3] = Byte(n, Base) /\ buf[4] = Byte(n, 1)
        /\ ~(Len(buf) < 2) /\ ~(Len(buf) < 4)
    <3>1. Len(h) = 4 /\ 2 \in 1 .. 4 /\ 3 \in 1 .. 4 /\ 4 \in 1 .. 4
      BY <2>2
    <3>2. buf[2] = h[2] /\ buf[3] = h[3] /\ buf[4] = h[4]
      BY <1>h, <3>1, Zenon
    <3>3. ~(Len(buf) < 2) /\ ~(Len(buf) < 4)
      BY <1>l, <1>0, <3>1
    <3>4. QED
      BY <2>2, <3>2, <3>3, Zenon
  <2>4. code = L7 /\ ~(buf[2] >= MaskBit)
    BY <1>0, <2>3 DEF CodeOf
  <2>5. buf[3] * Base + buf[4] = n
    BY <1>0, <1>2, <2>3, Word16, Widths
  <2>k. KeyOf(buf) = 0
    BY <2>4, Zenon DEF KeyOf
  <2>6. DeHead(buf) = MiddleForm(buf)
    BY <2>3, <2>4, DeHeadForms, Zenon
  <2>7. Len(h) = 4 + 0
    BY <2>2
  <2>8. QED
    BY <2>5, <2>6, <2>7, <2>k DEF h, MiddleForm
<1>3. CASE n >= Base2 - 1
  <2>0. ~(n < L7) /\ ~(n < Base2 - 1)
    BY <1>0, <1>3, Widths
  <2>1. h = <<FinText, L7 + 1, 0, 0, 0, 0, Byte(n, Base3), Byte(n, Base2),
              Byte(n, Base), Byte(n, 1)>>
    BY <2>0, Zenon DEF SendResultHead, h
  <2>2. /\ Len(h) = 10 /\ h[2] = L7 + 1
        /\ h[3] = 0 /\ h[4] = 0 /\ h[5] = 0 /\ h[6] = 0
        /\ h[7] = Byte(n, Base3) /\ h[8] = Byte(n, Base2)
        /\ h[9] = Byte(n, Base) /\ h[10] = Byte(n, 1)
    BY <2>1, SMT
  <2>3. /\ buf[2] = L7 + 1
        /\ buf[3] = 0 /\ buf[4] = 0 /\ buf[5] = 0 /\ buf[6] = 0
        /\ buf[7] = Byte(n, Base3) /\ buf[8] = Byte(n, Base2)
        /\ buf[9] = Byte(n, Base) /\ buf[10] = Byte(n, 1)
        /\ ~(Len(buf) < 2) /\ ~(Len(buf) < 10)
    <3>1. \A i \in 1 .. 10 : buf[i] = h[i]
      BY <1>h, <2>2, Zenon
    <3>2. /\ buf[2] = h[2] /\ buf[3] = h[3] /\ buf[4] = h[4] /\ buf[5] = h[5]
          /\ buf[6] = h[6] /\ buf[7] = h[7] /\ buf[8] = h[8] /\ buf[9] = h[9]
          /\ buf[10] = h[10]
      BY <3>1
    <3>3. ~(Len(buf) < 2) /\ ~(Len(buf) < 10)
      <4>1. Len(h) = 10
        BY <2>2, Zenon
      <4>2. QED
        BY <1>l, <1>0, <4>1
    <3>4. QED
      BY <2>2, <3>2, <3>3
  <2>4. code = L7 + 1 /\ ~(buf[2] >= MaskBit) /\ L7 + 1 # L7
    <3>1. buf[2] = L7 + 1
      BY <2>3, Zenon
    <3>2. QED
      BY <1>0, <3>1 DEF CodeOf
  <2>5. buf[7] * Base3 + buf[8] * Base2 + buf[9] * Base + buf[10] = n
    <3>1. Byte(n, Base3) * Base3 + Byte(n, Base2) * Base2
            + Byte(n, Base) * Base + Byte(n, 1) = n
      BY <1>0, Word32
    <3>2. QED
      BY <2>3, <3>1
  <2>6. ~ \E i \in 3 .. 6 : buf[i] # 0
    <3>1. \A i \in 3 .. 6 : i = 3 \/ i = 4 \/ i = 5 \/ i = 6
      OBVIOUS
    <3>2. QED
      BY <3>1, <2>3, Zenon
  <2>k. KeyOf(buf) = 0
    BY <2>4, Zenon DEF KeyOf
  <2>l. ~(Len(buf) < 2) /\ ~(Len(buf) < 10)
    BY <2>3, Zenon
  <2>7. DeHead(buf) = LongForm(buf)
    <3>1. code # L7 /\ code = L7 + 1
      BY <2>4, Zenon
    <3>2. QED
      BY <2>6, <2>l, <3>1, DeHeadForms, Zenon
  <2>8. Len(h) = 10 + 0
    BY <2>2
  <2>9. QED
    <3>1. LongForm(buf) = [head |-> 10 + 0, len |-> n]
      BY <2>5, <2>k, Zenon DEF LongForm
    <3>2. QED
      BY <2>7, <2>8, <3>1, Zenon DEF h
<1>4. QED
  BY <1>0, <1>1, <1>2, <1>3, Widths

\* A head of sendResult is made of bytes, has one of three lengths and starts with
\* the byte of a final text frame.
LEMMA HeadBytes ==
  ASSUME Base = 256, L7 = 126, NEW n \in 0 .. Base4 - 1
  PROVE  /\ SendResultHead(n) \in Seq(Nat) /\ Len(SendResultHead(n)) \in {2, 4, 10}
         /\ SendResultHead(n)[1] = FinText
<1>0. n \in Nat /\ FinText \in Nat
  BY Widths DEF FinText, MaskBit
<1>1. Byte(n, 1) \in Nat /\ Byte(n, Base) \in Nat /\ Byte(n, Base2) \in Nat /\ Byte(n, Base3) \in Nat
  BY <1>0 DEF Byte, Base2, Base3
<1>2. CASE SendResultHead(n) = <<FinText, n>>
  BY <1>0, <1>2
<1>3. CASE SendResultHead(n) = <<FinText, L7, Byte(n, Base), Byte(n, 1)>>
  BY <1>0, <1>1, <1>3
<1>4. CASE SendResultHead(n) = <<FinText, L7 + 1, 0, 0, 0, 0, Byte(n, Base3),
                                 Byte(n, Base2), Byte(n, Base), Byte(n, 1)>>
  BY <1>0, <1>1, <1>4
<1>5. \/ SendResultHead(n) = <<FinText, n>>
      \/ SendResultHead(n) = <<FinText, L7, Byte(n, Base), Byte(n, 1)>>
      \/ SendResultHead(n) = <<FinText, L7 + 1, 0, 0, 0, 0, Byte(n, Base3),
                               Byte(n, Base2), Byte(n, Base), Byte(n, 1)>>
  BY Zenon DEF SendResultHead
<1>6. QED
  BY <1>2, <1>3, <1>4, <1>5, Zenon

\* As long as the head is cut, dePackage sees no frame.
LEMMA CutHead ==
  ASSUME Base = 256, L7 = 126, NEW n \in 0 .. Base4 - 1, NEW buf \in Seq(Nat),
         Len(buf) < Len(SendResultHead(n)),
         \A i \in 1 .. Len(buf) : buf[i] = SendResultHead(n)[i]
  PROVE  DeHead(buf) = NoHead
<1> DEFINE h == SendResultHead(n)
<1>0. n \in Nat /\ n < Base4 /\ MaskBit = 128 /\ Len(buf) \in Nat
  BY Widths DEF MaskBit
<1>1. CASE Len(buf) < 2
  BY <1>1, Zenon DEF DeHead
<1>2. CASE Len(buf) >= 2 /\ n < L7
  <2>1. h = <<FinText, n>>
    BY <1>2 DEF SendResultHead
  <2>2. QED
    BY <1>0, <1>2, <2>1
<1>3. CASE Len(buf) >= 2 /\ n >= L7 /\ n < Base2 - 1
  <2>1. h = <<FinText, L7, Byte(n, Base), Byte(n, 1)>>
    BY <1>3, Widths DEF SendResultHead
  <2>2. Len(h) = 4 /\ h[2] = L7
    BY <2>1
  <2>3. buf[2] = L7 /\ Len(buf) < 4 /\ ~(Len(buf) < 2)
    BY <1>0, <1>3, <2>2
  <2>4. buf[2] % MaskBit = L7
    BY <1>0, <2>3
  <2>5. QED
    BY <2>3, <2>4, Zenon DEF DeHead
<1>4. CASE Len(buf) >= 2 /\ n >= Base2 - 1
  <2>0. ~(n < L7) /\ ~(n < Base2 - 1)
    BY <1>0, <1>4, Widths
  <2>1. h = <<FinText, L7 + 1, 0, 0, 0, 0, Byte(n, Base3), Byte(n, Base2),
              Byte(n, Base), Byte(n, 1)>>
    BY <2>0, Zenon DEF SendResultHead
  <2>2. Len(h) = 10 /\ h[2] = L7 + 1
    BY <2>1
  <2>3. buf[2] = L7 + 1 /\ Len(buf) < 10 /\ ~(Len(buf) < 2)
    BY <1>0, <1>4, <2>2
  <2>4. buf[2] % MaskBit = L7 + 1 /\ L7 + 1 # L7
    BY <1>0, <2>3
  <2>5. QED
    BY <2>3, <2>4, Zenon DEF DeHead
<1>5. QED
  BY <1>0, <1>1, <1>2, <1>3, <1>4, Widths

\* Whatever the bytes are, dePackage finds lengths that are not negative.
LEMMA DeHeadType ==
  ASSUME Base = 256, L7 = 126, NEW buf \in Seq(Nat)
  PROVE  DeHead(buf) \in [head : Nat, len : Nat]
<1> DEFINE code == buf[2] % MaskBit
           key == IF buf[2] >= MaskBit THEN 4 ELSE 0
<1>0. MaskBit = 128 /\ Len(buf) \in Nat /\ key \in Nat /\ 4 + key \in Nat /\ 10 + key \in Nat
      /\ 2 + key \in Nat
  BY DEF MaskBit
<1>1. CASE Len(buf) < 2
  BY <1>1 DEF DeHead, NoHead
<1>2. CASE ~(Len(buf) < 2) /\ code = L7
  <2>1. CASE Len(buf) < 4
    <3>1. DeHead(buf) = NoHead
      BY <1>2, <2>1, Zenon DEF DeHead
    <3>2. QED
      BY <3>1 DEF NoHead
  <2>2. CASE ~(Len(buf) < 4)
    <3>1. DeHead(buf) = [head |-> 4 + key, len |-> buf[3] * Base + buf[4]]
      BY <1>2, <2>2, Zenon DEF DeHead
    <3>2. buf[3] \in Nat /\ buf[4] \in Nat
      BY <1>0, <2>2
    <3>3. buf[3] * Base + buf[4] \in Nat
      BY <3>2
    <3> HIDE DEF key
    <3>4. QED
      BY <1>0, <3>1, <3>3
  <2>3. QED
    BY <2>1, <2>2
<1>3. CASE ~(Len(buf) < 2) /\ code # L7 /\ code = L7 + 1
  <2>1. CASE Len(buf) < 10 \/ \E i \in 3 .. 6 : buf[i] # 0
    <3>1. DeHead(buf) = NoHead
      BY <1>3, <2>1, Zenon DEF DeHead
    <3>2. QED
      BY <3>1 DEF NoHead
  <2>2. CASE ~(Len(buf) < 10 \/ \E i \in 3 .. 6 : buf[i] # 0)
    <3> DEFINE len == buf[7] * Base3 + buf[8] * Base2 + buf[9] * Base + buf[10]
    <3>1. DeHead(buf) = [head |-> 10 + key, len |-> len]
      BY <1>3, <2>2, Zenon DEF DeHead
    <3>2. buf[7] \in Nat /\ buf[8] \in Nat /\ buf[9] \in Nat /\ buf[10] \in Nat
      <4>1. Len(buf) >= 10
        BY <1>0, <2>2
      <4>2. QED
        BY <4>1
    <3>3. len \in Nat
      <4>1. Base2 = 65536 /\ Base3 = 16777216
        BY DEF Base2, Base3
      <4>2. /\ buf[7] * Base3 \in Nat /\ buf[8] * Base2 \in Nat /\ buf[9] * Base \in Nat
            /\ buf[10] \in Nat
        <5>1. ASSUME NEW a \in Nat PROVE a * Base3 \in Nat /\ a * Base2 \in Nat /\ a * Base \in Nat
          BY <4>1
        <5>2. QED
          BY <3>2, <5>1, Zenon
      <4>3. \A a, b \in Nat : a + b \in Nat
        OBVIOUS
      <4>4. buf[7] * Base3 + buf[8] * Base2 \in Nat
        BY <4>2, <4>3, Zenon
      <4>5. buf[7] * Base3 + buf[8] * Base2 + buf[9] * Base \in Nat
        BY <4>2, <4>3, <4>4, Zenon
      <4>6. QED
        BY <4>2, <4>3, <4>5, Zenon
    <3> HIDE DEF key, len
    <3>4. QED
      BY <1>0, <3>1, <3>3
  <2>3. QED
    BY <2>1, <2>2
<1>4. CASE ~(Len(buf) < 2) /\ code # L7 /\ code # L7 + 1
  <2>1. DeHead(buf) = [head |-> 2 + key, len |-> code]
    BY <1>4, Zenon DEF DeHead
  <2>2. code \in Nat
    BY <1>0, <1>4
  <2> HIDE DEF key, code
  <2>3. QED
    BY <1>0, <2>1, <2>2
<1>5. QED
  BY <1>1, <1>2, <1>3, <1>4

-----------------------------------------------------------------------------
(* The handshake.                                                          *)

USE ClientAssumption

\* What was read has arrived, and recvBuf holds no more than it has room for.
Positions == wr \in Nat /\ rd \in Nat /\ rd <= wr /\ ret \in 0 .. DataMax

\* One head has been sent as long as nothing has been read: the only piece that
\* can match is the first.
FirstPiece ==
  /\ pc = "connect" => rd = 0
  /\ pc = "await" /\ rd = 0 => heads = 1

\* The inductive invariant.
LinkInv == Positions /\ FirstPiece /\ LinkedOnce

\* The smaller of two numbers is one of them.
LEMMA MinOfTwo ==
  ASSUME NEW a \in Nat, NEW b \in Nat
  PROVE  Min({a, b}) \in {a, b} /\ Min({a, b}) <= a /\ Min({a, b}) <= b
<1>1. \E x \in {a, b} : \A y \in {a, b} : x <= y
  <2>1. CASE a <= b
    BY <2>1
  <2>2. CASE b <= a
    BY <2>2
  <2>3. QED
    BY <2>1, <2>2
<1>2. Min({a, b}) \in {a, b} /\ \A y \in {a, b} : Min({a, b}) <= y
  BY <1>1, Zenon DEF Min
<1>3. QED
  BY <1>2

\* The client starts with nothing read and nothing sent.
LEMMA InitLinkInv == Init => LinkInv
  BY DEF Init, LinkInv, Positions, FirstPiece, LinkedOnce

\* A step of webSocket_recv only reads on.
LEMMA RecvReadsOn ==
  ASSUME Positions, Recv \/ RecvNothing \/ RecvMore \/ RecvMoreNothing
  PROVE  /\ Positions' /\ rd <= rd'
         /\ heads' = heads /\ match' = match
         /\ pc \in {"linked", "more"} /\ pc' \in {"linked", "more"}
<1> USE DEF Positions, peerVars
<1>0. Avail \in Nat /\ DataMax \in Nat
  BY DEF Avail
<1>1. CASE Recv
  <2> DEFINE k == Min({Avail, DataMax})
  <2>1. k \in Nat /\ k <= Avail /\ k <= DataMax
    BY <1>0, MinOfTwo
  <2>2. rd' = rd + k
    BY <1>1 DEF Recv
  <2>3. pc = "linked" /\ pc' \in {"linked", "more"}
    BY <1>1 DEF Recv, Return
  <2>4. wr' = wr /\ heads' = heads /\ match' = match
    BY <1>1 DEF Recv
  <2>6. ret' = k \/ ret' = 0
    BY <1>1 DEF Recv, Return
  <2> HIDE DEF k
  <2>5. QED
    BY <2>1, <2>2, <2>3, <2>4, <2>6 DEF Avail
<1>2. CASE RecvNothing
  BY <1>2 DEF RecvNothing, Return
<1>3. CASE RecvMore
  <2> DEFINE k == Min({Avail, DataMax - ret})
  <2>1. pc = "more" /\ ret < DataMax
    BY <1>3 DEF RecvMore
  <2>2. rd' = rd + k
    BY <1>3 DEF RecvMore
  <2>3. pc' \in {"linked", "more"}
    BY <1>3 DEF RecvMore, Return
  <2>4. wr' = wr /\ heads' = heads /\ match' = match
    BY <1>3 DEF RecvMore
  <2>5. k \in Nat /\ k <= Avail /\ k <= DataMax - ret
    BY <1>0, <2>1, MinOfTwo
  <2>6. ret' = ret + k \/ ret' = 0
    BY <1>3 DEF RecvMore, Return
  <2> HIDE DEF k
  <2>7. QED
    BY <2>1, <2>2, <2>3, <2>4, <2>5, <2>6 DEF Avail
<1>4. CASE RecvMoreNothing
  BY <1>4 DEF RecvMoreNothing, Return
<1>5. QED
  BY <1>1, <1>2, <1>3, <1>4

\* A step of the peer lets bytes arrive, or ends the connection.
LEMMA PeerStep ==
  ASSUME LinkInv, Deliver \/ PeerEnds
  PROVE  LinkInv'
<1> USE DEF LinkInv, Positions, FirstPiece, LinkedOnce, recvVars
<1>1. CASE Deliver
  BY <1>1 DEF Deliver
<1>2. CASE PeerEnds
  BY <1>2 DEF PeerEnds
<1>3. QED
  BY <1>1, <1>2

\* A step of webSocket_clientLinkToServer.
LEMMA LinkStep ==
  ASSUME LinkInv, Connect \/ ConnectFails \/ LinkRecv \/ LinkRecvNothing
  PROVE  LinkInv'
<1> USE DEF LinkInv, Positions, FirstPiece, LinkedOnce, recvVars, peerVars
<1>1. CASE Connect
  BY <1>1 DEF Connect
<1>2. CASE ConnectFails
  BY <1>2 DEF ConnectFails
<1>3. CASE LinkRecv
  <2>1. pc = "await" /\ Avail \in Nat /\ Avail > 0 /\ rd' = rd + Avail
        /\ wr' = wr /\ ret' = ret /\ match' = match
    BY <1>3 DEF LinkRecv, Avail
  <2>2. Positions'
    BY <2>1 DEF Avail
  <2>3. CASE Matched(Avail) /\ pc' = "linked" /\ heads' = heads
    BY <2>1, <2>2, <2>3 DEF Matched, IsHttp
  <2>4. CASE pc' \in {"await", "failed"}
    BY <2>1, <2>2, <2>4
  <2>5. QED
    BY <1>3, <2>1, <2>3, <2>4 DEF LinkRecv, CountWait
<1>4. CASE LinkRecvNothing
  BY <1>4 DEF LinkRecvNothing, CountWait
<1>5. QED
  BY <1>1, <1>2, <1>3, <1>4

\* The client that clientLinkToServer (websocket-client.cc:1063-1088) returns as
\* linked has matched its key and sent one head only, however the response was cut,
\* and stays so through every call of webSocket_recv.
THEOREM AlwaysLinkedOnce == Spec => []LinkedOnce
<1>1. Init => LinkInv
  BY InitLinkInv
<1>2. LinkInv /\ [Next]_vars => LinkInv'
  <2> SUFFICES ASSUME LinkInv, [Next]_vars PROVE LinkInv'
    OBVIOUS
  <2>1. CASE Deliver \/ PeerEnds
    BY <2>1, PeerStep
  <2>2. CASE Connect \/ ConnectFails \/ LinkRecv \/ LinkRecvNothing
    BY <2>2, LinkStep
  <2>3. CASE Recv \/ RecvNothing \/ RecvMore \/ RecvMoreNothing
    <3>1. Positions
      BY DEF LinkInv
    <3>2. /\ Positions' /\ rd <= rd' /\ heads' = heads /\ match' = match
          /\ pc \in {"linked", "more"} /\ pc' \in {"linked", "more"}
      BY <2>3, <3>1, RecvReadsOn
    <3>3. QED
      BY <3>1, <3>2 DEF LinkInv, FirstPiece, LinkedOnce, Positions
  <2>4. CASE UNCHANGED vars
    BY <2>4 DEF vars, LinkInv, Positions, FirstPiece, LinkedOnce
  <2>5. QED
    BY <2>1, <2>2, <2>3, <2>4 DEF Next, Client
<1>3. LinkInv => LinkedOnce
  BY DEF LinkInv
<1>4. QED
  BY <1>1, <1>2, <1>3, PTL DEF Spec

-----------------------------------------------------------------------------
(* The lookup of the server's name in a thread of its own.                 *)

GsType == [ip : {"host", "found", "broadcast"}, result : BOOLEAN, actionEnd : BOOLEAN]

\* Where caller and thread are: the thread runs only while the caller polls or
\* joins, and has an answer once it stores.
Places ==
  /\ lpc \in {"start", "poll", "join", "done", "failed", "crashed"}
  /\ thread \in {"none", "resolving", "storing", "ended"}
  /\ thread \in {"none", "resolving"} => answer = "none"
  /\ thread \in {"storing", "ended"} => answer \in {"found", "broadcast", "missing"}
  /\ lpc = "start" => thread = "none"

\* What the thread has stored so far, in whatever order, agrees with its answer.
Stores ==
  /\ gs \in GsType
  /\ todo \subseteq {"ip", "result", "actionEnd"}
  /\ thread \in {"none", "resolving"} => ~gs.result
  /\ thread \in {"storing", "ended"} =>
       /\ answer = "missing" => ~gs.result /\ todo \subseteq {"actionEnd"}
       /\ answer # "missing" =>
            ("result" \in todo \/ gs.result) /\ ("ip" \in todo \/ gs.ip = answer)
  /\ thread = "ended" => todo = {}

\* The inductive invariant of the lookup.
LookupInv == Places /\ Stores /\ LookupAnswer

\* The caller joins a thread that has ended, and finds the whole answer in gs.
LEMMA CallerKeeps == ASSUME LookupInv, Caller PROVE LookupInv'
<1> USE DEF LookupInv, Places, Stores, LookupAnswer, lookupVars
<1>1. CASE Begin
  BY <1>1 DEF Begin
<1>2. CASE Poll
  BY <1>2 DEF Poll
<1>3. CASE Join
  BY <1>3 DEF Join, Answered, GsType
<1>4. CASE JoinNothing
  BY <1>4 DEF JoinNothing
<1>5. QED
  BY <1>1, <1>2, <1>3, <1>4 DEF Caller

\* The thread resolves the name and stores the fields one at a time.
LEMMA ThreadStores == ASSUME LookupInv, ThreadStep PROVE LookupInv'
<1> USE DEF LookupInv
<1>1. CASE Resolve
  <2>1. DOMAIN gs = {"ip", "result", "actionEnd"}
    BY DEF Stores, GsType
  <2>2. QED
    BY <1>1, <2>1 DEF Resolve, Places, Stores, LookupAnswer
<1>2. CASE Store
  <2>1. PICK field \in todo :
          /\ gs' = [gs EXCEPT ![field] = IF field = "ip" THEN answer ELSE TRUE]
          /\ todo' = todo \ {field}
          /\ thread' = IF todo' = {} THEN "ended" ELSE "storing"
    BY <1>2 DEF Store
  <2>2. thread = "storing" /\ UNCHANGED <<lpc, byName, answer, addr>>
    BY <1>2 DEF Store
  <2>3. Places' /\ LookupAnswer'
    BY <2>1, <2>2 DEF Places, LookupAnswer
  <2>4. Stores'
    <3>1. CASE field = "ip"
      <4>1. answer # "missing" /\ answer \in {"found", "broadcast"}
        BY <2>2, <3>1 DEF Stores, Places
      <4>2. gs' \in GsType /\ gs'.ip = answer /\ gs'.result = gs.result
        BY <2>1, <3>1, <4>1 DEF Stores, GsType
      <4>3. QED
        BY <2>1, <2>2, <3>1, <4>1, <4>2 DEF Stores
    <3>2. CASE field = "result"
      <4>1. answer # "missing"
        BY <2>2, <3>2 DEF Stores
      <4>2. gs' \in GsType /\ gs'.ip = gs.ip /\ gs'.result
        BY <2>1, <3>2 DEF Stores, GsType
      <4>3. QED
        BY <2>1, <2>2, <3>2, <4>1, <4>2 DEF Stores
    <3>3. CASE field = "actionEnd"
      <4>1. gs' \in GsType /\ gs'.ip = gs.ip /\ gs'.result = gs.result
        BY <2>1, <3>3 DEF Stores, GsType
      <4>2. QED
        BY <2>1, <2>2, <3>3, <4>1 DEF Stores
    <3>4. QED
      BY <3>1, <3>2, <3>3 DEF Stores
  <2>5. QED
    BY <2>3, <2>4
<1>3. QED
  BY <1>1, <1>2 DEF ThreadStep

\* The frame of the lookup is left only when its thread has ended, and the caller
\* goes on with what was found (websocket-client.cc:137-173), however long the
\* thread takes, in whatever order its stores are seen and for every limit.
THEOREM LookupAlwaysAnswers == LookupFairSpec => []LookupAnswer
<1>1. LookupInit => LookupInv
  BY DEF LookupInit, LookupInv, Places, Stores, LookupAnswer, GsType, NewGs
<1>2. LookupInv /\ [LookupNext]_allVars => LookupInv'
  <2> SUFFICES ASSUME LookupInv, [LookupNext]_allVars PROVE LookupInv'
    OBVIOUS
  <2>1. CASE Looked
    BY <2>1 DEF Looked, LookupInv, Places, Stores, LookupAnswer, GsType, NewGs
  <2>2. CASE UNCHANGED allVars
    BY <2>2 DEF allVars, lookupVars, LookupInv, Places, Stores, LookupAnswer
  <2>3. QED
    BY <2>1, <2>2, CallerKeeps, ThreadStores DEF LookupNext, ClientStep
<1>3. QED
  BY <1>1, <1>2, PTL DEF LookupFairSpec, LookupInv

\* The library with its lookup is the library: it takes the steps of Spec only.
THEOREM LookupImplementsClient == LookupFairSpec => Spec
<1>1. LookupInit => Init
  BY DEF LookupInit
<1>2. [LookupNext]_allVars => [Next]_vars
  BY DEF LookupNext, allVars, ClientStep, ThreadStep, Caller, Begin, Poll, Join,
     Answered, JoinNothing, Resolve, Store, Next
<1>3. QED
  BY <1>1, <1>2, PTL DEF LookupFairSpec, Spec

-----------------------------------------------------------------------------
(* webSocket_recv on a stream that arrives in pieces.                      *)

\* The stream of a session, and where its frames begin.
StreamOf(s) == TextOf(RespLen) \o FlattenSeq(Frames(s))
StartOf(s, i) == RespLen + Len(FlattenSeq(SubSeq(Frames(s), 1, i - 1)))
HeadLen(n) == Len(SendResultHead(n))

\* A frame is the head of sendResult and as many bytes as the result has.
LEMMA FrameShape ==
  ASSUME Base = 256, L7 = 126, NEW n \in 1 .. Base4 - 1
  PROVE  LET f == SendResultHead(n) \o TextOf(n) IN
         /\ f \in Seq(Nat)
         /\ Len(f) = HeadLen(n) + n
         /\ \A j \in 1 .. HeadLen(n) : f[j] = SendResultHead(n)[j]
<1> DEFINE h == SendResultHead(n)
           t == TextOf(n)
<1>1. n \in 0 .. Base4 - 1 /\ n \in Nat
  BY Widths
<1>2. h \in Seq(Nat)
  BY <1>1, HeadBytes
<1>3. t \in Seq(Nat) /\ Len(t) = n
  <2>1. Text \in Nat
    BY DEF Text
  <2>2. QED
    BY <1>1, <2>1 DEF TextOf
<1> HIDE DEF h, t
<1>4. h \o t \in Seq(Nat) /\ Len(h \o t) = Len(h) + n
      /\ \A j \in 1 .. Len(h) : (h \o t)[j] = h[j]
  BY <1>2, <1>3
<1>5. QED
  BY <1>4 DEF h, t, HeadLen

\* The frames of a session.
LEMMA FramesShape ==
  ASSUME Base = 256, L7 = 126, NEW s \in Seq(1 .. Base4 - 1)
  PROVE  /\ Frames(s) \in Seq(Seq(Nat)) /\ Len(Frames(s)) = Len(s)
         /\ \A i \in DOMAIN s :
              /\ Len(Frames(s)[i]) = HeadLen(s[i]) + s[i]
              /\ \A j \in 1 .. HeadLen(s[i]) :
                   Frames(s)[i][j] = SendResultHead(s[i])[j]
<1> DEFINE F(n) == SendResultHead(n) \o TextOf(n)
<1>1. \A n \in 1 .. Base4 - 1 :
        /\ F(n) \in Seq(Nat) /\ Len(F(n)) = HeadLen(n) + n
        /\ \A j \in 1 .. HeadLen(n) : F(n)[j] = SendResultHead(n)[j]
  BY FrameShape
<1>2. Frames(s) = [i \in DOMAIN s |-> F(s[i])]
  BY DEF Frames
<1> HIDE DEF F
<1>3. DOMAIN s = 1 .. Len(s) /\ Len(s) \in Nat /\ \A i \in DOMAIN s : s[i] \in 1 .. Base4 - 1
  BY ElementOfSeq, LenProperties
<1>4. \A i \in DOMAIN s : Frames(s)[i] = F(s[i])
  BY <1>2
<1>5. Frames(s) \in Seq(Seq(Nat)) /\ Len(Frames(s)) = Len(s)
  BY <1>1, <1>2, <1>3
<1>6. QED
  BY <1>1, <1>3, <1>4, <1>5, Zenon

\* Each frame lies in the stream where StartOf says.
LEMMA StreamShape ==
  ASSUME Base = 256, L7 = 126, NEW s \in Seq(1 .. Base4 - 1)
  PROVE  /\ StreamOf(s) \in Seq(Nat) /\ RespLen <= Len(StreamOf(s))
         /\ \A i \in DOMAIN s :
              StartOf(s, i) \in Nat /\ LiesAt(StreamOf(s), StartOf(s, i), Frames(s)[i])
<1> DEFINE F == Frames(s)
           T == TextOf(RespLen)
<1>1. F \in Seq(Seq(Nat)) /\ Len(F) = Len(s)
  BY FramesShape
<1>2. T \in Seq(Nat) /\ Len(T) = RespLen
  <2>1. Text \in Nat
    BY DEF Text
  <2>2. QED
    BY <2>1 DEF TextOf
<1>3. FlattenSeq(F) \in Seq(Nat)
  BY <1>1, FlattenType
<1>4. StreamOf(s) = T \o FlattenSeq(F)
  BY DEF StreamOf
<1> HIDE DEF F, T
<1>5. StreamOf(s) \in Seq(Nat) /\ RespLen <= Len(StreamOf(s))
  BY <1>2, <1>3, <1>4
<1>6. ASSUME NEW i \in DOMAIN s
      PROVE  StartOf(s, i) \in Nat /\ LiesAt(StreamOf(s), StartOf(s, i), F[i])
  <2> DEFINE A == SubSeq(F, 1, i - 1)
             B == SubSeq(F, i + 1, Len(F))
             P == FlattenSeq(A)
             Q == FlattenSeq(B)
  <2>1. i \in 1 .. Len(F) /\ F[i] \in Seq(Nat)
    BY <1>1
  <2>2. A \in Seq(Seq(Nat)) /\ B \in Seq(Seq(Nat)) /\ F = Append(A, F[i]) \o B
    BY <1>1, <2>1, SplitAt
  <2>3. StartOf(s, i) = RespLen + Len(P)
    BY DEF StartOf, F
  <2> HIDE DEF A, B
  <2>4. P \in Seq(Nat) /\ Q \in Seq(Nat)
    BY <2>2, FlattenType
  <2>5. FlattenSeq(Append(A, F[i])) = Cat(P, F[i])
    BY <2>1, <2>2, FlattenAppend DEF Cat
  <2>6. Append(A, F[i]) \in Seq(Seq(Nat))
    BY <2>1, <2>2
  <2>7. FlattenSeq(F) = Cat(FlattenSeq(Append(A, F[i])), Q)
    BY <2>2, <2>6, FlattenConcat DEF Cat
  <2> HIDE DEF P, Q
  <2>8. StreamOf(s) = Cat(T, Cat(Cat(P, F[i]), Q))
    BY <1>4, <2>5, <2>7 DEF Cat
  <2>9. LiesAt(StreamOf(s), Len(T) + Len(P), F[i])
    BY <1>2, <2>1, <2>4, <2>8, Middle
  <2>10. StartOf(s, i) = Len(T) + Len(P) /\ StartOf(s, i) \in Nat
    BY <1>2, <2>3, <2>4
  <2>11. QED
    BY <2>9, <2>10
<1>7. QED
  BY <1>5, <1>6 DEF F

\* What dePackage says of the k bytes behind position p: two lengths, and for the
\* start of a frame nothing while the head is cut, else the head and the result.
LEMMA DecodedShape ==
  ASSUME Base = 256, L7 = 126, script \in Scripts, NEW p \in Nat, NEW k \in Nat \ {0},
         p + k <= Len(Stream), NEW d \in Decoded(p, k)
  PROVE  /\ d \in [head : Nat, len : Nat]
         /\ \A i \in DOMAIN script : p = FrameAt(i) =>
              d = IF k < HeadLen(script[i]) THEN NoHead
                  ELSE [head |-> HeadLen(script[i]), len |-> script[i]]
<1> DEFINE buf == SubSeq(Stream, p + 1, p + k)
<1>1. script \in Seq(1 .. Base4 - 1) /\ Stream = StreamOf(script)
  BY ScriptsAssumption DEF Stream, StreamOf
<1>2. Stream \in Seq(Nat) /\ Len(Stream) \in Nat
  <2>1. Stream \in Seq(Nat)
    BY <1>1, StreamShape
  <2>2. QED
    BY <2>1
<1>3. buf \in Seq(Nat) /\ Len(buf) = k /\ \A j \in 1 .. k : buf[j] = Stream[p + j]
  <2>1. buf \in Seq(Nat) /\ Len(buf) = k /\ LiesAt(Stream, p, buf)
    BY <1>2, CutOut
  <2> HIDE DEF buf
  <2>2. QED
    BY <2>1 DEF LiesAt
<1> HIDE DEF buf
<1>4. NoHead \in [head : Nat, len : Nat]
  BY DEF NoHead
<1>5. d \in [head : Nat, len : Nat]
  <2>1. CASE Stream[p + 1] = FinText
    <3>1. d = DeHead(buf)
      BY <2>1 DEF Decoded, buf
    <3>2. QED
      BY <1>3, <3>1, DeHeadType
  <2>2. CASE Stream[p + 1] # FinText
    <3>1. d = NoHead \/ d \in OfText
      BY <2>2 DEF Decoded
    <3>2. DataMax + 1 \in Nat
      OBVIOUS
    <3>3. OfText \subseteq [head : Nat, len : Nat]
      BY <1>4, <3>2 DEF OfText
    <3>4. QED
      BY <1>4, <3>1, <3>3
  <2>3. QED
    BY <2>1, <2>2
<1>6. ASSUME NEW i \in DOMAIN script, p = FrameAt(i)
      PROVE  d = IF k < HeadLen(script[i]) THEN NoHead
                 ELSE [head |-> HeadLen(script[i]), len |-> script[i]]
  <2> DEFINE n == script[i]
             h == SendResultHead(n)
             f == Frames(script)[i]
  <2>1. n \in 1 .. Base4 - 1 /\ n \in 0 .. Base4 - 1
    <3>1. n \in 1 .. Base4 - 1
      BY <1>1, ElementOfSeq, LenProperties
    <3>2. QED
      BY <3>1, Widths
  <2>2. h \in Seq(Nat) /\ Len(h) \in {2, 4, 10} /\ h[1] = FinText
    BY <2>1, HeadBytes
  <2>3. Len(f) = Len(h) + n /\ \A j \in 1 .. Len(h) : f[j] = h[j]
    BY <1>1, FramesShape DEF HeadLen
  <2>4. LiesAt(Stream, p, f)
    <3>1. p = StartOf(script, i)
      BY <1>6 DEF FrameAt, StartOf
    <3>2. QED
      BY <1>1, <3>1, StreamShape
  <2> HIDE DEF n, h, f
  <2>5. \A j \in 1 .. Len(h) : Stream[p + j] = h[j]
    <3>1. Len(f) = Len(h) + n /\ n \in Nat /\ Len(h) \in Nat
      BY <2>1, <2>2, <2>3, Widths
    <3>2. \A j \in 1 .. Len(h) : j \in 1 .. Len(f)
      BY <3>1
    <3>3. QED
      BY <2>3, <2>4, <3>2, Zenon DEF LiesAt
  <2>6. Stream[p + 1] = FinText
    BY <2>2, <2>5
  <2>7. d = DeHead(buf)
    BY <2>6 DEF Decoded, buf
  <2>8. CASE k < Len(h)
    <3>1. Len(buf) < Len(h) /\ \A j \in 1 .. Len(buf) : buf[j] = h[j]
      <4>1. Len(buf) < Len(h) /\ \A j \in 1 .. Len(buf) : j \in 1 .. k /\ j \in 1 .. Len(h)
        BY <1>3, <2>2, <2>8
      <4>2. QED
        BY <1>3, <2>5, <4>1, Zenon
    <3>2. d = NoHead
      BY <1>3, <2>1, <2>7, <3>1, CutHead DEF h
    <3>3. QED
      BY <2>8, <3>2 DEF HeadLen, h, n
  <2>9. CASE ~(k < Len(h))
    <3>1. Len(buf) >= Len(h) /\ \A j \in 1 .. Len(h) : buf[j] = h[j]
      <4>1. Len(buf) >= Len(h) /\ \A j \in 1 .. Len(h) : j \in 1 .. k
        BY <1>3, <2>2, <2>9
      <4>2. QED
        BY <1>3, <2>5, <4>1, Zenon
    <3>2. buf \in Seq(Int)
      BY <1>3
    <3>3. d = [head |-> Len(h), len |-> n]
      BY <2>1, <2>7, <3>1, <3>2, ClientReadsServer DEF h
    <3>4. QED
      BY <2>9, <3>3 DEF HeadLen, h, n
  <2>10. QED
    BY <2>8, <2>9
<1>7. QED
  BY <1>5, <1>6

\* The frame that begins at p, if one does, is the one that d describes ...
Begun(s, p, d) ==
  \A i \in DOMAIN s : p = StartOf(s, i) => d = [head |-> HeadLen(s[i]), len |-> s[i]]

\* ... or its head is cut by the end of the k bytes that were read.
Seen(s, p, k, d) ==
  \A i \in DOMAIN s : p = StartOf(s, i) =>
    d = IF k < HeadLen(s[i]) THEN NoHead ELSE [head |-> HeadLen(s[i]), len |-> s[i]]

\* RecvWhole and RecvLoses, of a call that returned o.
Whole(s, o) ==
  \A i \in DOMAIN s : o.n > 0 /\ o.start = StartOf(s, i) =>
    /\ o.n = s[i]
    /\ o.from = StartOf(s, i) + HeadLen(s[i])
    /\ o.took >= HeadLen(s[i]) + s[i]
Loses(s, o, open) ==
  \A i \in DOMAIN s : o.start = StartOf(s, i) /\ o.took > 0 =>
    /\ o.n < 0 => o.took < HeadLen(s[i])
    /\ o.n = 0 => HeadLen(s[i]) + s[i] > DataMax \/ ~open

Session ==
  /\ script \in Scripts /\ match \in BOOLEAN
  /\ conn \in {"none", "open", "fin", "rst", "closed"}
  /\ wr \in 0 .. Len(StreamOf(script)) /\ rd \in 0 .. wr

\* A second head is sent for the first piece only, and the waits are counted.
Linking ==
  /\ pc \in {"connect", "await", "linked", "more", "failed"}
  /\ heads \in 0 .. 2 /\ (rd = 0 => heads <= 1)
  /\ timeOut \in 0 .. RespondTimeout + Retries + 1
  /\ pc \in {"connect", "await"} => timeOut <= RespondTimeout

\* A call that waits for more has seen a head and not its whole frame; only a
\* linked client has the outcome of a call.
Calling ==
  /\ start \in 0 .. rd /\ ret \in 0 .. DataMax
  /\ frame \in [head : Nat, len : Nat]
  /\ again \in BOOLEAN
  /\ out \in Outcomes
  /\ pc = "more" => ret < frame.head + frame.len /\ Begun(script, start, frame)
  /\ out.took > 0 => pc \in {"linked", "more"}
  /\ Whole(script, out) /\ Loses(script, out, conn = "open")

\* The inductive invariant of webSocket_recv.
RecvInv == Session /\ Linking /\ Calling

\* What the parts of the invariant say in the terms of the model.
LEMMA RecvInvSays ==
  ASSUME Base = 256, L7 = 126, RecvInv
  PROVE  RecvWhole /\ RecvLoses
<1>1. script \in Seq(1 .. Base4 - 1) /\ Stream = StreamOf(script)
  BY ScriptsAssumption DEF Stream, StreamOf, RecvInv, Session
<1>2. TypeOK
  BY <1>1 DEF RecvInv, Session, Linking, Calling, TypeOK
<1>3. \A i \in DOMAIN script :
        /\ FrameAt(i) = StartOf(script, i)
        /\ Len(SendResultHead(script[i])) = HeadLen(script[i])
        /\ Len(Frames(script)[i]) = HeadLen(script[i]) + script[i]
  BY <1>1, FramesShape DEF FrameAt, StartOf, HeadLen
<1>4. Whole(script, out) /\ Loses(script, out, conn = "open")
  BY DEF RecvInv, Calling
<1>5. RecvWhole
  BY <1>2, <1>3, <1>4, Zenon DEF RecvWhole, Whole
<1>6. RecvLoses
  BY <1>3, <1>4, Zenon DEF RecvLoses, Loses
<1>7. QED
  BY <1>5, <1>6

\* The client starts without the outcome of a call.
LEMMA InitRecvInv ==
  ASSUME Base = 256, L7 = 126, Init
  PROVE  RecvInv
<1>1. script \in Seq(1 .. Base4 - 1)
  BY ScriptsAssumption DEF Init
<1>2. Len(StreamOf(script)) \in Nat
  <2>1. StreamOf(script) \in Seq(Nat)
    BY <1>1, StreamShape
  <2>2. QED
    BY <2>1
<1>3. Session /\ Linking
  BY <1>2 DEF Init, Session, Linking
<1>4. out = NoOutcome /\ NoOutcome \in Outcomes
  BY DEF Init, NoOutcome, Outcomes
<1>5. Whole(script, out) /\ Loses(script, out, conn = "open") /\ out.took = 0
  BY <1>4 DEF Whole, Loses, NoOutcome
<1>6. Calling
  BY <1>4, <1>5 DEF Init, Calling, NoHead
<1>7. QED
  BY <1>3, <1>6 DEF RecvInv

\* A frame that was seen whole, or given up, is returned right.
LEMMA SeenWhole ==
  ASSUME Base = 256, L7 = 126, NEW s \in Seq(1 .. Base4 - 1), NEW p \in Nat,
         NEW k \in 1 .. DataMax, NEW d \in [head : Nat, len : Nat], Seen(s, p, k, d),
         NEW open \in BOOLEAN
  PROVE  LET o == [n |-> Final(d, k), start |-> p, from |-> p + d.head, took |-> k] IN
         /\ Incomplete(d, k) => Begun(s, p, d)
         /\ ~Incomplete(d, k) => Whole(s, o) /\ Loses(s, o, open)
<1> DEFINE o == [n |-> Final(d, k), start |-> p, from |-> p + d.head, took |-> k]
<1>1. \A i \in DOMAIN s : s[i] \in Nat \ {0} /\ HeadLen(s[i]) \in Nat \ {0}
  <2> SUFFICES ASSUME NEW i \in DOMAIN s
               PROVE  s[i] \in Nat \ {0} /\ HeadLen(s[i]) \in Nat \ {0}
    OBVIOUS
  <2>1. s[i] \in 1 .. Base4 - 1
    <3>1. i \in 1 .. Len(s)
      BY LenProperties
    <3>2. QED
      BY <3>1, ElementOfSeq
  <2>2. s[i] \in Nat \ {0} /\ s[i] \in 0 .. Base4 - 1
    BY <2>1, Widths
  <2>3. HeadLen(s[i]) \in {2, 4, 10}
    BY <2>2, HeadBytes, Zenon DEF HeadLen
  <2>4. \A x \in {2, 4, 10} : x \in Nat \ {0}
    OBVIOUS
  <2>5. QED
    BY <2>2, <2>3, <2>4, Zenon
<1>2. ASSUME NEW i \in DOMAIN s, p = StartOf(s, i), k < HeadLen(s[i])
      PROVE  NonPacket(d, k) /\ ~Incomplete(d, k) /\ Final(d, k) = -k
  <2>1. d = NoHead
    BY <1>2 DEF Seen
  <2>2. QED
    BY <2>1 DEF NonPacket, Incomplete, Final, NoHead
<1>3. ASSUME NEW i \in DOMAIN s, p = StartOf(s, i), ~(k < HeadLen(s[i]))
      PROVE  d = [head |-> HeadLen(s[i]), len |-> s[i]] /\ ~NonPacket(d, k)
  <2>1. d = [head |-> HeadLen(s[i]), len |-> s[i]]
    BY <1>3 DEF Seen
  <2>2. QED
    BY <1>1, <2>1 DEF NonPacket
<1>4. Incomplete(d, k) => Begun(s, p, d)
  BY <1>2, <1>3 DEF Begun
<1>5. ASSUME ~Incomplete(d, k), NEW i \in DOMAIN s, o.start = StartOf(s, i)
      PROVE  /\ o.n > 0 => /\ o.n = s[i]
                           /\ o.from = StartOf(s, i) + HeadLen(s[i])
                           /\ o.took >= HeadLen(s[i]) + s[i]
             /\ o.n < 0 => o.took < HeadLen(s[i])
             /\ o.n = 0 => HeadLen(s[i]) + s[i] > DataMax \/ ~open
  <2>1. p = StartOf(s, i)
    BY <1>5
  <2>2. CASE k < HeadLen(s[i])
    BY <1>2, <2>1, <2>2
  <2>3. CASE ~(k < HeadLen(s[i]))
    <3>1. d = [head |-> HeadLen(s[i]), len |-> s[i]] /\ ~NonPacket(d, k)
      BY <1>3, <2>1, <2>3
    <3>2. d.head = HeadLen(s[i]) /\ d.len = s[i]
      BY <3>1
    <3>3. s[i] > DataMax \/ k >= HeadLen(s[i]) + s[i]
      BY <1>1, <1>5, <3>1, <3>2 DEF Incomplete
    <3>4. Final(d, k) = IF s[i] > DataMax THEN 0 ELSE s[i]
      BY <3>1, <3>2 DEF Final
    <3>5. QED
      BY <1>1, <2>1, <3>2, <3>3, <3>4
  <2>4. QED
    BY <2>2, <2>3
<1>6. ~Incomplete(d, k) => Whole(s, o) /\ Loses(s, o, open)
  BY <1>5 DEF Whole, Loses
<1>7. QED
  BY <1>4, <1>6

\* A step that leaves calls alone keeps what they returned.
LEMMA CallKept ==
  ASSUME RecvInv, UNCHANGED <<script, recvVars>>, rd' \in Nat, rd <= rd',
         conn = "open" \/ conn' # "open" \/ out.took = 0,
         pc' = pc \/ (pc' # "more" /\ out.took = 0)
  PROVE  Calling'
<1> USE DEF RecvInv, Session, Calling, recvVars
<1>1. start' \in 0 .. rd' /\ ret' \in 0 .. DataMax /\ frame' \in [head : Nat, len : Nat]
      /\ again' \in BOOLEAN /\ out' \in Outcomes
  OBVIOUS
<1>2. /\ pc' = "more" => ret' < frame'.head + frame'.len /\ Begun(script', start', frame')
      /\ out'.took > 0 => pc' \in {"linked", "more"}
      /\ Whole(script', out')
  BY DEF Outcomes
<1>3. Loses(script', out', conn' = "open")
  <2>1. Loses(script, out, conn' = "open")
    BY DEF Loses
  <2>2. QED
    BY <2>1
<1>4. QED
  BY <1>1, <1>2, <1>3

\* A step of the peer.
LEMMA PeerKeeps ==
  ASSUME Base = 256, L7 = 126, RecvInv, Deliver \/ PeerEnds
  PROVE  RecvInv'
<1>1. script \in Seq(1 .. Base4 - 1)
  BY ScriptsAssumption DEF RecvInv, Session
<1>2. Len(StreamOf(script)) \in Nat /\ RespLen <= Len(StreamOf(script))
  <2>1. StreamOf(script) \in Seq(Nat) /\ RespLen <= Len(StreamOf(script))
    BY <1>1, StreamShape
  <2>2. QED
    BY <2>1
<1>3. Stream = StreamOf(script)
  BY DEF Stream, StreamOf
<1>4. CASE Deliver
  <2>1. conn' = conn /\ wr' \in wr + 1 .. Len(StreamOf(script))
        /\ UNCHANGED <<script, match, rd, pc, heads, timeOut, recvVars>>
    BY <1>2, <1>3, <1>4 DEF Deliver, RecvInv, Session
  <2>2. Session' /\ Linking' /\ rd' \in Nat /\ rd <= rd'
    BY <1>2, <2>1 DEF RecvInv, Session, Linking
  <2>3. QED
    BY <2>1, <2>2, CallKept DEF RecvInv
<1>5. CASE PeerEnds
  <2>1. conn = "open" /\ conn' \in {"fin", "rst"}
        /\ UNCHANGED <<script, match, wr, rd, pc, heads, timeOut, recvVars>>
    BY <1>5 DEF PeerEnds
  <2>2. Session' /\ Linking' /\ rd' \in Nat /\ rd <= rd'
    BY <1>2, <2>1 DEF RecvInv, Session, Linking
  <2>3. QED
    BY <2>1, <2>2, CallKept DEF RecvInv
<1>6. QED
  BY <1>4, <1>5

\* A step of webSocket_clientLinkToServer.
LEMMA LinkKeeps ==
  ASSUME RecvInv, Connect \/ ConnectFails \/ LinkRecv \/ LinkRecvNothing
  PROVE  RecvInv'
<1>1. pc \in {"connect", "await"} /\ out.took = 0
  <2>1. pc \in {"connect", "await"}
    BY DEF Connect, ConnectFails, LinkRecv, LinkRecvNothing
  <2>2. QED
    BY <2>1 DEF RecvInv, Calling, Outcomes
<1>2. UNCHANGED <<script, match, wr, recvVars>>
  BY DEF Connect, ConnectFails, LinkRecv, LinkRecvNothing, peerVars
<1>3. conn' \in {conn, "open", "closed"} /\ pc' # "more" /\ rd' \in rd .. wr /\ wr \in Nat /\ rd \in Nat
  BY DEF Connect, ConnectFails, LinkRecv, LinkRecvNothing, CountWait, Avail, peerVars,
     RecvInv, Session
<1>4. Session'
  BY <1>2, <1>3 DEF RecvInv, Session
<1>5. Linking'
  <2>1. CASE Connect
    BY <2>1 DEF Connect, RecvInv, Linking
  <2>2. CASE ConnectFails
    BY <2>2 DEF ConnectFails, RecvInv, Linking
  <2>3. ASSUME CountWait, pc = "await"
        PROVE  /\ pc' \in {"await", "failed"}
               /\ timeOut' \in 0 .. RespondTimeout + Retries + 1
               /\ pc' = "await" => timeOut' <= RespondTimeout
    BY <2>3 DEF CountWait, RecvInv, Linking
  <2>4. CASE LinkRecv
    <3>1. Avail \in Nat \ {0} /\ rd' = rd + Avail /\ pc = "await"
      BY <1>3, <2>4 DEF LinkRecv, Avail, RecvInv, Session
    <3>2. heads' \in 0 .. 2 /\ rd' # 0
      BY <1>3, <2>4, <3>1 DEF LinkRecv, IsHttp, RecvInv, Linking
    <3>3. (pc' = "linked" /\ timeOut' = 0) \/ CountWait
      BY <2>4 DEF LinkRecv
    <3>4. QED
      BY <2>3, <3>1, <3>2, <3>3 DEF Linking
  <2>5. CASE LinkRecvNothing
    <3>1. pc = "await" /\ CountWait /\ heads' = heads /\ rd' = rd
      BY <2>5 DEF LinkRecvNothing
    <3>2. QED
      BY <2>3, <3>1 DEF RecvInv, Linking
  <2>6. QED
    BY <2>1, <2>2, <2>4, <2>5
<1>6. Calling'
  BY <1>1, <1>2, <1>3, CallKept
<1>7. QED
  BY <1>4, <1>5, <1>6 DEF RecvInv

\* The outcome of a call that returns at position s with k bytes.
LEMMA ReturnKeeps ==
  ASSUME RecvInv, NEW n \in Int, NEW s \in Nat, NEW d \in [head : Nat, len : Nat],
         NEW k \in 0 .. DataMax, Return(n, s, d, k), again' \in BOOLEAN,
         UNCHANGED <<peerVars, heads>>, rd' \in rd .. wr,
         LET o == [n |-> n, start |-> s, from |-> s + d.head, took |-> k] IN
         Whole(script, o) /\ Loses(script, o, conn = "open")
  PROVE  RecvInv'
<1> DEFINE o == [n |-> n, start |-> s, from |-> s + d.head, took |-> k]
<1>0. rd \in Nat /\ wr \in Nat /\ rd' \in Nat /\ rd <= rd'
  BY DEF RecvInv, Session
<1>1. /\ out' = o /\ pc' = "linked" /\ timeOut' = 0
      /\ start' = 0 /\ ret' = 0 /\ frame' = NoHead
  BY DEF Return
<1>2. Session' /\ Linking'
  BY <1>0, <1>1 DEF RecvInv, Session, Linking, peerVars
<1>3. o \in Outcomes
  BY DEF Outcomes
<1>4. Whole(script, o) /\ Loses(script, o, conn = "open") /\ UNCHANGED <<script, conn>>
  BY DEF peerVars
<1> HIDE DEF o
<1>5. Whole(script', out') /\ Loses(script', out', conn' = "open")
  BY <1>1, <1>4
<1>6. Calling'
  BY <1>0, <1>1, <1>3, <1>5 DEF Calling, NoHead
<1>7. QED
  BY <1>2, <1>6 DEF RecvInv

\* The first recv() of a call.
LEMMA RecvKeeps ==
  ASSUME Base = 256, L7 = 126, RecvInv, Recv
  PROVE  RecvInv'
<1> DEFINE k == Min({Avail, DataMax})
<1>0. /\ rd \in Nat /\ wr \in Nat /\ rd <= wr /\ Avail \in Nat /\ Avail > 0
      /\ wr <= Len(StreamOf(script)) /\ DataMax \in Nat \ {0}
  BY DEF RecvInv, Session, Recv, Avail
<1>1. k \in 1 .. DataMax /\ k <= Avail
  BY <1>0, MinOfTwo
<1>2. script \in Scripts /\ script \in Seq(1 .. Base4 - 1) /\ Stream = StreamOf(script)
  BY ScriptsAssumption DEF RecvInv, Session, Stream, StreamOf
<1>3. rd' = rd + k /\ UNCHANGED <<peerVars, heads, again>>
  BY DEF Recv
<1>4. PICK d \in Decoded(rd, k) :
        \/ /\ Incomplete(d, k)
           /\ pc' = "more" /\ timeOut' = Retries
           /\ start' = rd /\ ret' = k /\ frame' = d
           /\ out' = NoOutcome
        \/ ~Incomplete(d, k) /\ Return(Final(d, k), rd, d, k)
  BY DEF Recv
<1> HIDE DEF k
<1>5. d \in [head : Nat, len : Nat] /\ Seen(script, rd, k, d)
  <2>1. k \in Nat \ {0} /\ rd + k <= Len(StreamOf(script))
    <3>1. Len(StreamOf(script)) \in Nat
      <4>1. StreamOf(script) \in Seq(Nat)
        BY <1>2, StreamShape
      <4>2. QED
        BY <4>1
    <3>2. QED
      BY <1>0, <1>1, <3>1 DEF Avail
  <2>2. rd + k <= Len(Stream)
    BY <1>2, <2>1
  <2>3. /\ d \in [head : Nat, len : Nat]
        /\ \A i \in DOMAIN script : rd = FrameAt(i) =>
             d = IF k < HeadLen(script[i]) THEN NoHead
                 ELSE [head |-> HeadLen(script[i]), len |-> script[i]]
    BY <1>0, <1>2, <2>1, <2>2, DecodedShape
  <2>4. \A i : FrameAt(i) = StartOf(script, i)
    BY DEF FrameAt, StartOf
  <2>5. QED
    BY <2>3, <2>4, Zenon DEF Seen
<1>6. rd' \in rd .. wr /\ rd' \in Nat /\ rd <= rd'
  BY <1>0, <1>1, <1>3 DEF Avail
<1>7. CASE /\ Incomplete(d, k)
           /\ pc' = "more" /\ timeOut' = Retries
           /\ start' = rd /\ ret' = k /\ frame' = d
           /\ out' = NoOutcome
  <2>1. Begun(script, rd, d)
    BY <1>0, <1>1, <1>2, <1>5, <1>7, SeenWhole
  <2>2. ret' < frame'.head + frame'.len
    BY <1>7 DEF Incomplete
  <2>3. Whole(script, NoOutcome) /\ Loses(script, NoOutcome, conn = "open")
        /\ NoOutcome \in Outcomes /\ NoOutcome.took = 0
    BY DEF Whole, Loses, NoOutcome, Outcomes
  <2>4. Session' /\ Linking'
    BY <1>3, <1>6, <1>7 DEF RecvInv, Session, Linking, peerVars
  <2>5. script' = script /\ conn' = conn /\ again' \in BOOLEAN
    BY <1>3 DEF peerVars, RecvInv, Calling
  <2>6. Begun(script', start', frame') /\ Whole(script', out')
        /\ Loses(script', out', conn' = "open") /\ out' \in Outcomes /\ out'.took = 0
    BY <1>7, <2>1, <2>3, <2>5
  <2>7. Calling'
    BY <1>0, <1>1, <1>5, <1>6, <1>7, <2>2, <2>5, <2>6 DEF Calling
  <2>8. QED
    BY <2>4, <2>7 DEF RecvInv
<1>8. CASE ~Incomplete(d, k) /\ Return(Final(d, k), rd, d, k)
  <2> DEFINE o == [n |-> Final(d, k), start |-> rd, from |-> rd + d.head, took |-> k]
  <2>1. Whole(script, o) /\ Loses(script, o, conn = "open")
    BY <1>0, <1>1, <1>2, <1>5, <1>8, SeenWhole
  <2>2. Final(d, k) \in Int
    BY <1>1, <1>5 DEF Final
  <2>3. again' \in BOOLEAN
    BY <1>3 DEF RecvInv, Calling
  <2>4. k \in 0 .. DataMax /\ UNCHANGED <<peerVars, heads>>
    BY <1>1, <1>3
  <2>5. QED
    BY <1>0, <1>5, <1>6, <1>8, <2>1, <2>2, <2>3, <2>4, ReturnKeeps
<1>9. QED
  BY <1>4, <1>7, <1>8

\* The first recv() finds nothing.
LEMMA RecvNothingKeeps ==
  ASSUME RecvInv, RecvNothing
  PROVE  RecvInv'
<1> DEFINE o == [n |-> 0, start |-> rd, from |-> rd + NoHead.head, took |-> 0]
<1>1. rd \in Nat /\ rd' \in rd .. wr /\ UNCHANGED <<peerVars, heads>> /\ again' \in BOOLEAN
  BY DEF RecvInv, Session, RecvNothing
<1>2. Return(0, rd, NoHead, 0)
  BY DEF RecvNothing
<1>3. Whole(script, o) /\ Loses(script, o, conn = "open")
  BY DEF Whole, Loses
<1>4. NoHead \in [head : Nat, len : Nat] /\ 0 \in 0 .. DataMax
  BY DEF NoHead
<1>5. QED
  BY <1>1, <1>2, <1>3, <1>4, ReturnKeeps

\* A further piece of a frame.
LEMMA RecvMoreKeeps ==
  ASSUME Base = 256, L7 = 126, RecvInv, RecvMore
  PROVE  RecvInv'
<1> DEFINE k == Min({Avail, DataMax - ret})
<1>0. /\ rd \in Nat /\ wr \in Nat /\ rd <= wr /\ Avail \in Nat
      /\ DataMax \in Nat /\ ret \in Nat /\ ret < DataMax /\ pc = "more"
  BY DEF RecvInv, Session, Calling, RecvMore, Avail
<1>1. k \in Nat /\ k <= Avail /\ ret + k \in 0 .. DataMax
  <2>1. k \in Nat /\ k <= Avail /\ k <= DataMax - ret
    BY <1>0, MinOfTwo
  <2> HIDE DEF k
  <2>2. QED
    BY <1>0, <2>1
<1>2. rd' = rd + k /\ UNCHANGED <<peerVars, heads, again>>
  BY DEF RecvMore
<1>3. \/ /\ ret + k < frame.head + frame.len
         /\ ret' = ret + k
         /\ timeOut' = Retries - 1
         /\ UNCHANGED <<pc, start, frame, out>>
      \/ /\ ret + k >= frame.head + frame.len
         /\ Return(frame.len, start, frame, ret + k)
  BY DEF RecvMore
<1> HIDE DEF k
<1>4. rd' \in rd .. wr /\ rd' \in Nat /\ rd <= rd'
  BY <1>0, <1>1, <1>2 DEF Avail
<1>5. /\ start \in Nat /\ frame \in [head : Nat, len : Nat] /\ again' \in BOOLEAN
      /\ Begun(script, start, frame)
  BY <1>0, <1>2 DEF RecvInv, Calling
<1>6. CASE /\ ret + k < frame.head + frame.len
           /\ ret' = ret + k
           /\ timeOut' = Retries - 1
           /\ UNCHANGED <<pc, start, frame, out>>
  <2>1. Session'
    BY <1>0, <1>2, <1>4 DEF RecvInv, Session, peerVars
  <2>2. Linking'
    <3>1. Retries - 1 \in 0 .. RespondTimeout + Retries + 1
      OBVIOUS
    <3>2. QED
      BY <1>0, <1>2, <1>4, <1>6, <3>1 DEF RecvInv, Linking
  <2>3. Calling'
    BY <1>1, <1>2, <1>4, <1>6 DEF RecvInv, Calling, Session, peerVars
  <2>4. QED
    BY <2>1, <2>2, <2>3 DEF RecvInv
<1>7. CASE /\ ret + k >= frame.head + frame.len
           /\ Return(frame.len, start, frame, ret + k)
  <2> DEFINE o == [n |-> frame.len, start |-> start, from |-> start + frame.head,
                   took |-> ret + k]
  <2>1. \A i \in DOMAIN script : script[i] \in Nat \ {0}
    <3>1. script \in Seq(1 .. Base4 - 1)
      BY ScriptsAssumption DEF RecvInv, Session
    <3>2. \A i \in DOMAIN script : script[i] \in 1 .. Base4 - 1
      BY <3>1, ElementOfSeq, LenProperties
    <3>3. QED
      BY <3>2, Widths
  <2>2. Whole(script, o) /\ Loses(script, o, conn = "open")
    BY <1>5, <1>7, <2>1 DEF Whole, Loses, Begun
  <2>3. frame.len \in Int
    BY <1>5
  <2>4. QED
    BY <1>1, <1>2, <1>4, <1>5, <1>7, <2>2, <2>3, ReturnKeeps
<1>8. QED
  BY <1>3, <1>6, <1>7

\* A further recv() finds nothing, or has no room.
LEMMA RecvMoreNothingKeeps ==
  ASSUME RecvInv, RecvMoreNothing
  PROVE  RecvInv'
<1>0. /\ pc = "more" /\ NothingMore /\ again' \in BOOLEAN
      /\ UNCHANGED <<peerVars, rd, heads>>
      /\ rd \in Nat /\ rd' \in rd .. wr
  BY DEF RecvMoreNothing, RecvInv, Session
<1>1. /\ start \in Nat /\ frame \in [head : Nat, len : Nat] /\ ret \in 0 .. DataMax
      /\ Begun(script, start, frame) /\ ret < frame.head + frame.len
  BY <1>0 DEF RecvInv, Calling, Session
<1>2. CASE /\ again' /\ timeOut > 1
           /\ timeOut' = timeOut - 1
           /\ UNCHANGED <<pc, start, ret, frame, out>>
  <2>1. Session' /\ Linking'
    BY <1>0, <1>2 DEF RecvInv, Session, Linking, peerVars
  <2>2. Calling'
    BY <1>0, <1>2 DEF RecvInv, Calling, Session, peerVars
  <2>3. QED
    BY <2>1, <2>2 DEF RecvInv
<1>3. CASE Return(0, start, frame, ret)
  <2> DEFINE o == [n |-> 0, start |-> start, from |-> start + frame.head, took |-> ret]
  <2>1. Whole(script, o)
    BY DEF Whole
  <2>2. Loses(script, o, conn = "open")
    <3>1. ASSUME NEW i \in DOMAIN script, start = StartOf(script, i)
          PROVE  HeadLen(script[i]) + script[i] > DataMax \/ ~(conn = "open")
      <4>1. frame.head = HeadLen(script[i]) /\ frame.len = script[i]
        BY <1>1, <3>1 DEF Begun
      <4>2. ~(conn = "open") \/ ret = DataMax
        BY <1>0 DEF NothingMore
      <4>3. QED
        BY <1>1, <4>1, <4>2
    <3>2. QED
      BY <3>1 DEF Loses
  <2>3. QED
    BY <1>0, <1>1, <1>3, <2>1, <2>2, ReturnKeeps
<1>4. QED
  BY <1>2, <1>3 DEF RecvMoreNothing

\* The invariant of webSocket_recv, with the real width of a byte, for every
\* session, every size of the buffer and every way to cut the stream.
LEMMA RecvInvariance ==
  ASSUME Base = 256, L7 = 126
  PROVE  Spec => []RecvInv
<1>1. Init => RecvInv
  BY InitRecvInv
<1>2. RecvInv /\ [Next]_vars => RecvInv'
  <2> SUFFICES ASSUME RecvInv, [Next]_vars PROVE RecvInv'
    OBVIOUS
  <2>1. CASE Deliver \/ PeerEnds
    BY <2>1, PeerKeeps
  <2>2. CASE Connect \/ ConnectFails \/ LinkRecv \/ LinkRecvNothing
    BY <2>2, LinkKeeps
  <2>3. CASE Recv
    BY <2>3, RecvKeeps
  <2>4. CASE RecvNothing
    BY <2>4, RecvNothingKeeps
  <2>5. CASE RecvMore
    BY <2>5, RecvMoreKeeps
  <2>6. CASE RecvMoreNothing
    BY <2>6, RecvMoreNothingKeeps
  <2>7. CASE UNCHANGED vars
    BY <2>7 DEF vars, RecvInv, Session, Linking, Calling
  <2>8. QED
    BY <2>1, <2>2, <2>3, <2>4, <2>5, <2>6, <2>7 DEF Next, Client
<1>3. QED
  BY <1>1, <1>2, PTL DEF Spec

\* A call of webSocket_recv that starts on a frame and returns a length returns that
\* frame's payload, whole (websocket-client.cc:1209-1253), for every buffer, every way in
\* which the stream is cut, and every session of results that fit 32 bits with their head:
\* dePackage adds the two in 32 bits (918).
THEOREM AlwaysRecvWhole ==
  ASSUME Base = 256, L7 = 126, \A s \in Scripts : s \in Seq(1 .. Base4 - 11)
  PROVE  Spec => []RecvWhole
<1>1. RecvInv => RecvWhole
  BY RecvInvSays
<1>2. QED
  BY <1>1, RecvInvariance, PTL

\* A frame on which a call of webSocket_recv starts is lost only in the two ways of
\* RecvLoses (websocket-client.cc:1209-1253): its head is cut, or it does not fit the
\* buffer or the peer has ended; for the same sessions.
THEOREM AlwaysRecvLoses ==
  ASSUME Base = 256, L7 = 126, \A s \in Scripts : s \in Seq(1 .. Base4 - 11)
  PROVE  Spec => []RecvLoses
<1>1. RecvInv => RecvLoses
  BY RecvInvSays
<1>2. QED
  BY <1>1, RecvInvariance, PTL
=============================================================================
