------------------------- MODULE WebSocketDataProofs -------------------------
(* The parser of a connection keeps in step with the frames its peer sends, and *)
(* hands their payload on whole, for every session and every way to cut it.     *)
EXTENDS WebSocketData, SequenceLemmas

\* No length that the parser's width cannot hold gets past the test of its high
\* bytes; what happens to one that does is the run websocket_oversize.
Fits ==
  \A s \in Scripts : \A f \in DOMAIN s.frames :
    s.frames[f].ext = 8 /\ ~s.frames[f].hiAll => s.frames[f].len < LenMod

\* The text that ends a session is masked, as RFC 6455 asks of every client frame.
EosMasked ==
  \A s \in Scripts : \A f \in DOMAIN s.frames :
    s.frames[f].op = "text" /\ s.frames[f].len = 3 /\ s.frames[f].eos => s.frames[f].masked

-----------------------------------------------------------------------------
(* Where the frames of a session begin.                                    *)

\* e holds the ends of the first k frames.
EndsAre(e, fr, k) ==
  e = [n \in 0 .. k |-> IF n = 0 THEN HeadLen ELSE e[n - 1] + FrameLen(fr[n])]
StartIn(fr, f) == (CHOOSE e : EndsAre(e, fr, Len(fr)))[f - 1]

\* A frame has two bytes at least.
LEMMA FrameLenType ==
  ASSUME NEW g \in FrameType
  PROVE  HeaderLen(g) \in Nat /\ FrameLen(g) \in Nat /\ FrameLen(g) = HeaderLen(g) + g.len
         /\ HeaderLen(g) = 2 + g.ext + (IF g.masked THEN 4 ELSE 0) /\ FrameLen(g) >= 2
         /\ g.ext \in Nat /\ g.len \in Nat
  BY DEF FrameType, HeaderLen, FrameLen

\* The recursion over the frames is well founded.
LEMMA EndsExist ==
  ASSUME NEW fr
  PROVE  \A k \in Nat : \E e : EndsAre(e, fr, k)
<1> DEFINE S == {k \in Nat : \E e : EndsAre(e, fr, k)}
<1>1. 0 \in S
  <2> DEFINE e == [n \in 0 .. 0 |-> HeadLen]
  <2>1. EndsAre(e, fr, 0)
    BY DEF EndsAre
  <2>2. QED
    BY <2>1
<1>2. ASSUME NEW k \in Nat, k \in S PROVE k + 1 \in S
  <2>1. PICK e : EndsAre(e, fr, k)
    BY <1>2
  <2>2. \A n \in 0 .. k : e[n] = IF n = 0 THEN HeadLen ELSE e[n - 1] + FrameLen(fr[n])
    BY <2>1 DEF EndsAre
  <2> DEFINE g == [n \in 0 .. k + 1 |-> IF n = k + 1 THEN e[k] + FrameLen(fr[n]) ELSE e[n]]
  <2>3. ASSUME NEW n \in 0 .. k + 1
        PROVE  g[n] = IF n = 0 THEN HeadLen ELSE g[n - 1] + FrameLen(fr[n])
    <3>1. CASE n = k + 1
      BY <3>1
    <3>2. CASE n # k + 1
      <4>1. n \in 0 .. k /\ (n # 0 => n - 1 \in 0 .. k + 1 /\ n - 1 # k + 1)
        BY <3>2
      <4>2. QED
        BY <2>2, <3>2, <4>1
    <3>3. QED
      BY <3>1, <3>2
  <2>4. EndsAre(g, fr, k + 1)
    BY <2>3 DEF EndsAre
  <2>5. QED
    BY <2>4
<1> HIDE DEF S
<1>3. \A k \in Nat : k \in S
  BY <1>1, <1>2, SetInduction
<1>4. QED
  BY <1>3 DEF S

\* A frame begins where the one before it ends, the first behind the head.
LEMMA StartStep ==
  ASSUME NEW fr \in Seq(FrameType)
  PROVE  /\ StartIn(fr, 1) = HeadLen
         /\ \A f \in 1 .. Len(fr) : StartIn(fr, f + 1) = StartIn(fr, f) + FrameLen(fr[f])
<1> DEFINE e == CHOOSE x : EndsAre(x, fr, Len(fr))
<1>1. Len(fr) \in Nat
  OBVIOUS
<1>2. EndsAre(e, fr, Len(fr))
  BY <1>1, EndsExist
<1>3. \A f : StartIn(fr, f) = e[f - 1]
  BY DEF StartIn
<1> HIDE DEF e
<1>4. \A n \in 0 .. Len(fr) : e[n] = IF n = 0 THEN HeadLen ELSE e[n - 1] + FrameLen(fr[n])
  BY <1>2 DEF EndsAre
<1>5. StartIn(fr, 1) = HeadLen
  BY <1>1, <1>3, <1>4
<1>6. ASSUME NEW f \in 1 .. Len(fr)
      PROVE  StartIn(fr, f + 1) = StartIn(fr, f) + FrameLen(fr[f])
  <2>1. f \in 0 .. Len(fr) /\ f # 0 /\ f + 1 - 1 = f
    BY <1>1
  <2>2. QED
    BY <1>3, <1>4, <2>1
<1>7. QED
  BY <1>5, <1>6

\* Positions are numbers ...
LEMMA StartType ==
  ASSUME NEW fr \in Seq(FrameType)
  PROVE  \A f \in 1 .. Len(fr) + 1 : StartIn(fr, f) \in Nat
<1> DEFINE S == {n \in Nat : n \in 0 .. Len(fr) => StartIn(fr, n + 1) \in Nat}
<1>1. 0 \in S
  BY StartStep, DataAssumption
<1>2. ASSUME NEW n \in Nat, n \in S PROVE n + 1 \in S
  <2> SUFFICES ASSUME n + 1 \in 0 .. Len(fr) PROVE StartIn(fr, n + 1 + 1) \in Nat
    OBVIOUS
  <2>1. n + 1 \in 1 .. Len(fr) /\ n \in 0 .. Len(fr)
    OBVIOUS
  <2>2. StartIn(fr, n + 1) \in Nat
    BY <1>2, <2>1
  <2>3. FrameLen(fr[n + 1]) \in Nat
    <3>1. fr[n + 1] \in FrameType
      BY <2>1
    <3>2. QED
      BY <3>1, FrameLenType
  <2>4. StartIn(fr, n + 1 + 1) = StartIn(fr, n + 1) + FrameLen(fr[n + 1])
    BY <2>1, StartStep
  <2>5. QED
    BY <2>2, <2>3, <2>4
<1> HIDE DEF S
<1>3. \A n \in Nat : n \in S
  BY <1>1, <1>2, SetInduction
<1>4. ASSUME NEW f \in 1 .. Len(fr) + 1 PROVE StartIn(fr, f) \in Nat
  <2>1. f - 1 \in S /\ f - 1 \in 0 .. Len(fr) /\ f - 1 + 1 = f
    BY <1>3
  <2>2. QED
    BY <2>1 DEF S
<1>5. QED
  BY <1>4

\* ... that grow from frame to frame.
LEMMA StartGrows ==
  ASSUME NEW fr \in Seq(FrameType), NEW f \in 1 .. Len(fr) + 1
  PROVE  \A g \in f + 1 .. Len(fr) + 1 : StartIn(fr, f) < StartIn(fr, g)
<1> DEFINE S == {n \in Nat : f + 1 + n <= Len(fr) + 1 => StartIn(fr, f) < StartIn(fr, f + 1 + n)}
<1>0. Len(fr) \in Nat /\ \A x \in 1 .. Len(fr) + 1 : StartIn(fr, x) \in Nat
  BY StartType
<1>a. ASSUME NEW x \in 1 .. Len(fr) PROVE StartIn(fr, x) < StartIn(fr, x + 1)
  <2>1. fr[x] \in FrameType
    OBVIOUS
  <2>2. FrameLen(fr[x]) \in Nat /\ FrameLen(fr[x]) >= 2
    BY <2>1, FrameLenType
  <2>3. StartIn(fr, x + 1) = StartIn(fr, x) + FrameLen(fr[x])
    BY StartStep
  <2>4. StartIn(fr, x) \in Nat
    BY <1>0
  <2>5. QED
    BY <2>2, <2>3, <2>4
<1>1. 0 \in S
  BY <1>0, <1>a
<1>2. ASSUME NEW n \in Nat, n \in S PROVE n + 1 \in S
  <2> SUFFICES ASSUME f + 1 + (n + 1) <= Len(fr) + 1
               PROVE  StartIn(fr, f) < StartIn(fr, f + 1 + (n + 1))
    OBVIOUS
  <2>1. /\ f + 1 + n \in 1 .. Len(fr) /\ f + 1 + n + 1 = f + 1 + (n + 1)
        /\ f + 1 + (n + 1) \in 1 .. Len(fr) + 1 /\ f + 1 + n \in 1 .. Len(fr) + 1
    BY <1>0
  <2>2. StartIn(fr, f) < StartIn(fr, f + 1 + n)
    BY <1>0, <1>2, <2>1
  <2>3. StartIn(fr, f + 1 + n) < StartIn(fr, f + 1 + (n + 1))
    BY <1>a, <2>1
  <2>4. QED
    BY <1>0, <2>1, <2>2, <2>3
<1> HIDE DEF S
<1>3. \A n \in Nat : n \in S
  BY <1>1, <1>2, SetInduction
<1>4. ASSUME NEW g \in f + 1 .. Len(fr) + 1 PROVE StartIn(fr, f) < StartIn(fr, g)
  <2>1. g - (f + 1) \in S /\ f + 1 + (g - (f + 1)) = g /\ g <= Len(fr) + 1
    BY <1>0, <1>3
  <2>2. QED
    BY <2>1 DEF S
<1>5. QED
  BY <1>4

\* What the proofs below need of the layout: a position is the start of one frame
\* only, and a frame lies within the stream.
LEMMA Layout ==
  ASSUME NEW fr \in Seq(FrameType), NEW m \in 1 .. Len(fr) + 1
  PROVE  /\ StartIn(fr, m) \in Nat
         /\ HeadLen <= StartIn(fr, Len(fr) + 1)
         /\ StartIn(fr, m) <= StartIn(fr, Len(fr) + 1)
         /\ \A f \in 1 .. Len(fr) + 1 : StartIn(fr, f) = StartIn(fr, m) => f = m
         /\ m <= Len(fr) => StartIn(fr, m + 1) = StartIn(fr, m) + FrameLen(fr[m])
<1>0. Len(fr) \in Nat /\ \A x \in 1 .. Len(fr) + 1 : StartIn(fr, x) \in Nat
  BY StartType
<1>1. \A f, g \in 1 .. Len(fr) + 1 : f < g => StartIn(fr, f) < StartIn(fr, g)
  <2> SUFFICES ASSUME NEW f \in 1 .. Len(fr) + 1, NEW g \in 1 .. Len(fr) + 1, f < g
               PROVE  StartIn(fr, f) < StartIn(fr, g)
    OBVIOUS
  <2>1. g \in f + 1 .. Len(fr) + 1
    BY <1>0
  <2>2. QED
    BY <2>1, StartGrows
<1>2. StartIn(fr, m) <= StartIn(fr, Len(fr) + 1) /\ StartIn(fr, 1) <= StartIn(fr, Len(fr) + 1)
  BY <1>0, <1>1
<1>3. \A f \in 1 .. Len(fr) + 1 : StartIn(fr, f) = StartIn(fr, m) => f = m
  BY <1>0, <1>1
<1>4. QED
  BY <1>0, <1>2, <1>3, StartStep

\* The model's positions are these.
LEMMA StartOfIs ==
  /\ \A f : StartOf(f) = StartIn(frames, f)
  /\ StreamLen = StartIn(frames, Len(frames) + 1)
  BY DEF StartOf, StartIn, EndsAre, StreamLen

-----------------------------------------------------------------------------
(* Where the parser is.                                                    *)

PacketStates == {"INIT", "HEAD_126", "HEAD_127", "MASK", "DATA"}
Keys(fr) == {ZeroKey, WildKey} \cup 1 .. Len(fr)
PacketType(fr) == [state : PacketStates, frame : 0 .. Len(fr), len : Nat, key : Keys(fr)]
Buffers == Seq(Nat \X Int)

\* A 64-bit length that is refused.
Refused(g) == g.ext = 8 /\ g.hiAll

\* What has been received of a masked frame m is its payload.
Clear(fr, m, buf) == fr[m].masked => \A k \in 1 .. Len(buf) : buf[k] = <<m, k - 1>>

\* In the middle of frame m.
Inside(fr, m, p, buf, at) ==
  /\ m \in 1 .. Len(fr) /\ p.frame = m
  /\ \/ /\ p.state = "HEAD_126" /\ fr[m].ext = 2
        /\ buf = <<>> /\ at = StartIn(fr, m) + 2
     \/ /\ p.state = "HEAD_127" /\ fr[m].ext = 8
        /\ buf = <<>> /\ at = StartIn(fr, m) + 2
     \/ /\ p.state = "MASK" /\ ~Refused(fr[m])
        /\ buf = <<>> /\ at = StartIn(fr, m) + 2 + fr[m].ext
     \/ /\ p.state = "DATA" /\ ~Refused(fr[m])
        /\ fr[m].masked => p.key = m
        /\ p.len <= fr[m].len /\ Clear(fr, m, buf)
        /\ at = StartIn(fr, m) + HeaderLen(fr[m]) + p.len

\* Before frame m, or at the end of the stream.
Before(fr, m, p, at) == m \in 1 .. Len(fr) + 1 /\ p.state = "INIT" /\ at = StartIn(fr, m)

\* Frame m has just been completed.
Done(fr, m, p, buf, at) ==
  /\ m \in 1 .. Len(fr) /\ p.frame = m /\ p.state = "INIT"
  /\ p.len = fr[m].len /\ Clear(fr, m, buf)
  /\ at = StartIn(fr, m + 1)

\* What is passed from stage to stage, of a call that finds the stream up to w.
Passed(fr, w, s) ==
  /\ s \in [p : PacketType(fr), buf : Buffers, at : Nat, bytes : Nat,
            ret : {"go", "0", "-1", "lost"}]
  /\ s.p.len = Len(s.buf) /\ s.at <= w
  /\ s.ret # "-1" => s.at + s.bytes = w

\* A call that works on frame m: it goes on or waits inside it, waits before it, or
\* refuses it.
Works(fr, m, s) ==
  \/ s.ret \in {"go", "0"} /\ Inside(fr, m, s.p, s.buf, s.at)
  \/ s.ret = "0" /\ Before(fr, m, s.p, s.at) /\ s.p.frame = NoFrame /\ s.buf = <<>>
  \/ s.ret = "-1"

\* PACKET_INIT.
LEMMA Stage0Works ==
  ASSUME frames \in Seq(FrameType), NEW w \in Nat, w <= StreamLen, NEW s,
         Passed(frames, w, s), s.ret = "go", NEW m,
         Before(frames, m, s.p, s.at) \/ Inside(frames, m, s.p, s.buf, s.at)
  PROVE  Passed(frames, w, Stage0(s)) /\ Works(frames, m, Stage0(s))
<1> DEFINE fr == frames
           fresh == [s.p EXCEPT !.frame = NoFrame, !.len = 0]
<1>0. /\ s \in [p : PacketType(fr), buf : Buffers, at : Nat, bytes : Nat,
                ret : {"go", "0", "-1", "lost"}]
      /\ s.at + s.bytes = w /\ Len(fr) \in Nat
  BY DEF Passed
<1>a. s.p \in PacketType(fr) /\ s.buf \in Buffers /\ s.at \in Nat /\ s.bytes \in Nat
  BY <1>0
<1>1. CASE s.p.state # "INIT"
  <2>1. Stage0(s) = s
    BY <1>1 DEF Stage0
  <2>2. QED
    BY <1>1, <2>1 DEF Works, Before
<1>2. CASE s.p.state = "INIT"
  <2>0. Before(fr, m, s.p, s.at)
    BY <1>2 DEF Inside
  <2>1. /\ fresh \in PacketType(fr) /\ fresh.state = "INIT" /\ fresh.frame = NoFrame
        /\ fresh.len = 0
    <3>1. 0 \in 0 .. Len(fr)
      BY <1>0
    <3>2. QED
      BY <1>a, <1>2, <3>1 DEF PacketType, NoFrame
  <2>a. <<>> \in Buffers /\ Len(<<>>) = 0
    BY DEF Buffers
  <2>2. CASE s.bytes < 2
    <3>1. Stage0(s) = [s EXCEPT !.p = fresh, !.buf = <<>>, !.ret = "0"]
      BY <1>2, <2>2 DEF Stage0
    <3> HIDE DEF fresh
    <3>2. QED
      BY <1>0, <2>0, <2>1, <2>a, <3>1 DEF Passed, Works, Before
  <2>3. CASE ~(s.bytes < 2)
    <3>1. m \in 1 .. Len(fr)
      <4>1. m \in 1 .. Len(fr) + 1 /\ s.at = StartIn(fr, m)
        BY <2>0 DEF Before
      <4>2. m # Len(fr) + 1
        BY <1>0, <2>3, <4>1, StartOfIs
      <4>3. QED
        BY <1>0, <4>1, <4>2
    <3>2. StartOf(m) = s.at /\ \A f \in 1 .. Len(fr) : StartOf(f) = s.at => f = m
      <4>1. m \in 1 .. Len(fr) + 1 /\ s.at = StartIn(fr, m)
        BY <2>0 DEF Before
      <4>2. \A f \in 1 .. Len(fr) + 1 : StartIn(fr, f) = StartIn(fr, m) => f = m
        BY <4>1, Layout
      <4>3. QED
        BY <1>0, <4>1, <4>2, StartOfIs
    <3>3. (CHOOSE f \in 1 .. Len(fr) : StartOf(f) = s.at) = m
      BY <3>1, <3>2
    <3> DEFINE next == CASE fr[m].ext = 0 -> "MASK"
                         [] fr[m].ext = 2 -> "HEAD_126"
                         [] fr[m].ext = 8 -> "HEAD_127"
               q == [fresh EXCEPT !.frame = m, !.state = next]
    <3>4. Stage0(s) = [s EXCEPT !.p = q, !.buf = <<>>, !.at = @ + 2, !.bytes = @ - 2]
      BY <1>2, <2>3, <3>1, <3>2, <3>3 DEF Stage0
    <3>5. fr[m] \in FrameType
      BY <3>1
    <3>6. \/ fr[m].ext = 0 /\ next = "MASK"
          \/ fr[m].ext = 2 /\ next = "HEAD_126"
          \/ fr[m].ext = 8 /\ next = "HEAD_127"
      BY <3>5 DEF FrameType
    <3> HIDE DEF next, fresh
    <3>7. q \in PacketType(fr) /\ q.frame = m /\ q.state = next /\ q.len = 0
      <4>1. m \in 0 .. Len(fr) /\ next \in PacketStates
        BY <1>0, <3>1, <3>6 DEF PacketStates
      <4>2. QED
        BY <2>1, <4>1 DEF PacketType
    <3> HIDE DEF q
    <3>8. /\ Stage0(s).p = q /\ Stage0(s).buf = <<>> /\ Stage0(s).at = s.at + 2
          /\ Stage0(s).bytes = s.bytes - 2 /\ Stage0(s).ret = "go"
          /\ Stage0(s) \in [p : PacketType(fr), buf : Buffers, at : Nat, bytes : Nat,
                            ret : {"go", "0", "-1", "lost"}]
      <4>1. s.at + 2 \in Nat /\ s.bytes - 2 \in Nat
        BY <1>a, <2>3
      <4>2. QED
        BY <1>0, <2>a, <3>4, <3>7, <4>1
    <3>9. Passed(fr, w, Stage0(s))
      <4>1. s.at + 2 + (s.bytes - 2) = w /\ s.at + 2 <= w
        BY <1>0, <1>a, <2>3
      <4>2. QED
        BY <2>a, <3>7, <3>8, <4>1 DEF Passed
    <3>10. Inside(fr, m, q, <<>>, s.at + 2)
      <4>1. s.at = StartIn(fr, m) /\ s.at \in Nat
        BY <1>0, <2>0 DEF Before
      <4>2. QED
        BY <3>1, <3>6, <3>7, <4>1 DEF Inside, Refused
    <3>11. QED
      BY <3>8, <3>9, <3>10 DEF Works
  <2>4. QED
    BY <2>2, <2>3
<1>3. QED
  BY <1>1, <1>2

\* PACKET_HEAD_126 and PACKET_HEAD_127.
LEMMA StageExtWorks ==
  ASSUME frames \in Seq(FrameType), NEW w \in Nat, NEW s, Passed(frames, w, s), NEW m,
         Works(frames, m, s)
  PROVE  /\ Passed(frames, w, StageExt(s)) /\ Works(frames, m, StageExt(s))
         /\ StageExt(s).ret = "go" => StageExt(s).p.state \in {"MASK", "DATA"}
<1> DEFINE fr == frames
           g == frames[s.p.frame]
           r == StageExt(s)
<1>0. /\ s \in [p : PacketType(fr), buf : Buffers, at : Nat, bytes : Nat,
                ret : {"go", "0", "-1", "lost"}]
      /\ s.p.len = Len(s.buf) /\ s.at <= w
  BY DEF Passed
<1>1. s.p \in PacketType(fr) /\ s.buf \in Buffers /\ s.at \in Nat /\ s.bytes \in Nat
  BY <1>0
<1>2. CASE s.ret # "go" \/ s.p.state \notin {"HEAD_126", "HEAD_127"}
  <2>1. r = s
    BY <1>2 DEF StageExt
  <2>2. s.ret = "go" => Inside(fr, m, s.p, s.buf, s.at)
    BY DEF Works
  <2>3. s.ret = "go" => s.p.state \in {"MASK", "DATA"}
    BY <1>2, <2>2 DEF Inside
  <2> HIDE DEF r
  <2>4. QED
    BY <2>1, <2>3 DEF r
<1>3. CASE s.ret = "go" /\ s.p.state \in {"HEAD_126", "HEAD_127"}
  <2>1. /\ m \in 1 .. Len(fr) /\ s.p.frame = m /\ g = fr[m] /\ s.buf = <<>>
        /\ s.at = StartIn(fr, m) + 2 /\ Inside(fr, m, s.p, s.buf, s.at)
        /\ s.p.state = "HEAD_126" => g.ext = 2
        /\ s.p.state = "HEAD_127" => g.ext = 8
    BY <1>3 DEF Works, Inside
  <2>2. g \in FrameType /\ g.ext \in Nat /\ g.ext \in {2, 8} /\ g.hiAll \in BOOLEAN
    <3>1. fr[m] \in FrameType
      BY <2>1
    <3>2. g \in FrameType /\ g.ext \in {2, 8}
      BY <1>3, <2>1, <3>1, Zenon
    <3> HIDE DEF g
    <3>3. QED
      BY <3>2 DEF FrameType
  <2>3. s.at + s.bytes = w
    BY <1>3 DEF Passed
  <2>4. CASE s.bytes < g.ext
    <3>1. r = [s EXCEPT !.ret = "0"]
      BY <1>3, <2>4 DEF StageExt
    <3> HIDE DEF r, g
    <3>2. r.p = s.p /\ r.buf = s.buf /\ r.at = s.at /\ r.bytes = s.bytes /\ r.ret = "0"
          /\ r \in [p : PacketType(fr), buf : Buffers, at : Nat, bytes : Nat,
                    ret : {"go", "0", "-1", "lost"}]
      BY <1>0, <3>1
    <3>3. Passed(fr, w, r) /\ Works(fr, m, r)
      BY <1>0, <2>1, <2>3, <3>2 DEF Passed, Works
    <3>4. QED
      BY <3>2, <3>3 DEF r
  <2>5. CASE ~(s.bytes < g.ext) /\ g.ext = 8 /\ g.hiAll
    <3>1. r = [s EXCEPT !.at = @ + 8, !.ret = "-1"]
      BY <1>3, <2>5 DEF StageExt
    <3>a. s.at + 8 \in Nat /\ s.at + 8 <= w
      BY <1>1, <2>3, <2>5
    <3> HIDE DEF r, g
    <3>2. r.p = s.p /\ r.buf = s.buf /\ r.at = s.at + 8 /\ r.ret = "-1"
          /\ r \in [p : PacketType(fr), buf : Buffers, at : Nat, bytes : Nat,
                    ret : {"go", "0", "-1", "lost"}]
      BY <1>0, <3>1, <3>a
    <3>3. Passed(fr, w, r) /\ Works(fr, m, r)
      BY <1>0, <3>2, <3>a DEF Passed, Works
    <3>4. QED
      BY <3>2, <3>3 DEF r
  <2>6. CASE ~(s.bytes < g.ext) /\ ~(g.ext = 8 /\ g.hiAll)
    <3>1. r = [s EXCEPT !.p.state = "MASK", !.at = @ + g.ext, !.bytes = @ - g.ext]
      BY <1>3, <2>6 DEF StageExt
    <3>a. s.at + g.ext \in Nat /\ s.bytes - g.ext \in Nat
          /\ s.at + g.ext + (s.bytes - g.ext) = w /\ s.at + g.ext <= w
      <4>1. \A a, b, e \in Nat : a + b = w /\ ~(b < e) =>
              a + e \in Nat /\ b - e \in Nat /\ a + e + (b - e) = w /\ a + e <= w
        OBVIOUS
      <4>2. QED
        BY <1>1, <2>2, <2>3, <2>6, <4>1, Zenon
    <3>b. ~Refused(fr[m]) /\ s.at + g.ext = StartIn(fr, m) + 2 + fr[m].ext
      BY <2>1, <2>6 DEF Refused
    <3> DEFINE q == [s.p EXCEPT !.state = "MASK"]
    <3>c. q \in PacketType(fr) /\ q.state = "MASK" /\ q.frame = s.p.frame /\ q.len = s.p.len
      BY <1>1 DEF PacketType, PacketStates
    <3> HIDE DEF r, g, q
    <3>2. r.p = q /\ r.buf = s.buf /\ r.at = s.at + g.ext /\ r.bytes = s.bytes - g.ext
          /\ r.ret = "go"
          /\ r \in [p : PacketType(fr), buf : Buffers, at : Nat, bytes : Nat,
                    ret : {"go", "0", "-1", "lost"}]
      <4>1. r = [s EXCEPT !.p = q, !.at = @ + g.ext, !.bytes = @ - g.ext]
        BY <1>0, <3>1 DEF q
      <4>2. QED
        BY <1>0, <1>3, <3>a, <3>c, <4>1
    <3>3. Passed(fr, w, r)
      BY <1>0, <3>2, <3>a, <3>c DEF Passed
    <3>4. Inside(fr, m, r.p, r.buf, r.at)
      BY <2>1, <3>2, <3>b, <3>c DEF Inside
    <3>5. QED
      BY <3>2, <3>3, <3>4, <3>c DEF r, Works
  <2>7. QED
    BY <2>4, <2>5, <2>6
<1>4. QED
  BY <1>2, <1>3

\* PACKET_MASK.
LEMMA StageMaskWorks ==
  ASSUME frames \in Seq(FrameType), NEW w \in Nat, NEW s, Passed(frames, w, s), NEW m,
         Works(frames, m, s), s.ret = "go" => s.p.state \in {"MASK", "DATA"}
  PROVE  /\ Passed(frames, w, StageMask(s)) /\ Works(frames, m, StageMask(s))
         /\ StageMask(s).ret = "go" => StageMask(s).p.state = "DATA"
<1> DEFINE fr == frames
           g == frames[s.p.frame]
           r == StageMask(s)
<1>0. /\ s \in [p : PacketType(fr), buf : Buffers, at : Nat, bytes : Nat,
                ret : {"go", "0", "-1", "lost"}]
      /\ s.p.len = Len(s.buf) /\ s.at <= w
  BY DEF Passed
<1>1. s.p \in PacketType(fr) /\ s.buf \in Buffers /\ s.at \in Nat /\ s.bytes \in Nat
  BY <1>0
<1>2. CASE s.ret # "go" \/ s.p.state # "MASK"
  <2>1. r = s
    BY <1>2 DEF StageMask
  <2>2. s.ret = "go" => s.p.state = "DATA"
    BY <1>2
  <2> HIDE DEF r
  <2>3. QED
    BY <2>1, <2>2 DEF r
<1>3. CASE s.ret = "go" /\ s.p.state = "MASK"
  <2>1. /\ m \in 1 .. Len(fr) /\ s.p.frame = m /\ g = fr[m] /\ s.buf = <<>> /\ ~Refused(fr[m])
        /\ s.at = StartIn(fr, m) + 2 + fr[m].ext /\ Inside(fr, m, s.p, s.buf, s.at)
    BY <1>3 DEF Works, Inside
  <2>2. fr[m] \in FrameType /\ g.masked \in BOOLEAN
    <3>1. fr[m] \in FrameType
      BY <2>1
    <3>2. fr[m].masked \in BOOLEAN
      BY <3>1 DEF FrameType
    <3>3. QED
      BY <2>1, <3>1, <3>2, Zenon
  <2>3. s.at + s.bytes = w /\ s.p.len = 0 /\ Len(<<>>) = 0
    BY <1>0, <1>3, <2>1 DEF Passed
  <2>h. /\ HeaderLen(fr[m]) = 2 + fr[m].ext + (IF fr[m].masked THEN 4 ELSE 0)
        /\ fr[m].ext \in Nat /\ fr[m].len \in Nat /\ StartIn(fr, m) \in Nat
    <3>1. StartIn(fr, m) \in Nat
      <4>1. m \in 1 .. Len(fr) + 1
        BY <2>1
      <4>2. QED
        BY <4>1, StartType
    <3>2. QED
      BY <2>2, <3>1, FrameLenType
  <2>c. Clear(fr, m, <<>>)
    BY DEF Clear
  <2>4. CASE ~g.masked
    <3>1. r = [s EXCEPT !.p.state = "DATA"]
      BY <1>3, <2>4 DEF StageMask
    <3> DEFINE q == [s.p EXCEPT !.state = "DATA"]
    <3>2. q \in PacketType(fr) /\ q.state = "DATA" /\ q.frame = s.p.frame /\ q.len = s.p.len
      BY <1>1 DEF PacketType, PacketStates
    <3>m. ~fr[m].masked
      BY <2>1, <2>4
    <3> HIDE DEF r, g, q
    <3>3. r.p = q /\ r.buf = s.buf /\ r.at = s.at /\ r.bytes = s.bytes /\ r.ret = "go"
          /\ r \in [p : PacketType(fr), buf : Buffers, at : Nat, bytes : Nat,
                    ret : {"go", "0", "-1", "lost"}]
      <4>1. r = [s EXCEPT !.p = q]
        BY <1>0, <3>1 DEF q
      <4> HIDE DEF fr
      <4>2. QED
        BY <1>0, <1>3, <3>2, <4>1
    <3>4. Passed(fr, w, r)
      BY <1>0, <2>3, <3>2, <3>3 DEF Passed
    <3>5. s.at = StartIn(fr, m) + HeaderLen(fr[m]) + 0
      <4> DEFINE a == s.at
                 b == StartIn(fr, m)
                 e == fr[m].ext
                 k == HeaderLen(fr[m])
      <4>1. k = 2 + e + 0 /\ a = b + 2 + e /\ b \in Nat /\ e \in Nat
        BY <2>1, <2>h, <3>m, Zenon
      <4> HIDE DEF a, b, e, k
      <4>2. a = b + k + 0
        BY <4>1
      <4>3. QED
        BY <4>2, Zenon DEF a, b, k
    <3>6. Inside(fr, m, r.p, r.buf, r.at)
      <4>1. r.p.frame = m /\ r.p.state = "DATA" /\ r.p.len = 0 /\ r.buf = <<>>
        BY <2>1, <2>3, <3>2, <3>3, Zenon
      <4>2. r.p.len <= fr[m].len
        BY <2>h, <4>1
      <4>3. r.at = StartIn(fr, m) + HeaderLen(fr[m]) + r.p.len
        BY <3>3, <3>5, <4>1, Zenon
      <4>4. fr[m].masked => r.p.key = m
        BY <3>m
      <4>5. Clear(fr, m, r.buf)
        BY <2>c, <4>1, Zenon
      <4>6. QED
        BY <2>1, <4>1, <4>2, <4>3, <4>4, <4>5, Zenon DEF Inside
    <3>7. QED
      BY <3>2, <3>3, <3>4, <3>6 DEF r, Works
  <2>5. CASE g.masked /\ s.bytes < 4
    <3>1. r = [s EXCEPT !.ret = "0"]
      BY <1>3, <2>5 DEF StageMask
    <3> HIDE DEF r, g
    <3>2. r.p = s.p /\ r.buf = s.buf /\ r.at = s.at /\ r.bytes = s.bytes /\ r.ret = "0"
          /\ r \in [p : PacketType(fr), buf : Buffers, at : Nat, bytes : Nat,
                    ret : {"go", "0", "-1", "lost"}]
      BY <1>0, <3>1
    <3>3. Passed(fr, w, r) /\ Works(fr, m, r)
      BY <1>0, <2>1, <2>3, <3>2 DEF Passed, Works
    <3>4. QED
      BY <3>2, <3>3 DEF r
  <2>6. CASE g.masked /\ ~(s.bytes < 4)
    <3>1. r = [s EXCEPT !.p.state = "DATA", !.p.key = s.p.frame, !.at = @ + 4, !.bytes = @ - 4]
      BY <1>3, <2>6 DEF StageMask
    <3> DEFINE q == [s.p EXCEPT !.state = "DATA", !.key = s.p.frame]
    <3>k. s.p.frame \in Keys(fr)
      BY <2>1 DEF Keys
    <3>2. q \in PacketType(fr) /\ q.state = "DATA" /\ q.frame = s.p.frame /\ q.len = s.p.len
          /\ q.key = s.p.frame
      BY <1>1, <3>k DEF PacketType, PacketStates
    <3>a. s.at + 4 \in Nat /\ s.bytes - 4 \in Nat /\ s.at + 4 + (s.bytes - 4) = w /\ s.at + 4 <= w
      <4> DEFINE a == s.at
                 b == s.bytes
      <4>1. a \in Nat /\ b \in Nat /\ a + b = w /\ ~(b < 4)
        BY <1>1, <2>3, <2>6, Zenon
      <4> HIDE DEF a, b
      <4>2. a + 4 \in Nat /\ b - 4 \in Nat /\ a + 4 + (b - 4) = w /\ a + 4 <= w
        BY <4>1
      <4>3. QED
        BY <4>2, Zenon DEF a, b
    <3>m. fr[m].masked
      BY <2>1, <2>6
    <3> HIDE DEF r, g, q
    <3>3. r.p = q /\ r.buf = s.buf /\ r.at = s.at + 4 /\ r.bytes = s.bytes - 4 /\ r.ret = "go"
          /\ r \in [p : PacketType(fr), buf : Buffers, at : Nat, bytes : Nat,
                    ret : {"go", "0", "-1", "lost"}]
      <4>1. r = [s EXCEPT !.p = q, !.at = @ + 4, !.bytes = @ - 4]
        BY <1>0, <3>1 DEF q
      <4> HIDE DEF fr
      <4>2. QED
        BY <1>0, <1>3, <3>2, <3>a, <4>1
    <3>4. Passed(fr, w, r)
      BY <1>0, <3>2, <3>3, <3>a DEF Passed
    <3>5. s.at + 4 = StartIn(fr, m) + HeaderLen(fr[m]) + 0
      <4> DEFINE a == s.at
                 b == StartIn(fr, m)
                 e == fr[m].ext
                 k == HeaderLen(fr[m])
      <4>1. k = 2 + e + 4 /\ a = b + 2 + e /\ b \in Nat /\ e \in Nat
        BY <2>1, <2>h, <3>m, Zenon
      <4> HIDE DEF a, b, e, k
      <4>2. a + 4 = b + k + 0
        BY <4>1
      <4>3. QED
        BY <4>2, Zenon DEF a, b, k
    <3>6. Inside(fr, m, r.p, r.buf, r.at)
      <4>1. r.p.frame = m /\ r.p.state = "DATA" /\ r.p.len = 0 /\ r.buf = <<>>
        BY <2>1, <2>3, <3>2, <3>3, Zenon
      <4>2. r.p.len <= fr[m].len
        BY <2>h, <4>1
      <4>3. r.at = StartIn(fr, m) + HeaderLen(fr[m]) + r.p.len
        BY <3>3, <3>5, <4>1, Zenon
      <4>4. r.p.key = m
        BY <2>1, <3>2, <3>3, Zenon
      <4>5. Clear(fr, m, r.buf)
        BY <2>c, <4>1, Zenon
      <4>6. QED
        BY <2>1, <4>1, <4>2, <4>3, <4>4, <4>5, Zenon DEF Inside
    <3>7. QED
      BY <3>2, <3>3, <3>4, <3>6 DEF r, Works
  <2>7. QED
    BY <2>2, <2>4, <2>5, <2>6
<1>4. QED
  BY <1>2, <1>3

\* The length that the parser keeps is that of the frame.
LEMMA BodyFits ==
  ASSUME Fits, script \in Scripts, NEW m \in 1 .. Len(frames), ~Refused(frames[m])
  PROVE  BodySize(frames[m]) = frames[m].len
<1> DEFINE g == frames[m]
<1>1. frames \in Seq(FrameType) /\ LenMod \in Nat \ {0}
  BY DataAssumption DEF frames
<1>2. g \in FrameType /\ m \in DOMAIN frames
  BY <1>1
<1>3. g.len \in Nat
  BY <1>2, FrameLenType
<1>4. g.ext = 8 => g.len < LenMod
  <2>1. g.ext = 8 => ~g.hiAll
    BY DEF Refused
  <2>2. QED
    BY <1>2, <2>1, Zenon DEF Fits, frames
<1> HIDE DEF g
<1>5. g.len < LenMod => g.len % LenMod = g.len
  BY <1>1, <1>3
<1>6. QED
  BY <1>4, <1>5 DEF BodySize, g

\* n bytes of the payload of frame m, from position l on, unmasked with key.
Piece(m, l, key, n) == [i \in 1 .. n |-> Xor(m, l + i - 1, key, (l + i - 1) % 4)]

\* A further piece of the payload, unmasked, continues what has been received.
LEMMA ClearGrows ==
  ASSUME NEW m \in 1 .. Len(frames), NEW buf \in Buffers, Clear(frames, m, buf), NEW n \in Nat,
         NEW key, frames[m].masked => key = m
  PROVE  LET z == Cat(buf, Piece(m, Len(buf), key, n)) IN
         z \in Buffers /\ Len(z) = Len(buf) + n /\ Clear(frames, m, z)
<1> DEFINE got == Piece(m, Len(buf), key, n)
<1>0. got = [i \in 1 .. n |-> Xor(m, Len(buf) + i - 1, key, (Len(buf) + i - 1) % 4)]
  BY DEF Piece
<1> HIDE DEF got
<1>1. Len(buf) \in Nat /\ m \in Nat /\ \A i \in 1 .. n : Len(buf) + i - 1 \in Int
  BY DEF Buffers
<1>2. \A i \in 1 .. n : got[i] \in Nat \X Int
  BY <1>0, <1>1 DEF Xor, Junk, NoFrame
<1>3. got \in Buffers /\ Len(got) = n
  BY <1>0, <1>2 DEF Buffers
<1>4. Cat(buf, got) \in Buffers /\ JoinedIn(Cat(buf, got), buf, got)
  BY <1>3, Joined DEF Buffers
<1>5. Len(Cat(buf, got)) = Len(buf) + n
  BY <1>3, <1>4 DEF JoinedIn
<1>6. ASSUME frames[m].masked, NEW k \in 1 .. Len(buf) + n
      PROVE  Cat(buf, got)[k] = <<m, k - 1>>
  <2>1. CASE k <= Len(buf)
    <3>1. k \in 1 .. Len(buf)
      BY <1>1, <2>1
    <3>2. QED
      BY <1>4, <1>6, <3>1 DEF JoinedIn, Clear
  <2>2. CASE k > Len(buf)
    <3> DEFINE i == k - Len(buf)
    <3>1. i \in 1 .. n /\ i \in 1 .. Len(got) /\ Len(buf) + i = k
      BY <1>1, <1>3, <2>2
    <3> HIDE DEF i
    <3>2. Cat(buf, got)[k] = got[i]
      BY <1>4, <3>1 DEF JoinedIn
    <3>3. Len(buf) + i - 1 = k - 1
      BY <3>1
    <3>4. got[i] = Xor(m, Len(buf) + i - 1, key, (Len(buf) + i - 1) % 4)
      BY <1>0, <3>1, Zenon
    <3>5. got[i] = Xor(m, k - 1, key, (k - 1) % 4)
      BY <3>3, <3>4, Zenon
    <3>6. QED
      BY <1>6, <3>2, <3>5, Zenon DEF Xor
  <2>3. QED
    BY <1>1, <2>1, <2>2
<1>7. Clear(frames, m, Cat(buf, got))
  BY <1>5, <1>6 DEF Clear
<1>8. QED
  BY <1>4, <1>5, <1>7 DEF got

\* PACKET_DATA: what is there of the payload, up to its end.
LEMMA StageDataWorks ==
  ASSUME Fits, script \in Scripts, NEW w \in Nat, NEW s, Passed(frames, w, s), NEW m,
         Works(frames, m, s), s.ret = "go" => s.p.state = "DATA"
  PROVE  LET r == StageData(s) IN
         /\ Passed(frames, w, r)
         /\ Works(frames, m, r) \/ (r.ret = "go" /\ Done(frames, m, r.p, r.buf, r.at))
<1> DEFINE fr == frames
           r == StageData(s)
<1>0. /\ s \in [p : PacketType(fr), buf : Buffers, at : Nat, bytes : Nat,
                ret : {"go", "0", "-1", "lost"}]
      /\ s.p.len = Len(s.buf) /\ s.at <= w
  BY DEF Passed
<1>1. s.p \in PacketType(fr) /\ s.buf \in Buffers /\ s.at \in Nat /\ s.bytes \in Nat
  BY <1>0
<1>2. fr \in Seq(FrameType) /\ Len(fr) \in Nat
  <2>1. fr \in Seq(FrameType)
    BY DataAssumption DEF frames
  <2>2. QED
    BY <2>1
<1>3. CASE s.ret # "go"
  <2>1. r = s
    BY <1>3 DEF StageData
  <2> HIDE DEF r
  <2>2. QED
    BY <2>1 DEF r
<1>4. CASE s.ret = "go"
  <2>1. /\ m \in 1 .. Len(fr) /\ s.p.frame = m /\ ~Refused(fr[m]) /\ s.p.state = "DATA"
        /\ fr[m].masked => s.p.key = m
        /\ s.p.len <= fr[m].len /\ Clear(fr, m, s.buf)
        /\ s.at = StartIn(fr, m) + HeaderLen(fr[m]) + s.p.len
    BY <1>4 DEF Works, Inside
  <2>2. s.at + s.bytes = w /\ s.p.len \in Nat
    BY <1>1, <1>4 DEF Passed, PacketType
  <2>3. BodySize(fr[m]) = fr[m].len
    BY <2>1, BodyFits
  <2>4. /\ fr[m].len \in Nat /\ HeaderLen(fr[m]) \in Nat /\ StartIn(fr, m) \in Nat
        /\ StartIn(fr, m + 1) = StartIn(fr, m) + (HeaderLen(fr[m]) + fr[m].len)
    <3>1. fr[m] \in FrameType /\ m \in 1 .. Len(fr) + 1
      BY <1>2, <2>1
    <3>2. fr[m].len \in Nat /\ HeaderLen(fr[m]) \in Nat
          /\ FrameLen(fr[m]) = HeaderLen(fr[m]) + fr[m].len
      BY <3>1, FrameLenType
    <3>3. StartIn(fr, m) \in Nat /\ StartIn(fr, m + 1) = StartIn(fr, m) + FrameLen(fr[m])
      BY <1>2, <2>1, <3>1, StartType, StartStep
    <3>4. QED
      BY <3>2, <3>3
  <2> DEFINE L == fr[m].len
             n == IF s.bytes > L - s.p.len THEN L - s.p.len ELSE s.bytes
             got == [i \in 1 .. n |-> Xor(m, s.p.len + i - 1, s.p.key, (s.p.len + i - 1) % 4)]
             next == IF s.p.len + n = L THEN "INIT" ELSE "DATA"
             q == [s.p EXCEPT !.len = @ + n, !.state = next]
  <2>5. r = [s EXCEPT !.at = @ + n, !.bytes = @ - n, !.buf = @ \o got, !.p.len = @ + n,
                      !.p.state = next]
    BY <1>4, <2>1, <2>3, Zenon DEF StageData
  <2>6. /\ n \in Nat /\ s.p.len + n <= L /\ s.p.len + n \in Nat /\ s.at + n \in Nat
        /\ s.bytes - n \in Nat /\ s.at + n + (s.bytes - n) = w /\ s.at + n <= w
    <3>1. L \in Nat /\ s.p.len <= L
      BY <2>1, <2>4
    <3> HIDE DEF L
    <3>2. n \in Nat /\ s.p.len + n <= L /\ n <= s.bytes
      BY <1>1, <2>2, <3>1
    <3> HIDE DEF n
    <3>3. QED
      BY <1>1, <2>2, <3>1, <3>2
  <2> HIDE DEF n
  <2>7. s.buf \o got \in Buffers /\ Len(s.buf \o got) = s.p.len + n /\ Clear(fr, m, s.buf \o got)
    <3>1. got = Piece(m, Len(s.buf), s.p.key, n)
      BY <1>0 DEF Piece
    <3>2. /\ m \in 1 .. Len(frames) /\ s.buf \in Buffers /\ Clear(frames, m, s.buf)
          /\ n \in Nat /\ (frames[m].masked => s.p.key = m)
      BY <1>1, <2>1, <2>6
    <3> HIDE DEF got
    <3>3. LET z == Cat(s.buf, Piece(m, Len(s.buf), s.p.key, n)) IN
          z \in Buffers /\ Len(z) = Len(s.buf) + n /\ Clear(frames, m, z)
      BY <3>2, ClearGrows
    <3>4. QED
      BY <1>0, <3>1, <3>3 DEF Cat
  <2> HIDE DEF got
  <2>8. next \in PacketStates /\ next = (IF s.p.len + n = L THEN "INIT" ELSE "DATA")
    BY DEF PacketStates
  <2> HIDE DEF next
  <2>9. /\ q \in PacketType(fr) /\ q.len = s.p.len + n /\ q.state = next /\ q.frame = m
        /\ q.key = s.p.key
    BY <1>1, <2>1, <2>6, <2>8 DEF PacketType
  <2>10. r = [s EXCEPT !.at = @ + n, !.bytes = @ - n, !.buf = @ \o got, !.p = q]
    BY <1>0, <2>5
  <2> HIDE DEF q, r
  <2>11. /\ r.p = q /\ r.buf = s.buf \o got /\ r.at = s.at + n /\ r.bytes = s.bytes - n
         /\ r.ret = "go"
         /\ r \in [p : PacketType(fr), buf : Buffers, at : Nat, bytes : Nat,
                   ret : {"go", "0", "-1", "lost"}]
    BY <1>0, <1>4, <2>6, <2>7, <2>9, <2>10
  <2>12. Passed(fr, w, r)
    BY <2>6, <2>7, <2>9, <2>11 DEF Passed
  <2>13. CASE s.p.len + n = L
    <3>1. r.at = StartIn(fr, m + 1)
      <4>1. /\ s.at = StartIn(fr, m) + HeaderLen(fr[m]) + s.p.len
            /\ s.p.len \in Nat /\ n \in Nat /\ StartIn(fr, m) \in Nat /\ HeaderLen(fr[m]) \in Nat
        BY <2>1, <2>2, <2>4, <2>6, Zenon
      <4>2. s.at + n = StartIn(fr, m) + (HeaderLen(fr[m]) + (s.p.len + n))
        BY <4>1
      <4>3. QED
        BY <2>4, <2>11, <2>13, <4>2, Zenon
    <3>2. Done(fr, m, r.p, r.buf, r.at)
      BY <2>1, <2>7, <2>8, <2>9, <2>11, <2>13, <3>1 DEF Done
    <3>3. QED
      BY <2>11, <2>12, <3>2 DEF r
  <2>14. CASE s.p.len + n # L
    <3>1. r.at = StartIn(fr, m) + HeaderLen(fr[m]) + (s.p.len + n)
      <4>1. /\ s.at = StartIn(fr, m) + HeaderLen(fr[m]) + s.p.len
            /\ s.p.len \in Nat /\ n \in Nat /\ StartIn(fr, m) \in Nat /\ HeaderLen(fr[m]) \in Nat
        BY <2>1, <2>2, <2>4, <2>6, Zenon
      <4>2. s.at + n = StartIn(fr, m) + HeaderLen(fr[m]) + (s.p.len + n)
        BY <4>1
      <4>3. QED
        BY <2>11, <4>2, Zenon
    <3>2. Inside(fr, m, r.p, r.buf, r.at)
      BY <2>1, <2>6, <2>7, <2>8, <2>9, <2>11, <2>14, <3>1 DEF Inside
    <3>3. QED
      BY <2>11, <2>12, <3>2 DEF r, Works
  <2>15. QED
    BY <2>13, <2>14
<1>5. QED
  BY <1>3, <1>4

\* A call of readAndParsePacket: where the parser was, and where it is after it.
LEMMA ParserWorks ==
  ASSUME Fits, script \in Scripts, NEW m,
         wr \in 0 .. StreamLen, rd \in 0 .. wr,
         packet \in PacketType(frames), data \in Buffers, packet.len = Len(data),
         Before(frames, m, packet, rd) \/ Inside(frames, m, packet, data, rd),
         NEW s \in readAndParsePacket
  PROVE  /\ Passed(frames, wr, s)
         /\ Works(frames, m, s) \/ (s.ret = "go" /\ Done(frames, m, s.p, s.buf, s.at))
<1> DEFINE s0 == [p |-> packet, buf |-> data, at |-> rd, bytes |-> wr - rd, ret |-> "go"]
           s1 == Stage0(s0)
           s2 == StageExt(s1)
           s3 == StageMask(s2)
<1>1. s = StageData(s3)
  BY DEF readAndParsePacket
<1>2. frames \in Seq(FrameType)
  BY DataAssumption DEF frames
<1>3. wr \in Nat /\ wr <= StreamLen /\ rd \in Nat /\ wr - rd \in Nat /\ rd + (wr - rd) = wr
      /\ rd <= wr
  <2>1. StreamLen \in Nat
    BY <1>2, StartOfIs, StartType
  <2>2. QED
    BY <2>1
<1>4. Passed(frames, wr, s0) /\ s0.ret = "go"
      /\ (Before(frames, m, s0.p, s0.at) \/ Inside(frames, m, s0.p, s0.buf, s0.at))
  BY <1>3 DEF Passed
<1> HIDE DEF s0
<1>5. Passed(frames, wr, s1) /\ Works(frames, m, s1)
  BY <1>2, <1>3, <1>4, Stage0Works
<1> HIDE DEF s1
<1>6. Passed(frames, wr, s2) /\ Works(frames, m, s2)
      /\ (s2.ret = "go" => s2.p.state \in {"MASK", "DATA"})
  BY <1>2, <1>3, <1>5, StageExtWorks
<1> HIDE DEF s2
<1>7. Passed(frames, wr, s3) /\ Works(frames, m, s3) /\ (s3.ret = "go" => s3.p.state = "DATA")
  BY <1>2, <1>3, <1>6, StageMaskWorks
<1> HIDE DEF s3
<1>8. QED
  BY <1>1, <1>3, <1>7, StageDataWorks

-----------------------------------------------------------------------------
(* What the decoder has been given.                                        *)

\* The frames up to the n-th that carry something.
WantedIn(fr, n) == FlattenSeq([f \in 1 .. n |-> IF Carries(fr[f]) THEN <<f>> ELSE <<>>])

\* The payload of frame f.
PayloadIn(fr, f) == [k \in 1 .. fr[f].len |-> <<f, k - 1>>]

\* rec holds what the frames before the m-th carry.
Got(fr, m, rec) ==
  /\ rec \in Seq(Buffers) /\ Len(rec) = Len(WantedIn(fr, m - 1))
  /\ \A k \in 1 .. Len(rec) :
       LET f == WantedIn(fr, m - 1)[k] IN fr[f].masked => rec[k] = PayloadIn(fr, f)

\* The model's operators are these.
LEMMA WantedIs ==
  /\ \A n : Wanted(n) = WantedIn(frames, n)
  /\ \A f : Payload(f) = PayloadIn(frames, f)
  BY DEF Wanted, WantedIn, Payload, PayloadIn

\* One more frame adds itself, if it carries something.
LEMMA WantedStep ==
  ASSUME NEW fr \in Seq(FrameType)
  PROVE  /\ WantedIn(fr, 0) = <<>>
         /\ \A n \in Nat : WantedIn(fr, n) \in Seq(Nat)
         /\ \A n \in Nat : WantedIn(fr, n + 1) =
              IF Carries(fr[n + 1]) THEN Append(WantedIn(fr, n), n + 1) ELSE WantedIn(fr, n)
<1> DEFINE one(f) == IF Carries(fr[f]) THEN <<f>> ELSE <<>>
           parts(n) == [f \in 1 .. n |-> one(f)]
<1>1. \A f \in Nat : one(f) \in Seq(Nat)
  OBVIOUS
<1>2. \A n : WantedIn(fr, n) = FlattenSeq(parts(n))
  BY DEF WantedIn
<1>3. \A n \in Nat : parts(n) \in Seq(Seq(Nat))
  <2> SUFFICES ASSUME NEW n \in Nat PROVE parts(n) \in Seq(Seq(Nat))
    OBVIOUS
  <2> HIDE DEF one
  <2>1. \A f \in 1 .. n : one(f) \in Seq(Nat)
    BY <1>1
  <2>2. QED
    BY <2>1
<1>4. \A n \in Nat : parts(n + 1) = Append(parts(n), one(n + 1))
  <2> SUFFICES ASSUME NEW n \in Nat PROVE parts(n + 1) = Append(parts(n), one(n + 1))
    OBVIOUS
  <2> HIDE DEF one
  <2>1. Len(parts(n)) = n
    OBVIOUS
  <2>2. QED
    BY <2>1
<1>5. parts(0) = <<>>
  OBVIOUS
<1> HIDE DEF parts
<1>6. WantedIn(fr, 0) = <<>>
  BY <1>2, <1>5, FlattenEmpty
<1>7. \A n \in Nat : WantedIn(fr, n) \in Seq(Nat)
  BY <1>2, <1>3, FlattenType
<1>8. ASSUME NEW n \in Nat
      PROVE  WantedIn(fr, n + 1) =
               IF Carries(fr[n + 1]) THEN Append(WantedIn(fr, n), n + 1) ELSE WantedIn(fr, n)
  <2>1. one(n + 1) \in Seq(Nat) /\ parts(n) \in Seq(Seq(Nat))
    BY <1>1, <1>3
  <2>2. WantedIn(fr, n + 1) = WantedIn(fr, n) \o one(n + 1)
    <3> HIDE DEF one
    <3>1. FlattenSeq(Append(parts(n), one(n + 1))) = FlattenSeq(parts(n)) \o one(n + 1)
      BY <2>1, FlattenAppend
    <3>2. QED
      BY <1>2, <1>4, <3>1
  <2>3. WantedIn(fr, n) \in Seq(Nat)
    BY <1>7
  <2>4. CASE Carries(fr[n + 1])
    BY <2>2, <2>3, <2>4
  <2>5. CASE ~Carries(fr[n + 1])
    BY <2>2, <2>3, <2>5
  <2>6. QED
    BY <2>4, <2>5
<1>9. QED
  BY <1>6, <1>7, <1>8

\* a begins b.
Begins(a, b) == Len(a) <= Len(b) /\ \A k \in 1 .. Len(a) : a[k] = b[k]

\* What is wanted up to a frame begins what is wanted of all.
LEMMA WantedBegins ==
  ASSUME NEW fr \in Seq(FrameType), NEW n \in 0 .. Len(fr)
  PROVE  Begins(WantedIn(fr, n), WantedIn(fr, Len(fr)))
<1>0. Len(fr) \in Nat /\ n \in Nat
  OBVIOUS
<1> DEFINE S == {d \in Nat : Begins(WantedIn(fr, n), WantedIn(fr, n + d))}
<1>1. 0 \in S
  <2>1. WantedIn(fr, n) \in Seq(Nat) /\ n + 0 = n
    BY <1>0, WantedStep
  <2>2. QED
    BY <2>1 DEF Begins
<1>2. ASSUME NEW d \in Nat, d \in S PROVE d + 1 \in S
  <2> DEFINE a == WantedIn(fr, n)
             b == WantedIn(fr, n + d)
             c == WantedIn(fr, n + (d + 1))
  <2>1. n + d \in Nat /\ n + (d + 1) = n + d + 1
    BY <1>0
  <2>2. a \in Seq(Nat) /\ b \in Seq(Nat) /\ (c = Append(b, n + d + 1) \/ c = b)
    BY <1>0, <2>1, WantedStep
  <2>3. Begins(a, b)
    BY <1>2
  <2> HIDE DEF a, b, c
  <2>4. Begins(a, c)
    <3>1. CASE c = b
      BY <2>3, <3>1
    <3>2. CASE c = Append(b, n + d + 1)
      <4>1. /\ Len(a) \in Nat /\ Len(b) \in Nat /\ Len(c) = Len(b) + 1
            /\ \A k \in 1 .. Len(b) : c[k] = b[k]
        BY <2>1, <2>2, <3>2
      <4>2. QED
        BY <2>3, <4>1 DEF Begins
    <3>3. QED
      BY <2>2, <3>1, <3>2
  <2>5. QED
    BY <2>4 DEF a, c
<1> HIDE DEF S
<1>3. \A d \in Nat : d \in S
  BY <1>1, <1>2, SetInduction
<1>4. Len(fr) - n \in S /\ n + (Len(fr) - n) = Len(fr)
  BY <1>0, <1>3
<1>5. QED
  BY <1>4 DEF S

\* A frame that has been completed and passed on, if it carries something.
LEMMA GotStep ==
  ASSUME NEW fr \in Seq(FrameType), NEW m \in 1 .. Len(fr), NEW rec, Got(fr, m, rec)
  PROVE  /\ ~Carries(fr[m]) => Got(fr, m + 1, rec)
         /\ \A buf \in Buffers : Carries(fr[m]) /\ Len(buf) = fr[m].len /\ Clear(fr, m, buf)
              => Got(fr, m + 1, Append(rec, buf))
<1> DEFINE a == WantedIn(fr, m - 1)
           b == WantedIn(fr, m + 1 - 1)
<1>0. m - 1 \in Nat /\ m - 1 + 1 = m /\ m + 1 - 1 = m /\ m \in Nat
  OBVIOUS
<1>1. a \in Seq(Nat) /\ b = IF Carries(fr[m]) THEN Append(a, m) ELSE a
  BY <1>0, WantedStep
<1>2. /\ rec \in Seq(Buffers) /\ Len(rec) = Len(a)
      /\ \A k \in 1 .. Len(rec) : fr[a[k]].masked => rec[k] = PayloadIn(fr, a[k])
  BY DEF Got
<1> HIDE DEF a, b
<1>3. ASSUME ~Carries(fr[m]) PROVE Got(fr, m + 1, rec)
  <2>1. b = a
    BY <1>1, <1>3
  <2>2. QED
    BY <1>2, <2>1 DEF Got, a, b
<1>4. ASSUME NEW buf \in Buffers, Carries(fr[m]), Len(buf) = fr[m].len, Clear(fr, m, buf)
      PROVE  Got(fr, m + 1, Append(rec, buf))
  <2>1. b = Append(a, m)
    BY <1>1, <1>4
  <2>2. fr[m].masked => buf = PayloadIn(fr, m)
    <3> SUFFICES ASSUME fr[m].masked PROVE buf = PayloadIn(fr, m)
      OBVIOUS
    <3>1. \A k \in 1 .. Len(buf) : buf[k] = <<m, k - 1>>
      BY <1>4 DEF Clear
    <3>2. buf = [k \in 1 .. Len(buf) |-> <<m, k - 1>>]
      <4>1. buf \in [1 .. Len(buf) -> Nat \X Int]
        BY DEF Buffers
      <4>2. QED
        BY <3>1, <4>1
    <3>3. QED
      BY <1>4, <3>2 DEF PayloadIn
  <2> DEFINE r == Append(rec, buf)
  <2>3. r \in Seq(Buffers) /\ Len(r) = Len(rec) + 1 /\ r[Len(rec) + 1] = buf
        /\ \A k \in 1 .. Len(rec) : r[k] = rec[k]
    BY <1>2
  <2>4. Len(b) = Len(a) + 1 /\ b[Len(a) + 1] = m /\ \A k \in 1 .. Len(a) : b[k] = a[k]
    BY <1>0, <1>1, <2>1
  <2> HIDE DEF r
  <2>5. ASSUME NEW k \in 1 .. Len(r), fr[b[k]].masked PROVE r[k] = PayloadIn(fr, b[k])
    <3>1. CASE k = Len(rec) + 1
      <4>1. b[k] = m /\ r[k] = buf
        BY <1>2, <2>3, <2>4, <3>1
      <4>2. QED
        BY <2>2, <2>5, <4>1
    <3>2. CASE k # Len(rec) + 1
      <4>1. k \in 1 .. Len(rec) /\ k \in 1 .. Len(a)
        BY <1>2, <2>3, <3>2
      <4>2. QED
        BY <1>2, <2>3, <2>4, <2>5, <4>1
    <3>3. QED
      BY <3>1, <3>2
  <2>6. Len(r) = Len(b)
    BY <1>2, <2>3, <2>4
  <2>7. Got(fr, m + 1, r)
    <3>1. b = WantedIn(fr, m + 1 - 1)
      BY Zenon DEF b
    <3>2. QED
      BY <2>3, <2>5, <2>6, <3>1 DEF Got
  <2>8. QED
    BY <2>7, Zenon DEF r
<1>5. QED
  BY <1>3, <1>4

-----------------------------------------------------------------------------
(* The invariant of a connection.                                          *)

Types ==
  /\ script \in Scripts
  /\ wr \in 0 .. StartIn(frames, Len(frames) + 1) /\ rd \in 0 .. wr
  /\ fin \in BOOLEAN /\ rst \in BOOLEAN /\ sockErr \in BOOLEAN /\ killed \in BOOLEAN
  /\ ev \in {"none", "in", "err"}
  /\ state \in {"HEAD", "DATA", "CLOSE", "ERROR"}
  /\ packet \in PacketType(frames) /\ data \in Buffers /\ packet.len = Len(data)
  /\ reply \in {"none", "101", "400", "middle", "final"}
  /\ insync = TRUE

\* The last thing sent, in the states in which more may be sent.
Replies ==
  /\ state = "HEAD" => reply = "none"
  /\ state = "DATA" => reply \in {"101", "middle"}

\* The session has come to frame m: the decoder has what the frames before it carry,
\* none of which ends the session if those that should are masked, and the parser is
\* before it or inside it.
Reached(fr, m, st, rec, p, buf, at) ==
  /\ m \in 1 .. Len(fr) + 1 /\ Got(fr, m, rec)
  /\ EosMasked => \A f \in 1 .. m - 1 : ~Ends(fr[f])
  /\ st = "HEAD" => m = 1 /\ p.state = "INIT"
  /\ st = "DATA" => Before(fr, m, p, at) \/ Inside(fr, m, p, buf, at)
  /\ st = "CLOSE" => m <= Len(fr) /\ Ends(fr[m])

DataInv ==
  /\ Types /\ Replies
  /\ \E m \in 1 .. Len(frames) + 1 : Reached(frames, m, state, received, packet, data, rd)

\* The frames of a session.
LEMMA FramesType ==
  ASSUME script \in Scripts
  PROVE  frames \in Seq(FrameType) /\ Len(frames) \in Nat /\ script.headOK \in BOOLEAN
<1>1. frames \in Seq(FrameType) /\ script.headOK \in BOOLEAN
  BY DataAssumption DEF frames
<1>2. QED
  BY <1>1

\* The constructor.
LEMMA InitData == Init => DataInv
<1> SUFFICES ASSUME Init PROVE DataInv
  OBVIOUS
<1>1. frames \in Seq(FrameType) /\ Len(frames) \in Nat
  BY FramesType DEF Init
<1>2. 1 \in 1 .. Len(frames) + 1 /\ 0 \in 0 .. Len(frames) /\ Len(frames) + 1 \in 1 .. Len(frames) + 1
  BY <1>1
<1>3. StartIn(frames, Len(frames) + 1) \in Nat
  BY <1>1, <1>2, StartType
<1>4. packet \in PacketType(frames) /\ packet.state = "INIT" /\ packet.len = 0
  BY <1>2 DEF Init, PacketType, PacketStates, Keys, NoFrame
<1>5. data \in Buffers /\ Len(data) = 0
  BY DEF Init, Buffers
<1>6. Types
  <2>1. wr \in 0 .. StartIn(frames, Len(frames) + 1) /\ rd \in 0 .. wr
    BY <1>3 DEF Init
  <2>2. packet.len = Len(data)
    BY <1>4, <1>5, Zenon
  <2>3. QED
    BY <1>4, <1>5, <2>1, <2>2, Zenon DEF Init, Types
<1>7. Got(frames, 1, received)
  <2>1. WantedIn(frames, 1 - 1) = <<>>
    BY <1>1, WantedStep
  <2>2. received = <<>> /\ received \in Seq(Buffers) /\ Len(received) = 0
    BY DEF Init
  <2>3. QED
    BY <2>1, <2>2 DEF Got
<1>8. Reached(frames, 1, state, received, packet, data, rd)
  BY <1>2, <1>4, <1>7 DEF Init, Reached
<1>9. QED
  BY <1>2, <1>6, <1>8 DEF Init, DataInv, Replies

\* Steps that leave the session and the parser alone.
LEMMA OtherSteps ==
  ASSUME DataInv, Deliver \/ PeerCloses \/ PeerResets \/ Poll \/ HandleError
  PROVE  DataInv'
<1>1. script' = script /\ frames' = frames /\ UNCHANGED <<rd, state, packet, data, received, reply, insync, killed>>
  BY DEF Deliver, PeerCloses, PeerResets, Poll, HandleError, peerVars, frames
<1>2. wr' \in 0 .. StartIn(frames, Len(frames) + 1) /\ rd \in 0 .. wr'
  <2>1. CASE wr' = wr
    BY <2>1 DEF DataInv, Types
  <2>2. CASE Deliver
    <3>1. frames \in Seq(FrameType) /\ Len(frames) \in Nat
      BY FramesType DEF DataInv, Types
    <3>2. 1 \in 1 .. Len(frames) + 1
      BY <3>1
    <3> DEFINE z == StartIn(frames, Len(frames) + 1)
    <3>3. HeadLen \in Nat /\ HeadLen <= z /\ z \in Nat
      <4>1. Len(frames) + 1 \in 1 .. Len(frames) + 1
        BY <3>1
      <4>2. QED
        BY <3>1, <3>2, <4>1, Layout, StartType, DataAssumption
    <3>4. StreamLen = z
      BY StartOfIs
    <3>5. wr \in 0 .. z /\ rd \in 0 .. wr
      BY DEF DataInv, Types
    <3> HIDE DEF z
    <3>6. wr' \in (wr + 1) .. HeadLen \/ wr' \in (wr + 1) .. z
      BY <2>2, <3>4 DEF Deliver
    <3>7. wr' \in 0 .. z /\ rd \in 0 .. wr'
      BY <3>3, <3>5, <3>6
    <3>8. QED
      BY <3>7 DEF z
  <2>3. QED
    BY <2>1, <2>2 DEF PeerCloses, PeerResets, Poll, HandleError, peerVars
<1>3. /\ fin' \in BOOLEAN /\ rst' \in BOOLEAN /\ sockErr' \in BOOLEAN
      /\ ev' \in {"none", "in", "err"}
  BY DEF DataInv, Types, Deliver, PeerCloses, PeerResets, Poll, HandleError, peerVars
<1>4. Types'
  BY <1>1, <1>2, <1>3 DEF DataInv, Types
<1>5. QED
  BY <1>1, <1>4 DEF DataInv, Replies

\* The handlers of the head.
LEMMA HeadSteps ==
  ASSUME DataInv, HandleHead \/ HandleHeadEof \/ HandleHeadReset \/ HandleHeadLostPeer
  PROVE  DataInv'
<1>1. /\ script' = script /\ frames' = frames /\ state = "HEAD" /\ rd' = wr /\ ev' = "none"
      /\ UNCHANGED <<wr, packet, data, received, insync>>
  BY DEF HandleHead, HandleHeadEof, HandleHeadReset, HandleHeadLostPeer, peerVars, frames
<1>2. /\ fin' \in BOOLEAN /\ rst' \in BOOLEAN /\ sockErr' \in BOOLEAN /\ killed' \in BOOLEAN
      /\ reply' \in {"none", "101", "400", "middle", "final"}
  BY DEF DataInv, Types, HandleHead, HandleHeadEof, HandleHeadReset, HandleHeadLostPeer,
         peerVars, Write, WriteKills
<1>3. state' = "ERROR" \/ (state' = "DATA" /\ wr = HeadLen /\ reply' = "101")
  BY DEF DataInv, Types, HandleHead, HandleHeadEof, HandleHeadReset, HandleHeadLostPeer, Write
<1>4. Types'
  <2>1. wr \in 0 .. StartIn(frames, Len(frames) + 1) /\ wr \in 0 .. wr
    <3>1. frames \in Seq(FrameType) /\ Len(frames) \in Nat
      BY FramesType DEF DataInv, Types
    <3>2. Len(frames) + 1 \in 1 .. Len(frames) + 1
      BY <3>1
    <3>3. StartIn(frames, Len(frames) + 1) \in Nat
      BY <3>1, <3>2, StartType
    <3>4. QED
      BY <3>3 DEF DataInv, Types
  <2>2. QED
    BY <1>1, <1>2, <1>3, <2>1 DEF DataInv, Types
<1>5. PICK m \in 1 .. Len(frames) + 1 : Reached(frames, m, state, received, packet, data, rd)
  BY DEF DataInv
<1>6. Before(frames, m, packet, HeadLen)
  <2>1. m = 1 /\ packet.state = "INIT"
    BY <1>1, <1>5 DEF Reached
  <2>2. frames \in Seq(FrameType)
    BY FramesType DEF DataInv, Types
  <2>3. StartIn(frames, 1) = HeadLen
    BY <2>2, StartStep
  <2>4. QED
    BY <2>1, <2>3 DEF Before
<1>7. Reached(frames, m, state', received, packet, data, wr)
  BY <1>3, <1>5, <1>6 DEF Reached
<1>8. QED
  BY <1>1, <1>3, <1>4, <1>7 DEF DataInv, Replies

\* What a frame that has been completed and is not the end of the session does to what
\* has been reached.
LEMMA NextFrame ==
  ASSUME NEW fr \in Seq(FrameType), NEW m, NEW rec, NEW p, NEW buf \in Buffers, NEW at,
         p.len = Len(buf), Reached(fr, m, "DATA", rec, packet, data, rd), Done(fr, m, p, buf, at),
         EosMasked => ~Ends(fr[m]), NEW new,
         new = IF Carries(fr[m]) THEN Append(rec, buf) ELSE rec
  PROVE  m + 1 \in 1 .. Len(fr) + 1 /\ Reached(fr, m + 1, "DATA", new, p, buf, at)
<1>1. m \in 1 .. Len(fr) /\ p.state = "INIT" /\ p.len = fr[m].len /\ Clear(fr, m, buf)
      /\ at = StartIn(fr, m + 1)
  BY DEF Done
<1>2. Got(fr, m, rec) /\ (EosMasked => \A f \in 1 .. m - 1 : ~Ends(fr[f]))
  BY DEF Reached
<1>3. m + 1 \in 1 .. Len(fr) + 1 /\ \A f \in 1 .. m + 1 - 1 : f = m \/ f \in 1 .. m - 1
  BY <1>1
<1>4. Got(fr, m + 1, new)
  BY <1>1, <1>2, GotStep
<1>5. EosMasked => \A f \in 1 .. m + 1 - 1 : ~Ends(fr[f])
  BY <1>2, <1>3
<1>6. Before(fr, m + 1, p, at)
  BY <1>1, <1>3 DEF Before
<1>7. QED
  BY <1>3, <1>4, <1>5, <1>6 DEF Reached

\* An event of the connection after the upgrade: a call of the parser and what follows.
LEMMA DataStep ==
  ASSUME Fits, DataInv, HandleData
  PROVE  DataInv'
<1>0. /\ script' = script /\ frames' = frames /\ state = "DATA" /\ ev' = "none"
      /\ UNCHANGED <<wr, fin, rst>>
  BY DEF HandleData, peerVars, frames
<1>1. frames \in Seq(FrameType) /\ Len(frames) \in Nat /\ script \in Scripts
  BY FramesType DEF DataInv, Types
<1>2. PICK m \in 1 .. Len(frames) + 1 : Reached(frames, m, state, received, packet, data, rd)
  BY DEF DataInv
<1>3. PICK s \in readAndParsePacket :
        /\ rd' = s.at /\ packet' = s.p /\ data' = s.buf /\ insync' = (s.ret # "lost")
        /\ CASE s.ret = "lost" ->
                  UNCHANGED <<state, received, reply, killed, sockErr>>
             [] s.ret = "-1" ->
                  /\ state' = "ERROR"
                  /\ UNCHANGED <<received, reply, killed, sockErr>>
             [] s.ret \in {"go", "0"} /\ (IsClose(s.p) \/ IsEos(s.p, s.buf)) ->
                  /\ state' = "CLOSE"
                  /\ Write("final")
                  /\ UNCHANGED received
             [] s.ret \in {"go", "0"} /\ Complete(s.p)
                  /\ ~IsClose(s.p) /\ ~IsShortText(s.p) ->
                  /\ received' = IF s.buf = <<>> THEN received
                                 ELSE Append(received, s.buf)
                  /\ Write("middle")
                  /\ UNCHANGED state
             [] OTHER -> UNCHANGED <<state, received, reply, killed, sockErr>>
  BY DEF HandleData
<1>4. /\ Passed(frames, wr, s)
      /\ Works(frames, m, s) \/ (s.ret = "go" /\ Done(frames, m, s.p, s.buf, s.at))
  <2>1. Before(frames, m, packet, rd) \/ Inside(frames, m, packet, data, rd)
    BY <1>0, <1>2 DEF Reached
  <2>2. wr \in 0 .. StreamLen /\ rd \in 0 .. wr
    BY StartOfIs DEF DataInv, Types
  <2>3. packet \in PacketType(frames) /\ data \in Buffers /\ packet.len = Len(data)
    BY DEF DataInv, Types
  <2>4. QED
    BY <1>1, <2>1, <2>2, <2>3, ParserWorks
<1>5. s.ret \in {"go", "0", "-1"}
  BY <1>4 DEF Works
<1> DEFINE ends == IsClose(s.p) \/ IsEos(s.p, s.buf)
           gives == Complete(s.p) /\ ~IsClose(s.p) /\ ~IsShortText(s.p)
\* The outcomes of the handler.
<1>6. \/ s.ret = "-1" /\ state' = "ERROR" /\ UNCHANGED <<received, reply, killed, sockErr>>
      \/ s.ret # "-1" /\ ends /\ state' = "CLOSE" /\ Write("final") /\ received' = received
      \/ /\ s.ret # "-1" /\ ~ends /\ gives /\ state' = state /\ Write("middle")
         /\ received' = IF s.buf = <<>> THEN received ELSE Append(received, s.buf)
      \/ /\ s.ret # "-1" /\ ~ends /\ ~gives
         /\ UNCHANGED <<state, received, reply, killed, sockErr>>
  <2>1. CASE s.ret = "-1"
    BY <1>3, <2>1
  <2>2. CASE s.ret \in {"go", "0"} /\ ends
    <3>1. s.ret # "lost" /\ s.ret # "-1" /\ ~gives
      BY <2>2 DEF IsEos
    <3>2. state' = "CLOSE" /\ Write("final") /\ received' = received
      BY <1>3, <2>2, <3>1
    <3>3. QED
      BY <2>2, <3>1, <3>2
  <2>3. CASE s.ret \in {"go", "0"} /\ ~ends /\ gives
    BY <1>3, <2>3
  <2>4. CASE s.ret \in {"go", "0"} /\ ~ends /\ ~gives
    BY <1>3, <2>4
  <2>5. QED
    BY <1>5, <2>1, <2>2, <2>3, <2>4
<1>7. Types'
  <2>1. /\ s.p \in PacketType(frames) /\ s.buf \in Buffers /\ s.at \in 0 .. wr
        /\ s.p.len = Len(s.buf)
    <3>1. wr \in Nat
      <4>1. Len(frames) + 1 \in 1 .. Len(frames) + 1
        BY <1>1
      <4>2. StartIn(frames, Len(frames) + 1) \in Nat
        BY <1>1, <4>1, StartType
      <4>3. QED
        BY <4>2 DEF DataInv, Types
    <3>2. QED
      BY <1>4, <3>1 DEF Passed
  <2>2. /\ state' \in {"HEAD", "DATA", "CLOSE", "ERROR"}
        /\ sockErr' \in BOOLEAN /\ killed' \in BOOLEAN
        /\ reply' \in {"none", "101", "400", "middle", "final"}
    BY <1>0, <1>6 DEF Write, WriteKills, DataInv, Types
  <2>3. insync' = TRUE
    BY <1>3, <1>5
  <2>4. QED
    BY <1>0, <1>3, <2>1, <2>2, <2>3 DEF DataInv, Types
<1>8. Replies'
  BY <1>0, <1>6 DEF Write, DataInv, Replies
<1>9. \E n \in 1 .. Len(frames) + 1 : Reached(frames, n, state', received', s.p, s.buf, s.at)
  <2>1. CASE s.ret = "-1"
    <3>1. state' = "ERROR" /\ received' = received
      BY <1>6, <2>1
    <3>2. Reached(frames, m, state', received', s.p, s.buf, s.at)
      BY <1>2, <3>1 DEF Reached
    <3>3. QED
      BY <3>2
  <2>2. CASE s.ret # "-1" /\ Inside(frames, m, s.p, s.buf, s.at)
    <3>1. s.p.frame = m /\ m \in 1 .. Len(frames) /\ s.p.frame # NoFrame /\ ~Complete(s.p)
      BY <2>2 DEF Inside, Complete, NoFrame
    <3>2. ~IsShortText(s.p) /\ ~IsEos(s.p, s.buf) /\ ~gives
      BY <3>1 DEF IsShortText, IsEos
    <3>3. IsClose(s.p) => Ends(frames[m])
      BY <3>1 DEF IsClose, Op, Ends
    <3>4. m <= Len(frames)
      BY <1>1, <3>1
    <3>5. \/ state' = "CLOSE" /\ Ends(frames[m]) /\ received' = received
          \/ state' = state /\ received' = received
      BY <1>6, <2>2, <3>2, <3>3
    <3>6. Reached(frames, m, state', received', s.p, s.buf, s.at)
      BY <1>0, <1>2, <2>2, <3>4, <3>5 DEF Reached
    <3>7. QED
      BY <3>6
  <2>3. CASE /\ s.ret # "-1" /\ Before(frames, m, s.p, s.at) /\ s.p.frame = NoFrame
             /\ s.buf = <<>>
    <3>1. Op(s.p) = "cont"
      BY <2>3 DEF Op
    <3>2. ~IsClose(s.p) /\ ~IsShortText(s.p) /\ ~IsEos(s.p, s.buf)
      BY <3>1 DEF IsClose, IsShortText, IsEos
    <3>3. state' = state /\ received' = received
      BY <1>6, <2>3, <3>2
    <3>4. Reached(frames, m, state', received', s.p, s.buf, s.at)
      BY <1>0, <1>2, <2>3, <3>3 DEF Reached
    <3>5. QED
      BY <3>4
  <2>4. CASE s.ret # "-1" /\ Done(frames, m, s.p, s.buf, s.at)
    <3>1. /\ m \in 1 .. Len(frames) /\ s.p.frame = m /\ s.p.state = "INIT"
          /\ s.p.len = frames[m].len /\ Clear(frames, m, s.buf)
      BY <2>4 DEF Done
    <3>2. s.buf \in Buffers /\ s.p.len = Len(s.buf) /\ frames[m] \in FrameType
      BY <1>1, <1>4, <3>1 DEF Passed
    <3>3. Complete(s.p) /\ Op(s.p) = frames[m].op
      BY <3>1 DEF Complete, Op, NoFrame
    <3>4. IsShortText(s.p) <=> frames[m].op = "text" /\ frames[m].len = 3
      BY <3>1, <3>3 DEF IsShortText
    <3>5. CASE ends
      <4>1. Ends(frames[m])
        BY <3>1, <3>3, <3>4, <3>5 DEF IsClose, IsEos, Ends
      <4>2. state' = "CLOSE" /\ received' = received /\ m <= Len(frames)
        BY <1>1, <1>6, <2>4, <3>1, <3>5
      <4>3. Reached(frames, m, state', received', s.p, s.buf, s.at)
        BY <1>2, <4>1, <4>2 DEF Reached
      <4>4. QED
        BY <4>3
    <3>6. CASE ~ends
      <4>1. EosMasked => ~Ends(frames[m])
        <5> SUFFICES ASSUME EosMasked, Ends(frames[m]) PROVE FALSE
          OBVIOUS
        <5>1. frames[m].op # "close"
          BY <3>3, <3>6 DEF IsClose
        <5>2. frames[m].op = "text" /\ frames[m].len = 3 /\ frames[m].eos
          BY <5>1 DEF Ends
        <5>3. frames[m].masked
          <6>1. m \in DOMAIN script.frames /\ frames[m] = script.frames[m]
            BY <1>1, <3>1 DEF frames
          <6>2. QED
            BY <1>1, <5>2, <6>1 DEF EosMasked
        <5>4. s.buf = Payload(m)
          <6>1. \A k \in 1 .. Len(s.buf) : s.buf[k] = <<m, k - 1>>
            BY <3>1, <5>3 DEF Clear
          <6>2. s.buf = [k \in 1 .. Len(s.buf) |-> <<m, k - 1>>]
            <7>1. s.buf \in [1 .. Len(s.buf) -> Nat \X Int]
              BY <3>2 DEF Buffers
            <7>2. QED
              BY <6>1, <7>1
          <6>3. QED
            BY <3>1, <3>2, <6>2 DEF Payload
        <5>5. IsEos(s.p, s.buf)
          BY <3>1, <3>4, <5>2, <5>4 DEF IsEos
        <5>6. QED
          BY <3>6, <5>5
      <4>2. state' = "DATA"
        BY <1>0, <1>6, <2>4, <3>6
      <4>3. s.buf = <<>> <=> frames[m].len = 0
        BY <3>1, <3>2 DEF Buffers
      <4>4. Carries(frames[m]) <=> gives /\ s.buf # <<>>
        <5>1. frames[m].len \in Nat
          BY <3>2 DEF FrameType
        <5>2. frames[m].op # "close"
          BY <3>3, <3>6 DEF IsClose
        <5>3. gives <=> ~(frames[m].op = "text" /\ frames[m].len = 3)
          BY <3>3, <3>4, <5>2 DEF IsClose
        <5> HIDE DEF gives
        <5>4. QED
          BY <4>3, <5>1, <5>2, <5>3 DEF Carries
      <4>5. received' = IF Carries(frames[m]) THEN Append(received, s.buf) ELSE received
        <5> HIDE DEF gives, ends
        <5>1. QED
          BY <1>6, <2>4, <3>6, <4>4
      <4>6. Reached(frames, m, "DATA", received, packet, data, rd)
        BY <1>0, <1>2
      <4>7. /\ m + 1 \in 1 .. Len(frames) + 1
            /\ Reached(frames, m + 1, "DATA", received', s.p, s.buf, s.at)
        BY <1>1, <2>4, <3>2, <4>1, <4>5, <4>6, NextFrame
      <4>8. QED
        BY <4>2, <4>7
    <3>7. QED
      BY <3>5, <3>6
  <2>5. QED
    BY <1>4, <2>1, <2>2, <2>3, <2>4 DEF Works
<1>10. QED
  BY <1>0, <1>3, <1>7, <1>8, <1>9 DEF DataInv

-----------------------------------------------------------------------------
(* The theorems.                                                           *)

\* A step of the peer or of the worker.
LEMMA NextData ==
  ASSUME Fits
  PROVE  DataInv /\ [Next]_vars => DataInv'
<1> SUFFICES ASSUME DataInv, [Next]_vars PROVE DataInv'
  OBVIOUS
<1>1. CASE Deliver \/ PeerCloses \/ PeerResets \/ Poll \/ HandleError
  BY <1>1, OtherSteps
<1>2. CASE HandleHead \/ HandleHeadEof \/ HandleHeadReset \/ HandleHeadLostPeer
  BY <1>2, HeadSteps
<1>3. CASE HandleData
  BY <1>3, DataStep
<1>4. CASE UNCHANGED vars
  <2>1. script' = script /\ frames' = frames
    BY <1>4 DEF vars, frames
  <2>2. QED
    BY <1>4, <2>1 DEF vars, DataInv, Types, Replies
<1>5. QED
  BY <1>1, <1>2, <1>3, <1>4 DEF Next, Handle

\* The parser is where the peer put a header whenever it reads one, and the decoder
\* has what the frames before it carry (readAndParsePacket, websocket-data.cc:311-436).
THEOREM Invariance ==
  ASSUME Fits
  PROVE  Spec => []DataInv
<1>1. DataInv /\ [Next]_vars => DataInv'
  BY NextData
<1>2. QED
  BY <1>1, InitData, PTL DEF Spec

\* The parser never takes payload for a header, whatever the peer sends and however
\* TCP cuts it, as long as no length overflows its width.
THEOREM AlwaysInSync ==
  ASSUME Fits
  PROVE  Spec => []InSync
<1>1. DataInv => InSync
  <2> SUFFICES ASSUME DataInv PROVE InSync
    OBVIOUS
  <2>1. wr \in 0 .. StreamLen
    BY StartOfIs DEF DataInv, Types
  <2>2. /\ packet.state \in {"INIT", "HEAD_126", "HEAD_127", "MASK", "DATA"}
        /\ packet.frame \in 0 .. Len(frames)
        /\ packet.key \in {ZeroKey, WildKey} \cup 1 .. Len(frames)
    BY DEF DataInv, Types, PacketType, PacketStates, Keys
  <2>3. {fin, rst, sockErr, insync, killed} \subseteq BOOLEAN
    BY DEF DataInv, Types
  <2>4. QED
    BY <2>1, <2>2, <2>3 DEF InSync, TypeOK, DataInv, Types
<1>2. Spec => []DataInv
  BY Invariance
<1>3. QED
  BY <1>1, <1>2, PTL

\* The decoder gets the payload of every frame that carries one, in order, the masked
\* ones unmasked, and all of it before the session is closed.
THEOREM AlwaysPayloadIntact ==
  ASSUME Fits, EosMasked
  PROVE  Spec => []PayloadIntact
<1>1. DataInv => PayloadIntact
  <2> SUFFICES ASSUME DataInv PROVE PayloadIntact
    OBVIOUS
  <2>1. frames \in Seq(FrameType) /\ Len(frames) \in Nat
    BY FramesType DEF DataInv, Types
  <2>2. PICK m \in 1 .. Len(frames) + 1 :
          Reached(frames, m, state, received, packet, data, rd)
    BY DEF DataInv
  <2> DEFINE a == WantedIn(frames, m - 1)
             b == WantedIn(frames, Len(frames))
  <2>3. Begins(a, b)
    <3>1. m - 1 \in 0 .. Len(frames)
      BY <2>1
    <3>2. QED
      BY <2>1, <3>1, WantedBegins
  <2>4. /\ received \in Seq(Buffers) /\ Len(received) = Len(a)
        /\ \A k \in 1 .. Len(received) :
             frames[a[k]].masked => received[k] = PayloadIn(frames, a[k])
    BY <2>2 DEF Reached, Got
  <2>5. state = "CLOSE" => Len(received) = Len(Wanted(FirstEnd - 1))
    <3> SUFFICES ASSUME state = "CLOSE" PROVE Len(received) = Len(Wanted(FirstEnd - 1))
      OBVIOUS
    <3>1. m \in 1 .. Len(frames) /\ Ends(frames[m])
          /\ \A f \in 1 .. m - 1 : ~Ends(frames[f])
      BY <2>1, <2>2 DEF Reached
    <3>2. \A f \in 1 .. Len(frames) :
            Ends(frames[f]) /\ (\A g \in 1 .. f - 1 : ~Ends(frames[g])) => f = m
      <4> SUFFICES ASSUME NEW f \in 1 .. Len(frames), Ends(frames[f]),
                          \A g \in 1 .. f - 1 : ~Ends(frames[g])
                   PROVE  f = m
        OBVIOUS
      <4>1. ~(f \in 1 .. m - 1) /\ ~(m \in 1 .. f - 1)
        BY <3>1
      <4>2. QED
        BY <2>1, <3>1, <4>1
    <3>3. FirstEnd = m
      BY <3>1, <3>2 DEF FirstEnd
    <3>4. Wanted(m - 1) = a
      BY WantedIs
    <3>5. QED
      BY <2>4, <3>3, <3>4
  <2>6. Wanted(Len(frames)) = b /\ \A f : Payload(f) = PayloadIn(frames, f)
    BY WantedIs
  <2> HIDE DEF a, b
  <2>7. DOMAIN received = 1 .. Len(received) /\ Len(received) \in Nat
    BY <2>4
  <2>8. ASSUME NEW k \in DOMAIN received, frames[b[k]].masked
        PROVE  received[k] = Payload(b[k])
    <3>1. k \in 1 .. Len(a) /\ a[k] = b[k]
      BY <2>3, <2>4, <2>7 DEF Begins
    <3>2. QED
      BY <2>4, <2>6, <2>7, <2>8, <3>1
  <2>9. Len(received) <= Len(b)
    BY <2>3, <2>4 DEF Begins
  <2>10. QED
    BY <2>5, <2>6, <2>8, <2>9 DEF PayloadIntact
<1>2. Spec => []DataInv
  BY Invariance
<1>3. QED
  BY <1>1, <1>2, PTL

-----------------------------------------------------------------------------
(* What is sent to the peer depends on the state alone, not on the parser, *)
(* and needs no hypothesis.                                                *)

\* In STATE_DATA only results are sent, and the final one ends it.
LEMMA SentInData ==
  ASSUME HandleData
  PROVE  /\ state = "DATA"
         /\ \/ reply' = reply /\ state' \in {"DATA", "CLOSE", "ERROR"}
            \/ reply' = "middle" /\ state' = "DATA"
            \/ reply' = "final" /\ state' = "CLOSE"
<1>1. state = "DATA"
  BY DEF HandleData
<1>2. PICK s \in readAndParsePacket :
        CASE s.ret = "lost" ->
               UNCHANGED <<state, received, reply, killed, sockErr>>
          [] s.ret = "-1" ->
               /\ state' = "ERROR"
               /\ UNCHANGED <<received, reply, killed, sockErr>>
          [] s.ret \in {"go", "0"} /\ (IsClose(s.p) \/ IsEos(s.p, s.buf)) ->
               /\ state' = "CLOSE"
               /\ Write("final")
               /\ UNCHANGED received
          [] s.ret \in {"go", "0"} /\ Complete(s.p)
               /\ ~IsClose(s.p) /\ ~IsShortText(s.p) ->
               /\ received' = IF s.buf = <<>> THEN received
                              ELSE Append(received, s.buf)
               /\ Write("middle")
               /\ UNCHANGED state
          [] OTHER -> UNCHANGED <<state, received, reply, killed, sockErr>>
  BY DEF HandleData
<1>3. \/ UNCHANGED <<state, reply>>
      \/ state' = "ERROR" /\ reply' = reply
      \/ state' = "CLOSE" /\ Write("final")
      \/ state' = state /\ Write("middle")
  BY <1>2 DEF IsEos
<1>4. QED
  BY <1>1, <1>3 DEF Write

\* Replies holds initially and is kept.
LEMMA RepliesKept == (Init => Replies) /\ (Replies /\ [Next]_vars => Replies')
<1>1. Init => Replies
  BY DEF Init, Replies
<1>2. ASSUME Replies, [Next]_vars PROVE Replies'
  <2>1. CASE UNCHANGED <<state, reply>>
    BY <1>2, <2>1 DEF Replies
  <2>2. CASE HandleHead \/ HandleHeadEof \/ HandleHeadReset \/ HandleHeadLostPeer
    BY <2>2 DEF Replies, HandleHead, HandleHeadEof, HandleHeadReset, HandleHeadLostPeer, Write
  <2>3. CASE HandleData
    BY <1>2, <2>3, SentInData DEF Replies
  <2>4. QED
    BY <1>2, <2>1, <2>2, <2>3
       DEF Next, Handle, Deliver, PeerCloses, PeerResets, Poll, HandleError, vars
<1>3. QED
  BY <1>1, <1>2

\* Results follow the upgrade, and nothing follows the final one or the 400.
THEOREM RepliesInOrder == Spec => ReplyProtocol
<1>1. Replies /\ [Next]_vars =>
        [reply' # reply => <<reply, reply'>> \in
           {<<"none", "101">>, <<"none", "400">>, <<"101", "middle">>,
            <<"101", "final">>, <<"middle", "final">>}]_reply
  <2> SUFFICES ASSUME Replies, Next, reply' # reply
               PROVE  <<reply, reply'>> \in
                        {<<"none", "101">>, <<"none", "400">>, <<"101", "middle">>,
                         <<"101", "final">>, <<"middle", "final">>}
    BY DEF vars
  <2>1. CASE HandleHead
    BY <2>1 DEF Replies, HandleHead, Write
  <2>2. CASE HandleData
    BY <2>2, SentInData DEF Replies
  <2>3. QED
    BY <2>1, <2>2 DEF Next, Handle, Deliver, PeerCloses, PeerResets, Poll, HandleError,
                      HandleHeadEof, HandleHeadReset, HandleHeadLostPeer
<1>2. QED
  BY <1>1, RepliesKept, PTL DEF Spec, ReplyProtocol
=============================================================================
