------------------------- MODULE AsyncLoggingProofs -------------------------
(* No assertion of the logging backend fails and no line is lost but those  *)
(* of a batch that is given up, for any capacity of a buffer, any limit on  *)
(* the backlog and any number of lines.                                     *)
EXTENDS AsyncLogging, SequenceLemmas

USE LinesAssumption, CapacityAssumption, BacklogAssumption, NullAssumption

\* The types of the buffers that go around; the file's content plays no part.
BufferTypes ==
  /\ current \in Buffer
  /\ buffers \in Seq(Buffer)
  /\ buffersToWrite \in Seq(Buffer)
  /\ appended \in 0..MaxLines
  /\ pc \in {"test", "lock", "wait", "drop", "write", "recycle1", "recycle2",
             "done", "aborted"}

\* Spare buffers are empty or gone; append() takes nextBuffer_ only when it
\* queues a full buffer, so a missing nextBuffer_ means a buffer to recycle.
Spares ==
  /\ nextBuffer \in {<<>>, Null}
  /\ newBuffer1 \in {<<>>, Null}
  /\ newBuffer2 \in {<<>>, Null}
  /\ nextBuffer = Null => buffers # <<>>

\* What the backend has in hand at each point: at least as many buffers as it
\* has given spare ones away.
InHand ==
  /\ pc \in {"test", "lock", "wait"} =>
       newBuffer1 = <<>> /\ newBuffer2 = <<>> /\ buffersToWrite = <<>>
  /\ pc \in {"drop", "write", "recycle1"} =>
       /\ newBuffer1 = Null
       /\ Len(buffersToWrite) >= 1
       /\ newBuffer2 = Null => Len(buffersToWrite) >= 2
  /\ pc = "recycle2" =>
       /\ newBuffer1 = <<>>
       /\ newBuffer2 = Null => Len(buffersToWrite) >= 1

\* The inductive invariant.
IInv == BufferTypes /\ Spares /\ InHand /\ NoAssertFails

\* A spare buffer is empty, and is not a null pointer.
LEMMA EmptyBuffer == <<>> \in Buffer /\ <<>> # Null
  BY EmptySeq DEF Buffer

\* start() establishes the invariant.
LEMMA InitIInv == Init => IInv
<1> SUFFICES ASSUME Init PROVE IInv
  OBVIOUS
<1>1. BufferTypes
  <2>1. <<>> \in Seq(Buffer) /\ <<>> \in Buffer
    BY EmptySeq, EmptyBuffer
  <2>2. QED
    BY <2>1 DEF Init, BufferTypes
<1>2. Spares /\ InHand /\ NoAssertFails
  BY EmptyBuffer DEF Init, Spares, InHand, NoAssertFails
<1>3. QED
  BY <1>1, <1>2 DEF IInv

\* Logging threads preserve it.
LEMMA LoggingIInv == ASSUME IInv, Logging PROVE IInv'
<1> USE DEF IInv, local
<1>1. CASE AppendFits
  <2>1. current' \in Buffer
    <3>1. appended + 1 \in Lines
      BY <1>1 DEF AppendFits, BufferTypes, Lines
    <3>2. QED
      BY <1>1, <3>1, AppendProperties DEF AppendFits, BufferTypes, Buffer
  <2>2. appended' \in 0..MaxLines
    BY <1>1 DEF AppendFits, BufferTypes
  <2>3. BufferTypes'
    BY <1>1, <2>1, <2>2 DEF AppendFits, BufferTypes
  <2>4. Spares' /\ InHand' /\ NoAssertFails'
    BY <1>1 DEF AppendFits, Spares, InHand, NoAssertFails
  <2>5. QED
    BY <2>3, <2>4
<1>2. CASE AppendFull
  <2>1. /\ buffers' \in Seq(Buffer)
        /\ buffers' # <<>>
    BY <1>2, AppendProperties DEF AppendFull, BufferTypes
  <2>2. current' \in Buffer
    <3>1. appended + 1 \in Lines
      BY <1>2 DEF AppendFull, BufferTypes, Lines
    <3>2. (IF nextBuffer # Null THEN nextBuffer ELSE <<>>) = <<>>
      BY DEF Spares
    <3>3. current' = Append(<<>>, appended + 1)
      BY <1>2, <3>2 DEF AppendFull
    <3>4. QED
      BY <3>1, <3>3, EmptySeq, AppendProperties DEF Buffer
  <2>3. appended' \in 0..MaxLines
    BY <1>2 DEF AppendFull, BufferTypes
  <2>4. BufferTypes'
    BY <1>2, <2>1, <2>2, <2>3 DEF AppendFull, BufferTypes
  <2>5. Spares'
    BY <1>2, <2>1 DEF AppendFull, Spares
  <2>6. InHand' /\ NoAssertFails'
    BY <1>2 DEF AppendFull, InHand, NoAssertFails
  <2>7. QED
    BY <2>4, <2>5, <2>6
<1>3. QED
  BY <1>1, <1>2 DEF Logging

\* stop() preserves it.
LEMMA StopIInv == ASSUME IInv, Stop PROVE IInv'
<1>1. BufferTypes'
  BY DEF IInv, Stop, local, BufferTypes
<1>2. Spares' /\ InHand' /\ NoAssertFails'
  BY DEF IInv, Stop, local, Spares, InHand, NoAssertFails
<1>3. QED
  BY <1>1, <1>2 DEF IInv

\* Swap takes one buffer at least, and two when append() used nextBuffer_.
LEMMA SwapIInv == ASSUME IInv, Swap PROVE IInv'
<1> USE DEF IInv
<1>1. newBuffer1 = <<>> /\ newBuffer2 = <<>>
  BY DEF Swap, InHand
<1>2. buffersToWrite' \in Seq(Buffer) /\ Len(buffersToWrite') = Len(buffers) + 1
  BY AppendProperties DEF Swap, BufferTypes
<1>3. Len(buffers) \in Nat /\ (buffers # <<>> => Len(buffers) > 0)
  BY LenProperties, EmptySeq DEF BufferTypes
<1>4. BufferTypes'
  BY <1>1, <1>2, EmptySeq, EmptyBuffer DEF Swap, BufferTypes
<1>5. Spares'
  BY <1>1, EmptyBuffer DEF Swap, Spares
<1>6. InHand'
  <2>1. newBuffer1' = Null /\ pc' = "drop"
    BY DEF Swap
  <2>2. Len(buffersToWrite') >= 1
    BY <1>2, <1>3
  <2>3. newBuffer2' = Null => nextBuffer = Null
    BY <1>1, EmptyBuffer DEF Swap
  <2>4. nextBuffer = Null => Len(buffersToWrite') >= 2
    <3>1. nextBuffer = Null => Len(buffers) > 0
      BY <1>3 DEF Spares
    <3>2. QED
      BY <3>1, <1>2, <1>3
  <2>5. QED
    BY <2>1, <2>2, <2>3, <2>4 DEF InHand
<1>7. NoAssertFails'
  BY DEF Swap, NoAssertFails
<1>8. QED
  BY <1>4, <1>5, <1>6, <1>7

\* The batch is cut to two buffers, before or after it is written, only when
\* it is longer: enough are left to recycle.
LEMMA CutIInv ==
  ASSUME IInv, Drop \/ NoDrop \/ WriteOut
  PROVE  IInv'
<1> USE DEF IInv
<1>1. UNCHANGED <<shared, newBuffer1, newBuffer2>>
  BY DEF Drop, NoDrop, WriteOut
<1>2. pc \in {"drop", "write"} /\ pc' \in {"write", "recycle1"}
  BY DEF Drop, NoDrop, WriteOut
<1>3. Len(buffersToWrite) \in Nat /\ buffersToWrite \in Seq(Buffer)
  BY LenProperties DEF BufferTypes
<1>4. \/ buffersToWrite' = buffersToWrite
      \/ /\ Len(buffersToWrite) >= 2
         /\ buffersToWrite' = SubSeq(buffersToWrite, 1, 2)
  BY <1>3 DEF Drop, NoDrop, WriteOut
<1>5. /\ buffersToWrite' \in Seq(Buffer)
      /\ \/ Len(buffersToWrite') = Len(buffersToWrite)
         \/ Len(buffersToWrite') = 2
  <2>1. CASE buffersToWrite' = buffersToWrite
    BY <2>1, <1>3
  <2>2. CASE /\ Len(buffersToWrite) >= 2
             /\ buffersToWrite' = SubSeq(buffersToWrite, 1, 2)
    <3>1. \A k \in 1..2 : buffersToWrite[k] \in Buffer
      BY <2>2, <1>3, ElementOfSeq
    <3>2. QED
      BY <2>2, <3>1, SubSeqProperties
  <2>3. QED
    BY <1>4, <2>1, <2>2
<1>6. BufferTypes'
  BY <1>1, <1>2, <1>5 DEF BufferTypes, shared
<1>7. Spares' /\ NoAssertFails'
  BY <1>1, <1>2 DEF Spares, NoAssertFails, shared
<1>8. InHand'
  <2>1. /\ newBuffer1' = Null
        /\ Len(buffersToWrite) >= 1
        /\ newBuffer2' = Null => Len(buffersToWrite) >= 2
    BY <1>1, <1>2 DEF InHand
  <2>2. /\ Len(buffersToWrite') >= 1
        /\ newBuffer2' = Null => Len(buffersToWrite') >= 2
    <3>1. CASE Len(buffersToWrite') = Len(buffersToWrite)
      BY <2>1, <3>1
    <3>2. CASE Len(buffersToWrite') = 2
      BY <3>2
    <3>3. QED
      BY <1>5, <3>1, <3>2
  <2>3. QED
    BY <1>2, <2>1, <2>2 DEF InHand
<1>9. QED
  BY <1>6, <1>7, <1>8

\* Recycling finds a buffer for each spare one that was given away.
LEMMA RecycleIInv ==
  ASSUME IInv, Recycle1 \/ Recycle2
  PROVE  IInv'
<1> USE DEF IInv
<1>1. CASE Recycle1
  <2>1. Len(buffersToWrite) \in Nat /\ Len(buffersToWrite) >= 1
    BY <1>1, LenProperties DEF Recycle1, InHand, BufferTypes
  <2>2. buffersToWrite # <<>>
    BY <2>1
  <2>3. pc' = "recycle2" /\ newBuffer1' = <<>> /\ newBuffer2' = newBuffer2
    BY <1>1, <2>2 DEF Recycle1
  <2>4. /\ buffersToWrite' \in Seq(Buffer)
        /\ Len(buffersToWrite') = Len(buffersToWrite) - 1
    <3>1. buffersToWrite' = SubSeq(buffersToWrite, 1, Len(buffersToWrite) - 1)
      BY <1>1, <2>2 DEF Recycle1, Front
    <3>2. \A k \in 1..(Len(buffersToWrite) - 1) : buffersToWrite[k] \in Buffer
      BY <2>1, ElementOfSeq DEF BufferTypes
    <3>3. /\ SubSeq(buffersToWrite, 1, Len(buffersToWrite) - 1) \in Seq(Buffer)
          /\ Len(SubSeq(buffersToWrite, 1, Len(buffersToWrite) - 1))
               = Len(buffersToWrite) - 1
      <4> DEFINE n == Len(buffersToWrite) - 1
      <4>1. n \in Int /\ n >= 0 /\ 1 \in Int
        BY <2>1
      <4>2. /\ SubSeq(buffersToWrite, 1, n) \in Seq(Buffer)
            /\ Len(SubSeq(buffersToWrite, 1, n)) = IF 1 <= n THEN n - 1 + 1 ELSE 0
        <5> HIDE DEF n
        <5>1. \A k \in 1..n : buffersToWrite[k] \in Buffer
          BY <3>2 DEF n
        <5>2. QED
          BY <4>1, <5>1, SubSeqProperties
      <4>3. (IF 1 <= n THEN n - 1 + 1 ELSE 0) = n
        <5> HIDE DEF n
        <5> QED
          BY <4>1
      <4>4. QED
        BY <4>2, <4>3
    <3>4. QED
      BY <3>1, <3>3
  <2>5. BufferTypes'
    BY <1>1, <2>3, <2>4 DEF Recycle1, BufferTypes, shared
  <2>6. Spares' /\ NoAssertFails'
    BY <1>1, <2>3 DEF Recycle1, Spares, NoAssertFails, shared
  <2>7. newBuffer2 = Null => Len(buffersToWrite) >= 2
    BY <1>1 DEF Recycle1, InHand
  <2>8. newBuffer2' = Null => Len(buffersToWrite') >= 1
    BY <2>1, <2>3, <2>4, <2>7
  <2>9. InHand'
    BY <2>3, <2>8 DEF InHand
  <2>10. QED
    BY <2>5, <2>6, <2>9
<1>2. CASE Recycle2
  <2>1. newBuffer2 = Null => buffersToWrite # <<>>
    <3>1. newBuffer2 = Null => Len(buffersToWrite) >= 1
      BY <1>2 DEF Recycle2, InHand
    <3>2. buffersToWrite = <<>> => ~(Len(buffersToWrite) >= 1)
      BY EmptySeq
    <3>3. QED
      BY <3>1, <3>2
  <2>2. pc' = "test" /\ newBuffer2' = <<>> /\ buffersToWrite' = <<>>
    BY <1>2, <2>1 DEF Recycle2
  <2>3. newBuffer1' = <<>>
    BY <1>2 DEF Recycle2, InHand
  <2>4. BufferTypes'
    BY <1>2, <2>2, EmptySeq DEF Recycle2, BufferTypes, shared
  <2>5. Spares' /\ NoAssertFails' /\ InHand'
    BY <1>2, <2>2, <2>3 DEF Recycle2, Spares, NoAssertFails, InHand, shared
  <2>6. QED
    BY <2>4, <2>5
<1>3. QED
  BY Zenon, <1>1, <1>2

\* The backend preserves the invariant.
LEMMA BackendIInv == ASSUME IInv, Backend PROVE IInv'
<1>1. CASE TestRunning
  <2>1. pc' \in {"done", "lock"}
    BY <1>1 DEF TestRunning, IInv, InHand
  <2>2. QED
    BY <1>1, <2>1 DEF TestRunning, IInv, BufferTypes, Spares, InHand,
                      NoAssertFails, shared
<1>2. CASE Wait
  BY <1>2 DEF Wait, IInv, BufferTypes, Spares, InHand, NoAssertFails, shared
<1>3. QED
  BY <1>1, <1>2, SwapIInv, CutIInv, RecycleIInv DEF Backend

\* The invariant holds in every reachable state.
THEOREM Invariance == Spec => []IInv
<1>1. IInv /\ [Next]_vars => IInv'
  <2>1. CASE UNCHANGED vars
    BY <2>1 DEF vars, IInv, BufferTypes, Spares, InHand, NoAssertFails
  <2>2. QED
    BY <2>1, LoggingIInv, StopIInv, BackendIInv DEF Next
<1>2. QED
  BY <1>1, InitIInv, PTL DEF Spec

\* No assertion of AsyncLogging::threadFunc ever fails, whatever the capacity
\* of a buffer, the limit on the backlog and the number of lines.
THEOREM AssertionsNeverFail == Spec => []NoAssertFails
<1>1. IInv => NoAssertFails
  BY DEF IInv
<1>2. QED
  BY <1>1, Invariance, PTL

-----------------------------------------------------------------------------
(* Every line is somewhere, once.                                          *)

\* The lines of way, in order, and those of lost are the first n.
Kept(way, lost, n) ==
  /\ way \in Seq(Lines) /\ lost \in Seq(Lines)
  /\ \A j, k \in DOMAIN way : j < k => way[j] < way[k]
  /\ Len(way) + Len(lost) = n
  /\ ToSet(way) \cup ToSet(lost) = 1 .. n

\* The lines written, and those on their way to the file.
Taken == IF pc \in {"drop", "write"} THEN buffersToWrite ELSE <<>>
Way == written \o FlattenSeq(Unwritten)

\* The inductive invariant of the lines, on top of the one of the buffers.
LinesInv ==
  /\ running \in BOOLEAN
  /\ written \in Seq(Lines) /\ dropped \in Seq(Lines)
  /\ Kept(Way, dropped, appended)

\* A new line is the largest.
LEMMA KeptAppend ==
  ASSUME NEW w, NEW d, NEW n \in Nat, n + 1 \in Lines, Kept(w, d, n)
  PROVE  Kept(Append(w, n + 1), d, n + 1)
<1> USE DEF Kept
<1> DEFINE v == Append(w, n + 1)
<1>1. /\ v \in Seq(Lines) /\ Len(v) = Len(w) + 1 /\ v[Len(w) + 1] = n + 1
      /\ \A i \in 1 .. Len(w) : v[i] = w[i]
      /\ DOMAIN v = 1 .. Len(w) + 1 /\ DOMAIN w = 1 .. Len(w) /\ Len(w) \in Nat
      /\ DOMAIN d = 1 .. Len(d) /\ Len(d) \in Nat
  OBVIOUS
<1>2. \A i \in 1 .. Len(w) : w[i] \in 1 .. n
  BY <1>1 DEF ToSet
<1> HIDE DEF v
<1>3. ASSUME NEW j \in DOMAIN v, NEW k \in DOMAIN v, j < k PROVE v[j] < v[k]
  <2>1. j \in 1 .. Len(w)
    BY <1>1, <1>3
  <2>2. CASE k = Len(w) + 1
    BY <1>1, <1>2, <2>1, <2>2
  <2>3. CASE k \in 1 .. Len(w)
    BY <1>1, <1>3, <2>1, <2>3
  <2>4. QED
    BY <1>1, <2>2, <2>3
<1>4. ToSet(v) = ToSet(w) \cup {n + 1}
  <2>1. \A i \in 1 .. Len(w) + 1 : i \in 1 .. Len(w) \/ i = Len(w) + 1
    BY <1>1
  <2>2. QED
    BY <1>1, <2>1 DEF ToSet
<1>5. ToSet(v) \cup ToSet(d) = 1 .. n + 1
  <2>1. ToSet(w) \cup ToSet(d) = 1 .. n
    OBVIOUS
  <2>2. ToSet(v) \cup ToSet(d) = 1 .. n \cup {n + 1}
    BY <1>4, <2>1, Zenon
  <2>3. 1 .. n \cup {n + 1} = 1 .. n + 1
    OBVIOUS
  <2>4. QED
    BY <2>2, <2>3, Zenon
<1>6. Len(v) + Len(d) = n + 1
  <2>1. Len(w) + Len(d) = n
    OBVIOUS
  <2> HIDE DEF Kept
  <2>2. QED
    BY <1>1, <2>1
<1>7. d \in Seq(Lines)
  OBVIOUS
<1>8. Kept(v, d, n + 1)
  BY <1>1, <1>3, <1>5, <1>6, <1>7, Zenon
<1>9. QED
  BY <1>8, Zenon DEF v

\* Lines taken out of the middle leave the rest in order.
LEMMA KeptDrop ==
  ASSUME NEW a \in Seq(Lines), NEW b \in Seq(Lines), NEW c \in Seq(Lines),
         NEW d \in Seq(Lines), NEW n \in Nat, Kept(a \o (b \o c), d, n)
  PROVE  Kept(a \o c, d \o b, n)
<1> DEFINE w == a \o (b \o c)
           v == a \o c
           e == d \o b
<1>1. /\ Len(a) \in Nat /\ Len(b) \in Nat /\ Len(c) \in Nat /\ Len(d) \in Nat
      /\ DOMAIN a = 1 .. Len(a) /\ DOMAIN b = 1 .. Len(b) /\ DOMAIN c = 1 .. Len(c)
      /\ DOMAIN d = 1 .. Len(d)
  OBVIOUS
<1>2. /\ w \in Seq(Lines) /\ Len(w) = Len(a) + Len(b) + Len(c)
      /\ DOMAIN w = 1 .. Len(a) + Len(b) + Len(c)
      /\ \A i \in 1 .. Len(a) : w[i] = a[i]
      /\ \A i \in 1 .. Len(b) : w[Len(a) + i] = b[i]
      /\ \A i \in 1 .. Len(c) : w[Len(a) + Len(b) + i] = c[i]
  OBVIOUS
<1>3. /\ v \in Seq(Lines) /\ Len(v) = Len(a) + Len(c) /\ DOMAIN v = 1 .. Len(a) + Len(c)
      /\ \A i \in 1 .. Len(a) : v[i] = a[i]
      /\ \A i \in 1 .. Len(c) : v[Len(a) + i] = c[i]
  OBVIOUS
<1>4. /\ e \in Seq(Lines) /\ Len(e) = Len(d) + Len(b) /\ DOMAIN e = 1 .. Len(d) + Len(b)
      /\ \A i \in 1 .. Len(d) : e[i] = d[i]
      /\ \A i \in 1 .. Len(b) : e[Len(d) + i] = b[i]
  OBVIOUS
<1>5. Kept(w, d, n)
  OBVIOUS
<1>6. ToSet(w) = ToSet(a) \cup ToSet(b) \cup ToSet(c)
  <2>1. b \o c \in Seq(Lines)
    OBVIOUS
  <2>2. ToSet(b \o c) = ToSet(b) \cup ToSet(c)
    BY ToSetConcat
  <2>3. \A x \in Seq(Lines) : ToSet(a \o x) = ToSet(a) \cup ToSet(x)
    BY ToSetConcat
  <2>4. ToSet(w) = ToSet(a) \cup ToSet(b \o c)
    BY <2>1, <2>3, Zenon
  <2>5. QED
    BY <2>2, <2>4, Zenon
<1>7. ToSet(v) = ToSet(a) \cup ToSet(c) /\ ToSet(e) = ToSet(d) \cup ToSet(b)
  BY ToSetConcat
<1> HIDE DEF w, v, e
<1>8. ASSUME NEW j \in DOMAIN v, NEW k \in DOMAIN v, j < k PROVE v[j] < v[k]
  <2> DEFINE At(i) == IF i <= Len(a) THEN i ELSE i + Len(b)
  <2>1. ASSUME NEW i \in DOMAIN v PROVE At(i) \in DOMAIN w /\ v[i] = w[At(i)]
    <3>1. CASE i <= Len(a)
      BY <1>1, <1>2, <1>3, <3>1
    <3>2. CASE i > Len(a)
      <4>1. i - Len(a) \in 1 .. Len(c) /\ Len(a) + (i - Len(a)) = i
        BY <1>1, <1>3, <3>2
      <4>2. Len(a) + Len(b) + (i - Len(a)) = i + Len(b) /\ At(i) = i + Len(b)
        BY <1>1, <1>3, <3>2
      <4>3. v[i] = c[i - Len(a)] /\ w[i + Len(b)] = c[i - Len(a)]
        BY <1>2, <1>3, <4>1, <4>2
      <4>4. i + Len(b) \in 1 .. Len(a) + Len(b) + Len(c)
        BY <1>1, <1>3, <3>2
      <4>5. QED
        BY <1>2, <4>2, <4>3, <4>4, Zenon
    <3>3. QED
      BY <1>1, <1>3, <3>1, <3>2
  <2>2. At(j) < At(k)
    BY <1>1, <1>3, <1>8
  <2>3. QED
    BY <1>5, <2>1, <2>2 DEF Kept
<1>9. ToSet(v) \cup ToSet(e) = 1 .. n /\ Len(v) + Len(e) = n
  BY <1>1, <1>2, <1>3, <1>4, <1>5, <1>6, <1>7 DEF Kept
<1>10. Kept(v, e, n)
  BY <1>3, <1>4, <1>8, <1>9 DEF Kept
<1>11. QED
  BY <1>10 DEF v, e

\* What the file and the buffers hold, piece by piece.
WayOf(w, t, b, c) == w \o FlattenSeq(t \o b \o <<c>>)
LEMMA WayForm ==
  ASSUME NEW w \in Seq(Lines), NEW t \in Seq(Buffer), NEW b \in Seq(Buffer), NEW c \in Buffer
  PROVE  /\ FlattenSeq(t) \in Buffer /\ FlattenSeq(b) \in Buffer
         /\ WayOf(w, t, b, c) = Cat(w, Cat(FlattenSeq(t), Cat(FlattenSeq(b), c)))
<1> USE DEF Buffer
<1>1. FlattenSeq(t) \in Seq(Lines) /\ FlattenSeq(b) \in Seq(Lines)
  BY FlattenType
<1>2. t \o b \in Seq(Buffer) /\ t \o b \o <<c>> = Append(t \o b, c)
  OBVIOUS
<1>3. FlattenSeq(Append(t \o b, c)) = FlattenSeq(t \o b) \o c
  BY <1>2, FlattenAppend
<1>4. FlattenSeq(t \o b) = Cat(FlattenSeq(t), FlattenSeq(b))
  BY FlattenConcat DEF Cat
<1>5. FlattenSeq(t \o b \o <<c>>) = Cat(Cat(FlattenSeq(t), FlattenSeq(b)), c)
  BY <1>2, <1>3, <1>4 DEF Cat
<1>6. FlattenSeq(t \o b \o <<c>>) = Cat(FlattenSeq(t), Cat(FlattenSeq(b), c))
  BY <1>1, <1>5, CatAssociative
<1>7. QED
  BY <1>1, <1>6 DEF Cat, WayOf

\* No line is lost, doubled or moved by a step.
LEMMA StepLines == ASSUME IInv, IInv', LinesInv, [Next]_vars PROVE LinesInv'
<1> DEFINE F(s) == FlattenSeq(s)
           Rest == Cat(F(buffers), current)
           Form == Cat(written, Cat(F(Taken), Rest))
<1>1. /\ written \in Seq(Lines) /\ dropped \in Seq(Lines) /\ running \in BOOLEAN
      /\ Taken \in Seq(Buffer) /\ buffers \in Seq(Buffer) /\ current \in Seq(Lines)
      /\ buffersToWrite \in Seq(Buffer) /\ appended \in Nat
  BY EmptySeq DEF IInv, LinesInv, BufferTypes, Taken, Buffer
<1>2. Taken' \in Seq(Buffer) /\ buffers' \in Seq(Buffer) /\ current' \in Seq(Lines)
  BY EmptySeq DEF IInv, BufferTypes, Taken, Buffer
<1>3. F(Taken) \in Seq(Lines) /\ F(buffers) \in Seq(Lines) /\ F(buffersToWrite) \in Seq(Lines)
  BY <1>1, FlattenType DEF Buffer
<1>u. Unwritten = Taken \o buffers \o <<current>>
  BY DEF Unwritten, Taken
<1>4. Way = Form
  <2>1. Way = WayOf(written, Taken, buffers, current)
    BY <1>u DEF Way, WayOf
  <2>2. /\ written \in Seq(Lines) /\ Taken \in Seq(Buffer) /\ buffers \in Seq(Buffer)
        /\ current \in Buffer
    BY <1>1 DEF Buffer
  <2>3. WayOf(written, Taken, buffers, current) = Form
    BY <2>2, WayForm
  <2>4. QED
    BY <2>1, <2>3, Zenon
<1>5. ASSUME written' \in Seq(Lines) PROVE Way' = Form'
  <2>1. Way' = WayOf(written', Taken', buffers', current')
    BY DEF Way, Unwritten, Taken, WayOf
  <2>2. /\ written' \in Seq(Lines) /\ Taken' \in Seq(Buffer) /\ buffers' \in Seq(Buffer)
        /\ current' \in Buffer
    BY <1>2, <1>5 DEF Buffer
  <2>3. WayOf(written', Taken', buffers', current') = Form'
    BY <2>2, WayForm
  <2>4. QED
    BY <2>1, <2>3, Zenon
<1>6. Rest \in Seq(Lines) /\ Cat(F(Taken), Rest) \in Seq(Lines) /\ Form \in Seq(Lines)
  BY <1>1, <1>3 DEF Cat
<1>7. Kept(Form, dropped, appended)
  BY <1>4 DEF LinesInv
<1> SUFFICES /\ written' \in Seq(Lines) /\ dropped' \in Seq(Lines) /\ running' \in BOOLEAN
             /\ Kept(Form', dropped', appended')
  BY <1>5 DEF LinesInv
<1>8. CASE Logging
  <2> DEFINE n == appended
  <2>1. /\ n + 1 \in Lines /\ appended' = n + 1
        /\ UNCHANGED <<running, written, dropped, Taken>>
    BY <1>1, <1>8 DEF Logging, AppendFits, AppendFull, local, Lines, Taken
  <2>2. Rest' = Append(Rest, n + 1)
    <3>1. CASE AppendFits
      <4>1. current' = Append(current, n + 1) /\ buffers' = buffers
        BY <3>1 DEF AppendFits
      <4>2. QED
        BY <1>1, <1>3, <2>1, <4>1, CatAppend
    <3>2. CASE AppendFull
      <4>1. current' = Append(<<>>, n + 1) /\ buffers' = Append(buffers, current)
        BY <3>2 DEF AppendFull, IInv, Spares
      <4>2. F(buffers') = Rest
        BY <1>1, <4>1, FlattenAppend DEF Cat, Buffer
      <4>3. QED
        <5>1. Cat(Rest, Append(<<>>, n + 1)) = Append(Rest, n + 1)
          BY <1>6, <2>1, CatOne
        <5>2. QED
          BY <4>1, <4>2, <5>1
    <3>3. QED
      BY <1>8, <3>1, <3>2 DEF Logging
  <2>3. Form' = Append(Form, n + 1)
    <3>1. Cat(F(Taken), Append(Rest, n + 1)) = Append(Cat(F(Taken), Rest), n + 1)
      BY <1>3, <1>6, <2>1, CatAppend
    <3>2. Cat(written, Append(Cat(F(Taken), Rest), n + 1)) = Append(Form, n + 1)
      BY <1>1, <1>6, <2>1, CatAppend
    <3>3. Form' = Cat(written, Cat(F(Taken), Append(Rest, n + 1)))
      BY <2>1, <2>2
    <3>4. QED
      BY <3>1, <3>2, <3>3, Zenon
  <2>4. QED
    BY <1>1, <1>7, <2>1, <2>3, KeptAppend
<1>9. CASE Swap
  <2>1. Taken = <<>> /\ Taken' = Append(buffers, current) /\ buffers' = <<>> /\ current' = <<>>
    BY <1>9 DEF Swap, Taken, IInv, InHand
  <2>2. F(Taken') = Rest
    BY <1>1, <2>1, FlattenAppend DEF Cat, Buffer
  <2>3. Rest' = <<>>
    BY <2>1, FlattenEmpty, CatEmpty, EmptySeq
  <2>4. Cat(F(Taken'), Rest') = Rest /\ Cat(F(Taken), Rest) = Rest
    BY <1>6, <2>1, <2>2, <2>3, FlattenEmpty, CatEmpty
  <2>5. UNCHANGED <<running, written, dropped, appended>>
    BY <1>9 DEF Swap
  <2>6. QED
    BY <1>1, <1>7, <2>4, <2>5
<1>10. CASE Drop
  <2> DEFINE p == SubSeq(buffersToWrite, 1, 2)
             q == SubSeq(buffersToWrite, 3, Len(buffersToWrite))
  <2>1. /\ Taken = buffersToWrite /\ Taken' = p /\ dropped' = dropped \o F(q)
        /\ UNCHANGED <<running, written, appended, buffers, current>>
    BY <1>10 DEF Drop, Taken, shared
  <2>2. p \in Seq(Buffer) /\ q \in Seq(Buffer) /\ buffersToWrite = p \o q
    <3>1. Len(buffersToWrite) \in Nat /\ Len(buffersToWrite) >= 2
      BY <1>1, <1>10 DEF Drop
    <3>2. QED
      BY <1>1, <3>1
  <2> HIDE DEF p, q
  <2>3. F(p) \in Seq(Lines) /\ F(q) \in Seq(Lines)
    BY <2>2, FlattenType DEF Buffer
  <2>4. F(buffersToWrite) = Cat(F(p), F(q))
    BY <2>2, FlattenConcat DEF Cat, Buffer
  <2>5. Form = Cat(Cat(written, F(p)), Cat(F(q), Rest))
    <3>1. Cat(F(q), Rest) \in Seq(Lines)
      BY <1>6, <2>3 DEF Cat
    <3>2. Cat(Cat(F(p), F(q)), Rest) = Cat(F(p), Cat(F(q), Rest))
      BY <1>6, <2>3, CatAssociative
    <3>3. Cat(Cat(written, F(p)), Cat(F(q), Rest)) = Cat(written, Cat(F(p), Cat(F(q), Rest)))
      BY <1>1, <2>3, <3>1, CatAssociative
    <3>4. QED
      BY <2>1, <2>4, <3>2, <3>3
  <2>6. Form' = Cat(Cat(written, F(p)), Rest)
    BY <1>1, <1>6, <2>1, <2>3, CatAssociative
  <2>7. Cat(written, F(p)) \in Seq(Lines) /\ dropped' \in Seq(Lines)
    BY <1>1, <2>1, <2>3 DEF Cat
  <2>8. Kept(Cat(written, F(p)) \o Rest, dropped \o F(q), appended)
    BY <1>1, <1>6, <1>7, <2>3, <2>5, <2>7, KeptDrop DEF Cat
  <2>9. QED
    BY <1>1, <2>1, <2>6, <2>7, <2>8 DEF Cat
<1>11. CASE WriteOut
  <2>1. /\ Taken = buffersToWrite /\ Taken' = <<>> /\ written' = Cat(written, F(buffersToWrite))
        /\ UNCHANGED <<running, dropped, appended, buffers, current>>
    BY <1>11 DEF WriteOut, Taken, shared, Cat
  <2>2. written' \in Seq(Lines)
    BY <1>1, <1>3, <2>1 DEF Cat
  <2>3. Cat(F(Taken'), Rest') = Rest
    BY <1>6, <2>1, FlattenEmpty, CatEmpty
  <2>4. Form' = Form
    BY <1>1, <1>3, <1>6, <2>1, <2>3, CatAssociative
  <2>5. QED
    BY <1>1, <1>7, <2>1, <2>2, <2>4
<1>12. CASE \/ Stop \/ TestRunning \/ Wait \/ NoDrop \/ Recycle1 \/ Recycle2
           \/ UNCHANGED vars
  <2>1. UNCHANGED <<written, dropped, appended, buffers, current, Taken>>
    BY <1>12 DEF Stop, TestRunning, Wait, NoDrop, Recycle1, Recycle2, vars, shared,
       local, Taken
  <2>2. running' \in BOOLEAN
    BY <1>1, <1>12 DEF Stop, TestRunning, Wait, NoDrop, Recycle1, Recycle2, vars, shared
  <2>3. QED
    BY <1>1, <1>7, <2>1, <2>2
<1>13. QED
  BY <1>8, <1>9, <1>10, <1>11, <1>12 DEF Next, Backend

\* No buffer holds more than fits it.
FitInv ==
  /\ current \in Fitting
  /\ buffers \in Seq(Fitting)
  /\ buffersToWrite \in Seq(Fitting)

\* An empty buffer has room for a line.
LEMMA EmptyFits == <<>> \in Fitting /\ <<>> \in Seq(Fitting)
  BY EmptySeq, EmptyBuffer DEF Fitting

\* Lines are added to a buffer with room or to an empty one, and buffers change
\* hands whole.
LEMMA StepFits == ASSUME IInv, IInv', FitInv, [Next]_vars PROVE FitInv'
<1> USE DEF FitInv
<1>1. CASE AppendFits
  <2>1. current' \in Buffer /\ Len(current') = Len(current) + 1 /\ Len(current) \in Nat
    BY <1>1, AppendProperties, LenProperties DEF AppendFits, IInv, BufferTypes, Buffer, Lines
  <2>2. Len(current') <= Capacity
    BY <1>1, <2>1 DEF AppendFits
  <2>3. QED
    BY <1>1, <2>1, <2>2 DEF AppendFits, Fitting, local
<1>2. CASE AppendFull
  <2>1. current' \in Buffer /\ current' = Append(<<>>, appended + 1)
    BY <1>2 DEF AppendFull, IInv, Spares, BufferTypes
  <2>2. Len(current') = 1
    BY <2>1, EmptySeq
  <2>3. current' \in Fitting
    BY <2>1, <2>2 DEF Fitting
  <2>4. buffers' \in Seq(Fitting)
    BY <1>2, AppendProperties DEF AppendFull
  <2>5. QED
    BY <1>2, <2>3, <2>4 DEF AppendFull, local
<1>3. CASE Swap
  <2>1. current' = <<>> /\ buffers' = <<>> /\ buffersToWrite' = Append(buffers, current)
    BY <1>3 DEF Swap, IInv, InHand
  <2>2. buffersToWrite' \in Seq(Fitting)
    BY <2>1, AppendProperties
  <2>3. QED
    BY <2>1, <2>2, EmptyFits
<1>4. CASE Drop \/ NoDrop \/ WriteOut \/ Recycle1 \/ Recycle2
  <2>1. current' = current /\ buffers' = buffers
    BY <1>4 DEF Drop, NoDrop, WriteOut, Recycle1, Recycle2, shared
  <2>2. \/ buffersToWrite' \in {buffersToWrite, <<>>}
        \/ \E n \in 0 .. Len(buffersToWrite) : buffersToWrite' = SubSeq(buffersToWrite, 1, n)
    <3>1. Len(buffersToWrite) \in Nat /\ (buffersToWrite # <<>> => Len(buffersToWrite) > 0)
      BY LenProperties, EmptySeq
    <3>2. CASE Drop \/ WriteOut
      <4>1. \/ buffersToWrite' = buffersToWrite
            \/ /\ Len(buffersToWrite) >= 2
               /\ buffersToWrite' = SubSeq(buffersToWrite, 1, 2)
        BY <3>1, <3>2 DEF Drop, WriteOut
      <4>2. Len(buffersToWrite) >= 2 => 2 \in 0 .. Len(buffersToWrite)
        BY <3>1
      <4>3. QED
        BY <4>1, <4>2, Zenon
    <3>3. CASE NoDrop \/ Recycle2
      BY <3>3 DEF NoDrop, Recycle2
    <3>4. CASE Recycle1
      BY <3>1, <3>4 DEF Recycle1, Front
    <3>5. QED
      BY <1>4, <3>2, <3>3, <3>4
  <2>3. ASSUME NEW n \in 0 .. Len(buffersToWrite)
        PROVE  SubSeq(buffersToWrite, 1, n) \in Seq(Fitting)
    <3>1. \A k \in 1 .. n : buffersToWrite[k] \in Fitting
      BY LenProperties, ElementOfSeq
    <3>2. QED
      BY <3>1, SubSeqProperties, LenProperties
  <2>4. QED
    BY <2>1, <2>2, <2>3, EmptyFits
<1>5. CASE Stop \/ TestRunning \/ Wait \/ UNCHANGED vars
  BY <1>5 DEF Stop, TestRunning, Wait, vars, shared, local
<1>6. QED
  BY <1>1, <1>2, <1>3, <1>4, <1>5 DEF Next, Logging, Backend

\* Every line append() has taken is written in order, on its way in order, or
\* given up with a batch that was too large, none is in two places, and no
\* buffer is filled past its capacity (async-logging.cc:52-66, 78-108), for
\* every capacity, backlog and number of lines.
THEOREM LinesAlwaysConserved == Spec => []LinesConserved
<1>1. Init => LinesInv
  <2> SUFFICES ASSUME Init PROVE LinesInv
    OBVIOUS
  <2>1. <<>> \in Seq(Lines) /\ <<>> \in Seq(Buffer) /\ <<>> \in Buffer
    BY EmptySeq DEF Buffer
  <2>0. Way = WayOf(<<>>, <<>>, <<>>, <<>>)
    BY DEF Init, Way, Unwritten, WayOf
  <2>2. Way = Cat(<<>>, Cat(FlattenSeq(<<>>), Cat(FlattenSeq(<<>>), <<>>)))
    BY <2>0, <2>1, WayForm
  <2>3. Way = <<>>
    BY <2>1, <2>2, FlattenEmpty, CatEmpty
  <2>4. Kept(<<>>, <<>>, 0)
    BY <2>1 DEF Kept, ToSet
  <2>5. QED
    BY <2>1, <2>3, <2>4 DEF Init, LinesInv
<1>2. IInv /\ IInv' /\ LinesInv /\ [Next]_vars => LinesInv'
  BY StepLines
<1>f. Init => FitInv
  BY EmptyFits DEF Init, FitInv
<1>s. IInv /\ IInv' /\ FitInv /\ [Next]_vars => FitInv'
  BY StepFits
<1>3. IInv /\ LinesInv /\ FitInv => LinesConserved
  <2> SUFFICES ASSUME IInv, LinesInv, FitInv PROVE LinesConserved
    OBVIOUS
  <2>1. TypeOK
    BY EmptyBuffer DEF IInv, LinesInv, BufferTypes, Spares, TypeOK
  <2>2. {current} \cup ToSet(buffers) \cup ToSet(buffersToWrite) \subseteq Fitting
    BY ElementOfSeq, LenProperties DEF FitInv, ToSet
  <2>3. QED
    BY <2>1, <2>2 DEF LinesInv, Kept, Way, LinesConserved
<1>4. QED
  BY <1>1, <1>2, <1>f, <1>s, <1>3, Invariance, PTL DEF Spec
=============================================================================
