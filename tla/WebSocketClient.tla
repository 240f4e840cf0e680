--------------------------- MODULE WebSocketClient ---------------------------
(***************************************************************************)
(* The client library (websocket-client.cc) on one blocking socket:        *)
(* webSocket_clientLinkToServer, then calls of webSocket_recv.  The        *)
(* server's stream is its HTTP response and the results it sends, and      *)
(* arrives in pieces of any size; the peer may close or reset at any time. *)
(***************************************************************************)
EXTENDS FrameCodec, FiniteSetsExt, SequencesExt

CONSTANTS Scripts,         \* each the payload lengths of the results of a session
          HttpEnd,         \* length of "HTTP"
          KeyEnd,          \* ... of the response up to the end of the key
          RespLen,         \* ... of the whole response
          DataMax,         \* dataMaxLen of webSocket_recv
          ConnectTimeout,  \* WEBSOCKET_LOGIN_CONNECT_TIMEOUT
          RespondTimeout,  \* WEBSOCKET_LOGIN_RESPOND_TIMEOUT
          Retries          \* the 50 of webSocket_recv

ASSUME ClientAssumption ==
  /\ HttpEnd \in Nat \ {0} /\ KeyEnd \in Nat /\ RespLen \in Nat
  /\ HttpEnd < KeyEnd /\ KeyEnd <= RespLen
  /\ DataMax \in Nat \ {0}
  /\ ConnectTimeout \in Nat /\ RespondTimeout \in Nat
  /\ ConnectTimeout < RespondTimeout
  /\ Retries \in Nat \ {0, 1}

\* A result is JSON text, never empty, and its length fits 32 bits.
ASSUME ScriptsAssumption == \A s \in Scripts : s \in Seq(1 .. Base4 - 1)

VARIABLES script,   \* results of this session
          match,    \* the response carries the key of the client's head
          conn,     \* the connection, as the client's kernel sees it
          wr,       \* bytes of the stream that have arrived
          rd,       \* bytes of it the client has read
          pc,       \* where the client is
          heads,    \* HTTP heads sent
          timeOut,  \* timeOut of the function the client is in
          start,    \* where in the stream recvBuf begins
          ret,      \* bytes in recvBuf
          frame,    \* retHeadLen and retLen
          again,    \* errno is EAGAIN or EINTR, from whatever call set it last
          out       \* what the last call of webSocket_recv returned

vars == <<script, match, conn, wr, rd, pc, heads, timeOut, start, ret, frame,
          again, out>>
peerVars == <<script, match, conn, wr>>
recvVars == <<start, ret, frame, again, out>>

\* The stream.  JSON and HTTP are text: no byte of theirs has the FIN bit.
Text == Base * Base
TextOf(n) == [i \in 1 .. n |-> Text]
Frames(s) == [i \in DOMAIN s |-> SendResultHead(s[i]) \o TextOf(s[i])]
Stream == TextOf(RespLen) \o FlattenSeq(Frames(script))

\* Where the frames begin.
FrameAt(i) == RespLen + Len(FlattenSeq(SubSeq(Frames(script), 1, i - 1)))

Avail == wr - rd

\* What is known of a call: its return value, where in the stream its buffer and
\* the payload it copied begin, the bytes it took.
Outcomes == [n : Int, start : Nat, from : Nat, took : 0 .. DataMax]
NoOutcome == [n |-> 0, start |-> 0, from |-> 0, took |-> 0]

TypeOK ==
  /\ script \in Scripts /\ match \in BOOLEAN
  /\ conn \in {"none", "open", "fin", "rst", "closed"}
  /\ wr \in 0 .. Len(Stream) /\ rd \in 0 .. wr
  /\ pc \in {"connect", "await", "linked", "more", "failed"}
  /\ heads \in 0 .. RespondTimeout + 1
  /\ timeOut \in 0 .. RespondTimeout + Retries + 1
  /\ start \in 0 .. rd
  /\ ret \in 0 .. DataMax
  /\ frame \in [head : Nat, len : Nat]
  /\ again \in BOOLEAN
  /\ out \in Outcomes

Init ==
  /\ script \in Scripts /\ match \in BOOLEAN
  /\ conn = "none" /\ wr = 0 /\ rd = 0
  /\ pc = "connect" /\ heads = 0 /\ timeOut = 0
  /\ start = 0 /\ ret = 0 /\ frame = NoHead /\ again \in BOOLEAN
  /\ out = NoOutcome

-----------------------------------------------------------------------------
(* The peer.                                                               *)

\* Bytes arrive: the response to a head, results for a linked client.
Deliver ==
  /\ conn = "open" /\ heads > 0
  /\ \E k \in wr + 1 .. IF pc = "await" THEN RespLen ELSE Len(Stream) : wr' = k
  /\ UNCHANGED <<script, match, conn, rd, pc, heads, timeOut, recvVars>>

PeerEnds ==
  /\ conn = "open"
  /\ conn' \in {"fin", "rst"}
  /\ UNCHANGED <<script, match, wr, rd, pc, heads, timeOut, recvVars>>

-----------------------------------------------------------------------------
(* webSocket_clientLinkToServer.                                           *)

\* connect() succeeds and the head is sent ...
Connect ==
  /\ pc = "connect"
  /\ conn' = "open"
  /\ heads' = 1
  /\ pc' = "await"
  /\ UNCHANGED <<script, match, wr, rd, timeOut, recvVars>>

\* ... or fails: once more after 1 ms, a thousand times.  Or there is no socket to
\* begin with.
ConnectFails ==
  /\ pc = "connect"
  /\ \/ /\ timeOut' = timeOut + 1
        /\ pc' = IF timeOut' > ConnectTimeout THEN "failed" ELSE "connect"
     \/ /\ timeOut = 0
        /\ pc' = "failed"
        /\ UNCHANGED timeOut
  /\ UNCHANGED <<peerVars, rd, heads, recvVars>>

\* if (++timeOut > ...) close
CountWait ==
  /\ timeOut' = timeOut + 1
  /\ IF timeOut' > RespondTimeout
     THEN pc' = "failed" /\ conn' = "closed"
     ELSE UNCHANGED <<pc, conn>>

\* A piece of k bytes has "HTTP" at its start, and the right key whole.  recBuf
\* has room for every response.
IsHttp(k) == rd = 0 /\ k >= HttpEnd

\* Fault: the key is looked for in every piece.
MatchedLate(k) == match /\ rd + k >= KeyEnd

Matched(k) == IsHttp(k) /\ match /\ k >= KeyEnd

\* recv() returns a piece.  Each is looked at by itself: one that begins like a
\* response without a key that matches makes the client send its head again.
LinkRecv ==
  /\ pc = "await" /\ Avail > 0
  /\ rd' = rd + Avail
  /\ \/ /\ Matched(Avail)
        /\ pc' = "linked" /\ timeOut' = 0
        /\ UNCHANGED <<heads, conn>>
     \/ /\ ~Matched(Avail)
        /\ heads' = IF IsHttp(Avail) THEN heads + 1 ELSE heads
        /\ CountWait
  /\ UNCHANGED <<script, match, wr, recvVars>>

\* recv() returns 0 or -1, which it does only when the peer has ended.
LinkRecvNothing ==
  /\ pc = "await" /\ Avail = 0 /\ conn # "open"
  /\ CountWait
  /\ UNCHANGED <<script, match, wr, rd, heads, recvVars>>

-----------------------------------------------------------------------------
(* webSocket_recv.                                                         *)

\* What dePackage makes of text.  A text byte whose low half is 0 passes for the
\* start of a middle frame, with any length in the bytes behind it.
OfText == {NoHead} \cup [head : {2, 10}, len : {1, DataMax + 1}]

\* retHeadLen and retLen for the k bytes from position s.
Decoded(s, k) ==
  IF Stream[s + 1] = FinText THEN {DeHead(SubSeq(Stream, s + 1, s + k))}
  ELSE IF k < 2 THEN {NoHead} ELSE OfText

\* Fault: whatever is not whole is not a frame.
NotWhole(d, k) == d = NoHead \/ k < d.head + d.len

\* dpRet == WDT_ERR && retLen == 0: no frame to be seen, or an empty one whose
\* masking key is cut.
NonPacket(d, k) == d.len = 0 /\ (d = NoHead \/ k < d.head)

\* ret < retHeadLen + retLen, for a payload that fits data
Incomplete(d, k) == ~NonPacket(d, k) /\ d.len <= DataMax /\ k < d.head + d.len

\* retFinal, when the call returns at once or after the rest has come
Final(d, k) == IF NonPacket(d, k) THEN -k ELSE IF d.len > DataMax THEN 0 ELSE d.len

\* The call returns n, and its locals are gone.
Return(n, s, d, k) ==
  /\ out' = [n |-> n, start |-> s, from |-> s + d.head, took |-> k]
  /\ pc' = "linked" /\ timeOut' = 0
  /\ start' = 0 /\ ret' = 0 /\ frame' = NoHead

\* The first recv().
Recv ==
  /\ pc = "linked" /\ Avail > 0
  /\ LET k == Min({Avail, DataMax}) IN
     /\ rd' = rd + k
     /\ \E d \in Decoded(rd, k) :
          \/ /\ Incomplete(d, k)
             /\ pc' = "more" /\ timeOut' = Retries
             /\ start' = rd /\ ret' = k /\ frame' = d
             /\ out' = NoOutcome
          \/ /\ ~Incomplete(d, k)
             /\ Return(Final(d, k), rd, d, k)
  /\ UNCHANGED <<peerVars, heads, again>>

\* recv() finds the peer gone: 0, or -1 and ECONNRESET.
RecvNothing ==
  /\ pc = "linked" /\ Avail = 0 /\ conn # "open"
  /\ Return(0, rd, NoHead, 0)
  /\ again' = (again /\ conn = "fin")
  /\ UNCHANGED <<peerVars, rd, heads>>

\* recv() of a further piece, until the frame is whole.
RecvMore ==
  /\ pc = "more" /\ Avail > 0 /\ ret < DataMax
  /\ LET k == Min({Avail, DataMax - ret}) IN
     /\ rd' = rd + k
     /\ \/ /\ ret + k < frame.head + frame.len
           /\ ret' = ret + k
           /\ timeOut' = Retries - 1
           /\ UNCHANGED <<pc, start, frame, out>>
        \/ /\ ret + k >= frame.head + frame.len
           /\ Return(frame.len, start, frame, ret + k)
  /\ UNCHANGED <<peerVars, heads, again>>

\* recv() gives nothing: the peer has ended, or the buffer has no room.
NothingMore == \/ Avail = 0 /\ conn # "open"
               \/ Avail > 0 /\ ret = DataMax

\* Fault: a wait that brings nothing is not counted.
RecvMoreNothingForFree ==
  /\ pc = "more"
  /\ NothingMore
  /\ again' = (again /\ (conn = "rst" => Avail > 0))
  /\ \/ again' /\ UNCHANGED <<pc, timeOut, start, ret, frame, out>>
     \/ ~again' /\ Return(0, start, frame, ret)
  /\ UNCHANGED <<peerVars, rd, heads>>

\* errno is looked at also when recv() returned 0 and did not set it.
RecvMoreNothing ==
  /\ pc = "more"
  /\ NothingMore
  /\ again' = (again /\ (conn = "rst" => Avail > 0))
  /\ \/ /\ again' /\ timeOut > 1
        /\ timeOut' = timeOut - 1
        /\ UNCHANGED <<pc, start, ret, frame, out>>
     \/ /\ ~again' \/ timeOut <= 1
        /\ Return(0, start, frame, ret)
  /\ UNCHANGED <<peerVars, rd, heads>>

-----------------------------------------------------------------------------
Client == Connect \/ ConnectFails \/ LinkRecv \/ LinkRecvNothing
            \/ Recv \/ RecvNothing \/ RecvMore \/ RecvMoreNothing

Next == Client \/ Deliver \/ PeerEnds

Spec == Init /\ [][Next]_vars

-----------------------------------------------------------------------------
\* A linked client has seen its own key, and has sent one head only: no second
\* one is on its way to a server that already takes frames
\* (websocket-client.cc:1067-1088).
LinkedOnce == pc \in {"linked", "more"} => heads = 1 /\ match /\ rd >= KeyEnd

\* A call of webSocket_recv that starts on a frame and returns a length returns
\* that frame's payload, whole, however the stream was cut; the buffer is never
\* filled past its end.
RecvWhole ==
  /\ TypeOK
  /\ \A i \in DOMAIN script :
       out.n > 0 /\ out.start = FrameAt(i) =>
         /\ out.n = script[i]
         /\ out.from = FrameAt(i) + Len(SendResultHead(script[i]))
         /\ out.took >= Len(Frames(script)[i])

\* The ways to lose a frame on which a call started: it is taken for other data
\* only if its head is cut, and given up only if head and payload do not fit
\* the buffer or the peer has ended (websocket-client.cc:1209-1253).
RecvLoses ==
  \A i \in DOMAIN script :
    out.start = FrameAt(i) /\ out.took > 0 =>
      /\ out.n < 0 => out.took < Len(SendResultHead(script[i]))
      /\ out.n = 0 => Len(Frames(script)[i]) > DataMax \/ conn # "open"
=============================================================================
