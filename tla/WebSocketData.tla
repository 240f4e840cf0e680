---------------------------- MODULE WebSocketData ----------------------------
(***************************************************************************)
(* server::WebSocketData (websocket-data.cc): one connection, from the     *)
(* HTTP upgrade to the final result, as its worker loop drives it.         *)
(*                                                                         *)
(* The byte stream the peer sends is fixed by its script: HeadLen bytes of *)
(* HTTP head, then frames.  TCP cuts it where it likes, so the model keeps *)
(* how many bytes have arrived (wr) and how many were read (rd); a frame   *)
(* is a descriptor, a payload byte the pair of its frame and its offset.   *)
(* XOR with the right byte of the right masking key gives the payload      *)
(* byte back, XOR with anything else gives Junk.                           *)
(*                                                                         *)
(* A handler is one action: it looks at FIONREAD once and reads no more    *)
(* than that, so what arrives meanwhile cannot change what it does; the    *)
(* one exception, a reset before the answer to the head, is an action of   *)
(* its own.  epoll_wait is another: the peer may act between the two.      *)
(***************************************************************************)
EXTENDS Integers, Sequences, SequencesExt

CONSTANTS HeadLen,    \* bytes of the peer's HTTP head
          LenMod,     \* the width of the length the parser keeps, 2^32
          Scripts     \* the sessions peers may have in mind

(* A script is a record: headOK (the head ends its lines with CRLF and is  *)
(* complete), frames.  A frame: op, masked, ext (bytes of extended length: *)
(* 0, 2 or 8), len, hiAll (the four high bytes of a 64-bit length are all  *)
(* different from 0), eos (the payload is "EOS").                          *)

FrameType == [op : {"cont", "text", "bin", "close", "ping", "pong"}, masked : BOOLEAN,
              ext : {0, 2, 8}, len : Nat, hiAll : BOOLEAN, eos : BOOLEAN]

ASSUME DataAssumption ==
  /\ HeadLen \in Nat \ {0} /\ LenMod \in Nat \ {0}
  /\ \A s \in Scripts : s.headOK \in BOOLEAN /\ s.frames \in Seq(FrameType)

VARIABLES script,    \* the peer's script
          wr,        \* bytes of it that have arrived
          rd,        \* bytes of it that have been read
          fin,       \* the peer has closed its side
          rst,       \* the peer has reset the connection
          sockErr,   \* ... and no system call has returned the error yet
          ev,        \* what epoll_wait reported, until it is handled
          state,     \* state_
          packet,    \* readPacket_
          data,      \* its buffer: the len bytes received so far
          received,  \* what the decoder and the file were given
          reply,     \* the last thing sent to the peer
          insync,    \* the parser reads frame headers where the peer put them
          killed     \* SIGPIPE ended the process

peerVars == <<script, wr, fin, rst>>
vars == <<script, wr, rd, fin, rst, sockErr, ev, state, packet, data,
          received, reply, insync, killed>>

NoFrame == 0
Junk == <<NoFrame, 0>>   \* a byte that is nobody's payload
\* masking_key_ holds the key of the last masked frame; before the first, it
\* is uninitialised heap memory: all zero, or anything else.
ZeroKey == 0
WildKey == -1

frames == script.frames

\* The stream's layout.
HeaderLen(g) == 2 + g.ext + (IF g.masked THEN 4 ELSE 0)
FrameLen(g) == HeaderLen(g) + g.len
StartOf(f) ==
  LET end[n \in 0..Len(frames)] ==
        IF n = 0 THEN HeadLen ELSE end[n - 1] + FrameLen(frames[n])
  IN  end[f - 1]
StreamLen == StartOf(Len(frames) + 1)

\* Sessions end with a close frame or the text EOS.
Ends(g) == g.op = "close" \/ (g.op = "text" /\ g.len = 3 /\ g.eos)
\* Frames that carry something to recognise: the others' payload is dropped.
Carries(g) == g.op # "close" /\ ~(g.op = "text" /\ g.len = 3) /\ g.len > 0
Payload(f) == [k \in 1..frames[f].len |-> <<f, k - 1>>]

TypeOK ==
  /\ script \in Scripts
  /\ wr \in 0..StreamLen
  /\ rd \in 0..wr
  /\ {fin, rst, sockErr, insync, killed} \subseteq BOOLEAN
  /\ ev \in {"none", "in", "err"}
  /\ state \in {"HEAD", "DATA", "CLOSE", "ERROR"}
  /\ packet.state \in {"INIT", "HEAD_126", "HEAD_127", "MASK", "DATA"}
  /\ packet.frame \in 0..Len(frames)
  /\ packet.key \in {ZeroKey, WildKey} \cup 1..Len(frames)
  /\ packet.len = Len(data)
  /\ reply \in {"none", "101", "400", "middle", "final"}

\* The constructor.  Packet() leaves masking_key_ uninitialised.
Init ==
  /\ script \in Scripts
  /\ wr = 0 /\ rd = 0
  /\ fin = FALSE /\ rst = FALSE /\ sockErr = FALSE
  /\ ev = "none"
  /\ state = "HEAD"
  /\ \E key \in {ZeroKey, WildKey} :
       packet = [state |-> "INIT", frame |-> NoFrame, len |-> 0, key |-> key]
  /\ data = <<>>
  /\ received = <<>>
  /\ reply = "none"
  /\ insync = TRUE
  /\ killed = FALSE

Open == state \in {"HEAD", "DATA"} /\ ~killed /\ insync

-----------------------------------------------------------------------------
(* The peer.  It waits for the 101 before it sends frames.                 *)

Deliver ==
  /\ Open /\ ~fin /\ ~rst
  /\ \E n \in (wr + 1)..(IF state = "HEAD" THEN HeadLen ELSE StreamLen) : wr' = n
  /\ UNCHANGED <<script, rd, fin, rst, sockErr, ev, state, packet, data,
                 received, reply, insync, killed>>

PeerCloses ==
  /\ Open /\ ~fin /\ ~rst
  /\ fin' = TRUE
  /\ UNCHANGED <<script, wr, rd, rst, sockErr, ev, state, packet, data,
                 received, reply, insync, killed>>

PeerResets ==
  /\ Open /\ ~rst
  /\ rst' = TRUE
  /\ sockErr' = TRUE
  /\ UNCHANGED <<script, wr, rd, fin, ev, state, packet, data, received, reply,
                 insync, killed>>

-----------------------------------------------------------------------------
(* The worker's loop.                                                      *)

\* The connection is registered for EPOLLIN, level-triggered.  A pending
\* socket error is reported as EPOLLERR, whatever the registration.
Poll ==
  /\ Open /\ ev = "none"
  /\ wr > rd \/ fin \/ rst
  /\ ev' = IF sockErr THEN "err" ELSE "in"
  /\ UNCHANGED <<peerVars, rd, sockErr, state, packet, data, received, reply,
                 insync, killed>>

\* Channel::handleEvents: an error is handed to errorHandler_, which nobody
\* sets, and the handler returns.
HandleError ==
  /\ Open /\ ev = "err"
  /\ ev' = "none"
  /\ UNCHANGED <<peerVars, rd, sockErr, state, packet, data, received, reply,
                 insync, killed>>

\* write(2): on a reset connection the first call that fails takes the
\* pending error, any later one raises SIGPIPE, for which no handler is set.
WriteKills == rst /\ ~sockErr
Write(what) ==
  /\ killed' = WriteKills
  /\ sockErr' = FALSE
  /\ reply' = IF rst THEN reply ELSE what

\* Fault: the upgrade is accepted and not answered.
HandleHeadUnanswered ==
  /\ Open /\ ev = "in" /\ state = "HEAD"
  /\ ~fin /\ ~rst
  /\ rd' = wr
  /\ state' = IF wr = HeadLen /\ script.headOK THEN "DATA" ELSE "ERROR"
  /\ ev' = "none"
  /\ UNCHANGED <<peerVars, sockErr, packet, data, received, reply, insync, killed>>

\* readAndParseHead reads until EAGAIN; the head is whole if the bytes read
\* end where it ends.
HandleHead ==
  /\ Open /\ ev = "in" /\ state = "HEAD"
  /\ ~fin /\ ~rst
  /\ rd' = wr
  /\ IF wr = HeadLen /\ script.headOK
     THEN state' = "DATA" /\ Write("101")
     ELSE state' = "ERROR" /\ Write("400")
  /\ ev' = "none"
  /\ UNCHANGED <<peerVars, packet, data, received, insync>>

\* ... or until read returns 0: ERROR_CLIENT_CLOSE, whatever was read before.
HandleHeadEof ==
  /\ Open /\ ev = "in" /\ state = "HEAD"
  /\ fin /\ ~rst
  /\ rd' = wr
  /\ state' = "ERROR"
  /\ ev' = "none"
  /\ UNCHANGED <<peerVars, sockErr, packet, data, received, reply, insync, killed>>

\* ... or until read fails, which takes the pending error: ERROR_PARSE_HEAD,
\* and the 400 is written to a connection that is gone.
HandleHeadReset ==
  /\ Open /\ ev = "in" /\ state = "HEAD"
  /\ rst /\ sockErr
  /\ rd' = wr
  /\ state' = "ERROR"
  /\ killed' = TRUE
  /\ sockErr' = FALSE
  /\ ev' = "none"
  /\ UNCHANGED <<peerVars, packet, data, received, reply, insync>>

\* The peer resets between the read and the answer: writing the 101 or the 400
\* fails and takes the pending error.
HandleHeadLostPeer ==
  /\ Open /\ ev = "in" /\ state = "HEAD"
  /\ ~fin /\ ~rst
  /\ rst' = TRUE
  /\ rd' = wr
  /\ state' = "ERROR"
  /\ ev' = "none"
  /\ UNCHANGED <<script, wr, fin, sockErr, packet, data, received, reply, insync,
                 killed>>

-----------------------------------------------------------------------------
(* readAndParsePacket as a pipeline of its five stages.  What is passed    *)
(* along: p, the packet; buf, its bytes; at, the read position; bytes, the *)
(* local copy of FIONREAD; ret, "go" until a stage returns (0 or -1).      *)

\* PACKET_INIT: reset, then the two bytes every header has.
Stage0(s) ==
  IF s.p.state # "INIT" THEN s ELSE
  LET fresh == [s.p EXCEPT !.frame = NoFrame, !.len = 0]
  IN  IF s.bytes < 2 THEN [s EXCEPT !.p = fresh, !.buf = <<>>, !.ret = "0"]
      ELSE IF \E f \in 1..Len(frames) : StartOf(f) = s.at
      THEN LET f == CHOOSE f \in 1..Len(frames) : StartOf(f) = s.at
               next == CASE frames[f].ext = 0 -> "MASK"
                         [] frames[f].ext = 2 -> "HEAD_126"
                         [] frames[f].ext = 8 -> "HEAD_127"
           IN  [s EXCEPT !.p = [fresh EXCEPT !.frame = f, !.state = next],
                         !.buf = <<>>, !.at = @ + 2, !.bytes = @ - 2]
      ELSE [s EXCEPT !.ret = "lost"]

\* PACKET_HEAD_126 and PACKET_HEAD_127: the extended length.  A 64-bit length
\* is refused only if its four high bytes are all different from 0.
StageExt(s) ==
  IF s.ret # "go" \/ s.p.state \notin {"HEAD_126", "HEAD_127"} THEN s ELSE
  LET g == frames[s.p.frame]
  IN  IF s.bytes < g.ext THEN [s EXCEPT !.ret = "0"]
      ELSE IF g.ext = 8 /\ g.hiAll THEN [s EXCEPT !.at = @ + 8, !.ret = "-1"]
      ELSE [s EXCEPT !.p.state = "MASK", !.at = @ + g.ext, !.bytes = @ - g.ext]

\* body_size_ of the packet: a 64-bit length is cut to its low half.
BodySize(g) == IF g.ext = 8 THEN g.len % LenMod ELSE g.len

\* PACKET_MASK: the key, if the frame has one; else the old one stays.
StageMask(s) ==
  IF s.ret # "go" \/ s.p.state # "MASK" THEN s ELSE
  IF ~frames[s.p.frame].masked THEN [s EXCEPT !.p.state = "DATA"]
  ELSE IF s.bytes < 4 THEN [s EXCEPT !.ret = "0"]
  ELSE [s EXCEPT !.p.state = "DATA", !.p.key = s.p.frame,
                 !.at = @ + 4, !.bytes = @ - 4]

\* Payload byte k of frame f, as sent, XORed with byte j of the key.
Xor(f, k, key, j) ==
  IF frames[f].masked
  THEN IF key = f /\ j = k % 4 THEN <<f, k>> ELSE Junk
  ELSE IF key = ZeroKey THEN <<f, k>> ELSE Junk

\* Fault: every read starts again with the first byte of the key.
StageDataRestartsKey(s) ==
  IF s.ret # "go" \/ s.p.state # "DATA" THEN s ELSE
  LET f == s.p.frame
      body == BodySize(frames[f])
      readLen == IF s.bytes > body - s.p.len THEN body - s.p.len ELSE s.bytes
      got == [i \in 1..readLen |-> Xor(f, s.p.len + i - 1, s.p.key, (i - 1) % 4)]
  IN  [s EXCEPT !.at = @ + readLen, !.bytes = @ - readLen,
                !.buf = @ \o got, !.p.len = @ + readLen,
                !.p.state = IF s.p.len + readLen = body THEN "INIT" ELSE "DATA"]

\* Fault: the read takes up to a whole payload, whatever len_ is.
StageDataGreedy(s) ==
  IF s.ret # "go" \/ s.p.state # "DATA" THEN s ELSE
  LET f == s.p.frame
      body == BodySize(frames[f])
      readLen == IF s.bytes > body THEN body ELSE s.bytes
      got == [i \in 1..readLen |-> Xor(f, s.p.len + i - 1, s.p.key,
                                       (s.p.len + i - 1) % 4)]
  IN  [s EXCEPT !.at = @ + readLen, !.bytes = @ - readLen,
                !.buf = @ \o got, !.p.len = @ + readLen,
                !.p.state = IF s.p.len + readLen >= body THEN "INIT" ELSE "DATA"]

\* PACKET_DATA: what is there of the payload, unmasked in place.
StageData(s) ==
  IF s.ret # "go" \/ s.p.state # "DATA" THEN s ELSE
  LET f == s.p.frame
      body == BodySize(frames[f])
      readLen == IF s.bytes > body - s.p.len THEN body - s.p.len ELSE s.bytes
      got == [i \in 1..readLen |-> Xor(f, s.p.len + i - 1, s.p.key,
                                       (s.p.len + i - 1) % 4)]
  IN  [s EXCEPT !.at = @ + readLen, !.bytes = @ - readLen,
                !.buf = @ \o got, !.p.len = @ + readLen,
                !.p.state = IF s.p.len + readLen = body THEN "INIT" ELSE "DATA"]

\* One call, as the set of its only outcome.
readAndParsePacket ==
  LET start == {[p |-> packet, buf |-> data, at |-> rd, bytes |-> wr - rd,
                 ret |-> "go"]}
      init == {Stage0(s) : s \in start}
      ext  == {StageExt(s) : s \in init}
      mask == {StageMask(s) : s \in ext}
  IN  {StageData(s) : s \in mask}

-----------------------------------------------------------------------------
(* processPacket and what follows it.  After a read that brought no header *)
(* the packet is empty, of opcode 0 and complete.                          *)

Complete(p) == p.state = "INIT"
Op(p) == IF p.frame = NoFrame THEN "cont" ELSE frames[p.frame].op
IsClose(p) == Op(p) = "close"
\* Fault: the terminating zero is counted.
IsShortTextOfFour(p) == Op(p) = "text" /\ Complete(p) /\ p.len = 4
IsShortText(p) == Op(p) = "text" /\ Complete(p) /\ p.len = 3
IsEos(p, buf) ==
  IsShortText(p) /\ frames[p.frame].eos /\ buf = Payload(p.frame)

HandleData ==
  /\ Open /\ ev = "in" /\ state = "DATA"
  /\ \E s \in readAndParsePacket :
         /\ rd' = s.at
         /\ packet' = s.p
         /\ data' = s.buf
         /\ insync' = (s.ret # "lost")
         /\ CASE s.ret = "lost" ->
                   UNCHANGED <<state, received, reply, killed, sockErr>>
              [] s.ret = "-1" ->
                   /\ state' = "ERROR"
                   /\ UNCHANGED <<received, reply, killed, sockErr>>
              [] s.ret \in {"go", "0"} /\ (IsClose(s.p) \/ IsEos(s.p, s.buf)) ->
                   /\ state' = "CLOSE"
                   /\ Write("final")
                   /\ UNCHANGED received
              [] s.ret \in {"go", "0"} /\ Complete(s.p)
                   /\ ~IsClose(s.p) /\ ~IsShortText(s.p) ->
                   /\ received' = IF s.buf = <<>> THEN received
                                  ELSE Append(received, s.buf)
                   /\ Write("middle")
                   /\ UNCHANGED state
              [] OTHER -> UNCHANGED <<state, received, reply, killed, sockErr>>
  /\ ev' = "none"
  /\ UNCHANGED peerVars

-----------------------------------------------------------------------------
Handle == HandleError \/ HandleHead \/ HandleHeadEof \/ HandleHeadReset
          \/ HandleHeadLostPeer \/ HandleData

Next == Deliver \/ PeerCloses \/ PeerResets \/ Poll \/ Handle

Spec == Init /\ [][Next]_vars

\* The worker's thread keeps running; the peer may stop at any point.
FairSpec == Spec /\ WF_vars(Poll) /\ WF_vars(Handle)

-----------------------------------------------------------------------------
\* The frames up to the n-th that the decoder is to be given.
Wanted(n) == FlattenSeq([f \in 1..n |-> IF Carries(frames[f]) THEN <<f>> ELSE <<>>])

FirstEnd == CHOOSE f \in 1..Len(frames) :
               Ends(frames[f]) /\ \A g \in 1..(f - 1) : ~Ends(frames[g])

\* The decoder gets the payload of the data frames in order, however TCP cuts the
\* stream, and that of a masked one whole and unmasked, whatever key the frames
\* before it left; when the session ends normally it has got all of them
\* (websocket-data.cc:410-434, 538-546).
PayloadIntact ==
  LET wanted == Wanted(Len(frames))
  IN  /\ Len(received) <= Len(wanted)
      /\ \A k \in DOMAIN received :
           frames[wanted[k]].masked => received[k] = Payload(wanted[k])
      /\ state = "CLOSE" => Len(received) = Len(Wanted(FirstEnd - 1))

\* The parser never takes payload for a header, masked or not, and every variable
\* keeps its type (websocket-data.cc:311-436).
InSync == TypeOK /\ insync

\* Results follow the upgrade and nothing follows the final one or the 400.
ReplyProtocol ==
  [][reply' # reply => <<reply, reply'>> \in
       {<<"none", "101">>, <<"none", "400">>, <<"101", "middle">>,
        <<"101", "final">>, <<"middle", "final">>}]_reply

\* A session whose EOS or close frame has arrived is closed, which gives the
\* worker back, also when several frames arrived at once (one is parsed per
\* event) and when the peer has closed by then; and a peer that leaves before its
\* head is accepted costs no worker. A reset is another matter, because
\* handleEvents ignores it.
SessionEnds ==
  /\ (/\ state = "DATA"
      /\ \E f \in 1..Len(frames) : Ends(frames[f]) /\ wr >= StartOf(f + 1))
     ~> (state = "CLOSE" \/ rst)
  /\ (state = "HEAD" /\ fin) ~> (state = "ERROR" \/ rst)

\* "body len too big, error." (websocket-data.cc:373): a frame whose length does
\* not fit the parser's width never gets past its length.
OversizeRefused ==
  packet.frame # NoFrame /\ frames[packet.frame].len >= LenMod
    => packet.state = "HEAD_127"

\* SIGPIPE is handled (dog-server.cc:42): no peer can end the process.
SurvivesReset == ~killed
=============================================================================
