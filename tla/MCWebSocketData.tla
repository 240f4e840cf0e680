--------------------------- MODULE MCWebSocketData ---------------------------
(* Sessions for TLC.                                                        *)
EXTENDS WebSocketData

Frame(o, m, e, n) ==
  [op |-> o, masked |-> m, ext |-> e, len |-> n, hiAll |-> FALSE, eos |-> FALSE]

Eos == [Frame("text", TRUE, 0, 3) EXCEPT !.eos = TRUE]
Close(n) == Frame("close", TRUE, 0, n)

Session(fs) == [headOK |-> TRUE, frames |-> fs]

\* What RFC 6455 clients send: every frame masked, every header length, payloads
\* longer than the key, empty and dropped frames, EOS and close frames.
Rfc == {
  Session(<<Frame("bin", TRUE, 0, 5), Frame("bin", TRUE, 2, 2), Eos>>),
  Session(<<Frame("text", TRUE, 8, 1), Frame("text", TRUE, 0, 3),
            Frame("bin", TRUE, 0, 0), Close(2)>>),
  Session(<<Close(0), Frame("bin", TRUE, 0, 1)>>),
  Session(<<[Frame("bin", TRUE, 8, 5) EXCEPT !.hiAll = TRUE]>>),
  [headOK |-> FALSE, frames |-> <<Eos>>]}

\* A client that does not mask all of its frames.
Unmasked == {Session(<<Frame("bin", FALSE, 0, 1), Frame("bin", TRUE, 0, 2), Eos>>),
             Session(<<Frame("bin", TRUE, 0, 1), Frame("bin", FALSE, 2, 1), Eos>>)}

Sessions == Rfc \cup Unmasked

\* A frame one longer than the parser's width, and the end of the session.
Oversize == {Session(<<Frame("bin", TRUE, 8, 5), Eos>>)}

\* The smallest session.
Short == {Session(<<Frame("bin", TRUE, 0, 1), Eos>>)}
=============================================================================
