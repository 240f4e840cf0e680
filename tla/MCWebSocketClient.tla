-------------------------- MODULE MCWebSocketClient --------------------------
(* Sessions for TLC, with bytes of one bit: lengths 0 and 1 fit the second   *)
(* byte, 2 takes two more, 3 and above take eight.                           *)
EXTENDS HostLookup

Results == {<<1, 2>>, <<3>>, <<4, 1>>, <<14>>}
=============================================================================
