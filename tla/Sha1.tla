-------------------------------- MODULE Sha1 --------------------------------
(* The streaming half of class SHA1 (sha1.cc): bytes are collected in a block,
   their number is counted in two words, and the last block is padded. The
   sizes are parameters, so that the borders of a block and of the counters are
   reached; what a block does to the digest is one, too (module Sha1Block).    *)
EXTENDS Naturals, Sequences

CONSTANTS Base,            \* values of a byte: 256
          Half,            \* bytes of Length_Low and of Length_High: 4
          BlockLen,        \* bytes of Message_Block: 64
          First,           \* the padding bit: 0x80
          H0,              \* the digest that Reset() stores
          Compress(_, _)   \* the digest after a block

Zeros(n) == [i \in 1..n |-> 0]
Room == BlockLen - 2 * Half   \* 56

Reset == [low |-> Zeros(Half), high |-> Zeros(Half), block |-> <<>>,
          h |-> H0, computed |-> FALSE, corrupted |-> FALSE]

(* A counter of Half bytes, most significant first: count += n, cut to its width. *)
Plus(count, n) ==
  LET Carry[i \in 1..Half + 1] == IF i = Half + 1 THEN n ELSE (count[i] + Carry[i + 1]) \div Base
  IN  [i \in 1..Half |-> (count[i] + Carry[i + 1]) % Base]

ProcessMessageBlock(c) == [c EXCEPT !.h = Compress(@, c.block), !.block = <<>>]

(* The body of the loop of Input: the counters run over before the block is full. *)
InputByte(c, byte) ==
  LET low     == Plus(c.low, 8)
      wrapped == low = Zeros(Half)
      high    == IF wrapped THEN Plus(c.high, 1) ELSE c.high
      next    == [c EXCEPT !.block = Append(@, byte), !.low = low, !.high = high,
                           !.corrupted = wrapped /\ high = Zeros(Half)]
  IN  IF Len(next.block) = BlockLen THEN ProcessMessageBlock(next) ELSE next

Input(c, bytes) ==
  LET After[n \in Nat] ==
        IF n = 0 THEN c
        ELSE LET before == After[n - 1]
             IN  IF before.corrupted THEN before ELSE InputByte(before, bytes[n])
  IN  IF bytes = <<>> THEN c
      ELSE IF c.computed \/ c.corrupted THEN [c EXCEPT !.corrupted = TRUE]
      ELSE After[Len(bytes)]

(* operator<<: one call of Input for every character. *)
Stream(c, bytes) ==
  LET After[n \in Nat] == IF n = 0 THEN c ELSE Input(After[n - 1], <<bytes[n]>>)
  IN  After[Len(bytes)]

Filled(c, upTo) == [c EXCEPT !.block = @ \o Zeros(upTo - Len(@))]

(* Fault: the second block begins one byte too late. *)
PadMessageLate(c) ==
  LET bit  == [c EXCEPT !.block = Append(@, First)]
      room == IF Len(c.block) > Room
              THEN ProcessMessageBlock(Filled(bit, BlockLen))
              ELSE bit
  IN  ProcessMessageBlock([Filled(room, Room) EXCEPT !.block = SubSeq(@, 1, Room) \o c.high \o c.low])

(* PadMessage: if the padding bit and the length do not fit the block any more
   there is one more.                                                          *)
PadMessage(c) ==
  LET bit  == [c EXCEPT !.block = Append(@, First)]
      room == IF Len(c.block) > Room - 1
              THEN ProcessMessageBlock(Filled(bit, BlockLen))
              ELSE bit
  IN  ProcessMessageBlock([Filled(room, Room) EXCEPT !.block = @ \o c.high \o c.low])

(* Result: fails on a corrupted context, pads once. *)
Result(c) ==
  IF c.corrupted THEN [ok |-> FALSE, context |-> c]
  ELSE [ok |-> TRUE, context |-> IF c.computed THEN c ELSE [PadMessage(c) EXCEPT !.computed = TRUE]]
=============================================================================
