------------------------------ MODULE LogLine ------------------------------
(* One line of the log: Logger (logging.cc) puts pieces into a LogStream
   (log-stream.cc) over a FixedBuffer (fixed-buffer.h). A piece that does not
   fit is dropped, the ones behind it are still tried.                        *)
EXTENDS Integers, Sequences, SequencesExt

CONSTANTS SmallBuffer,     \* kSmallBuffer: 4000
          MaxNumericSize,  \* kMaxNumericSize: 32
          DateTime         \* SIZE_OF_DATETIME: 27

(* Pieces: characters of a given number, and numbers. *)
Chars(n)  == [kind |-> "chars", len |-> n, value |-> 0]
Number(v) == [kind |-> "number", len |-> 0, value |-> v]

(* The remainder and the quotient of C, which round to zero. *)
Lsd(i)   == IF i < 0 /\ i % 10 # 0 THEN (i % 10) - 10 ELSE i % 10
Tenth(i) == IF i < 0 /\ i % 10 # 0 THEN (i \div 10) + 1 ELSE i \div 10

(* convert: the digits from the last to the first, through a table that is
   symmetric around zero, then reversed.                                    *)
Minus == 10
RECURSIVE DigitsOf(_)
DigitsOf(i) ==
  LET digit == IF Lsd(i) < 0 THEN -Lsd(i) ELSE Lsd(i)
  IN  IF Tenth(i) = 0 THEN <<digit>> ELSE <<digit>> \o DigitsOf(Tenth(i))
Convert(v) == Reverse(IF v < 0 THEN Append(DigitsOf(v), Minus) ELSE DigitsOf(v))

(* FixedBuffer. *)
Empty == [cur |-> 0, kept |-> <<>>]
Avail(b) == SmallBuffer - b.cur
Kept(b, piece, n) == [b EXCEPT !.cur = @ + n, !.kept = Append(@, piece)]

(* Fault: a number is written without a look at the room. *)
PutUnchecked(b, piece) ==
  IF piece.kind = "chars"
  THEN IF Avail(b) > piece.len THEN Kept(b, piece, piece.len) ELSE b
  ELSE Kept(b, piece, Len(Convert(piece.value)))

(* FixedBuffer::append, and formatInteger with convert(). *)
Put(b, piece) ==
  IF piece.kind = "chars"
  THEN IF Avail(b) > piece.len THEN Kept(b, piece, piece.len) ELSE b
  ELSE IF Avail(b) >= MaxNumericSize THEN Kept(b, piece, Len(Convert(piece.value))) ELSE b

RECURSIVE PutAll(_, _)
PutAll(b, pieces) == IF pieces = <<>> THEN b ELSE PutAll(Put(b, Head(pieces)), Tail(pieces))

(* The constructor writes the time, the destructor " -- ", the file, ':', the
   line and the end of line.                                                 *)
EndOfLine == [kind |-> "chars", len |-> 1, value |-> 1]
Suffix(basename, line) == <<Chars(4), Chars(basename), Chars(1), Number(line), EndOfLine>>
Pieces(message, basename, line) == <<Chars(DateTime)>> \o message \o Suffix(basename, line)
Line(message, basename, line) == PutAll(Empty, Pieces(message, basename, line))
=============================================================================
