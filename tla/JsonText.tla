------------------------------ MODULE JsonText ------------------------------
(* Printing and parsing of cJSON.cc. A tree is an item with its children, a
   text a sequence of tokens with their widths in bytes; what is inside a string
   is the matter of module JsonString. The print buffer keeps its length, its
   offset and whether anything was written behind its end.                     *)
EXTENDS Naturals, Sequences, SequencesExt, FiniteSets

CONSTANTS NestingLimit,  \* CJSON_NESTING_LIMIT
          Width(_),      \* bytes of the literal of string n, quotes included
          Folded(_)      \* string n in lower case

(* Items. A number is known by the width of its text, 0 for NaN and infinity; a
   raw item holds the literal of a string.                                      *)
Item(type, name, val, kids) == [type |-> type, name |-> name, val |-> val, kids |-> kids]

(* Tokens. *)
Tok(k) == [k |-> k, v |-> 0]
Num(n) == [k |-> "number", v |-> n]
Str(n) == [k |-> "string", v |-> n]
Tabs(n) == [i \in 1..n |-> Tok("tab")]
Blank == {"space", "tab", "newline", "NUL"}   \* bytes up to 32

Bytes(t) == CASE t.k = "string" -> Width(t.v)
              [] t.k = "number" -> t.v
              [] t.k \in {"null", "true"} -> 4
              [] t.k = "false" -> 5
              [] OTHER -> 1
RECURSIVE Size(_)
Size(text) == IF text = <<>> THEN 0 ELSE Bytes(Head(text)) + Size(Tail(text))

-----------------------------------------------------------------------------
(* printbuffer. tail is what strlen() finds behind offset. *)
Buffer(length, noalloc, format, intMax) ==
  [ok |-> TRUE, length |-> length, offset |-> 0, tail |-> 0, depth |-> 0, noalloc |-> noalloc,
   format |-> format, intMax |-> intMax, text |-> <<>>, overrun |-> FALSE]

(* Fault: no room is kept for the terminator. *)
EnsureNoTerminator(p, needed) ==
  LET all == needed + p.offset
      fail == [p EXCEPT !.ok = FALSE]
  IN  IF (p.length > 0 /\ p.offset >= p.length) \/ needed > p.intMax THEN fail
      ELSE IF all <= p.length THEN p
      ELSE IF p.noalloc \/ all > p.intMax THEN fail
      ELSE [p EXCEPT !.length = IF all > p.intMax \div 2 THEN p.intMax ELSE 2 * all]

(* ensure: room for needed bytes and a terminator, in a buffer that doubles. A
   realloc that fails ends the printing as a text that is too long does.        *)
Ensure(p, needed) ==
  LET all == needed + p.offset + 1
      fail == [p EXCEPT !.ok = FALSE]
  IN  IF (p.length > 0 /\ p.offset >= p.length) \/ needed > p.intMax THEN fail
      ELSE IF all <= p.length THEN p
      ELSE IF p.noalloc \/ all > p.intMax THEN fail
      ELSE [p EXCEPT !.length = IF all > p.intMax \div 2 THEN p.intMax ELSE 2 * all]

(* Reserve, then write the tokens at offset, with a terminator or without. *)
Write(p, needed, text, nul) ==
  LET q == Ensure(p, needed)
  IN  IF ~p.ok \/ ~q.ok THEN [p EXCEPT !.ok = FALSE]
      ELSE [q EXCEPT !.text = @ \o text, !.tail = Size(text),
                     !.overrun = @ \/ q.offset + Size(text) + nul > q.length]

(* update_offset, and offset += length where the code knows the length. *)
UpdateOffset(p) == [p EXCEPT !.offset = @ + p.tail, !.tail = 0]

(* print_number: 25 characters at most. *)
PrintNumber(p, n) ==
  IF n = 0 THEN UpdateOffset(Write(p, 4, <<Tok("null")>>, 1))
  ELSE IF n > 25 THEN [p EXCEPT !.ok = FALSE]
  ELSE UpdateOffset(Write(p, n, <<Num(n)>>, 1))

(* print_string_ptr: sizeof("\"\"") is 3. The case cJSON_Raw reserves as much. *)
PrintString(p, n) == Write(p, Width(n) + 1, <<Str(n)>>, 1)

RECURSIVE PrintValue(_, _), PrintArray(_, _, _), PrintObject(_, _, _)

(* The elements from the i-th on, and the closing bracket. *)
PrintArray(p, kids, i) ==
  IF i > Len(kids) THEN [Write(p, 2, <<Tok("]")>>, 1) EXCEPT !.depth = @ - 1]
  ELSE LET value == UpdateOffset(PrintValue(p, kids[i]))
           comma == IF p.format THEN <<Tok(","), Tok("space")>> ELSE <<Tok(",")>>
           next  == IF i = Len(kids) THEN value
                    ELSE UpdateOffset(Write(value, Len(comma) + 1, comma, 1))
       IN  PrintArray(next, kids, i + 1)

PrintObject(p, kids, i) ==
  IF i > Len(kids)
  THEN LET tabs == IF p.format THEN Tabs(p.depth - 1) ELSE <<>>
       IN  [Write(p, IF p.format THEN p.depth + 1 ELSE 2, Append(tabs, Tok("}")), 1) EXCEPT !.depth = @ - 1]
  ELSE LET indent == IF p.format THEN UpdateOffset(Write(p, p.depth, Tabs(p.depth), 0)) ELSE p
           key    == UpdateOffset(PrintString(indent, kids[i].name))
           colon  == IF p.format THEN <<Tok(":"), Tok("tab")>> ELSE <<Tok(":")>>
           value  == UpdateOffset(PrintValue(UpdateOffset(Write(key, Len(colon), colon, 0)), kids[i]))
           end    == (IF i < Len(kids) THEN <<Tok(",")>> ELSE <<>>)
                       \o (IF p.format THEN <<Tok("newline")>> ELSE <<>>)
       IN  PrintObject(UpdateOffset(Write(value, Len(end) + 1, end, 1)), kids, i + 1)

PrintValue(p, item) ==
  LET deeper(q) == [q EXCEPT !.depth = @ + 1]
      brace == IF p.format THEN <<Tok("{"), Tok("newline")>> ELSE <<Tok("{")>>
  IN  CASE ~p.ok -> p
        [] item.type \in {"null", "true", "false"} ->
             Write(p, Bytes(Tok(item.type)) + 1, <<Tok(item.type)>>, 1)
        [] item.type = "number" -> PrintNumber(p, item.val)
        [] item.type \in {"string", "raw"} -> PrintString(p, item.val)
        [] item.type = "array"  ->
             PrintArray(deeper(UpdateOffset(Write(p, 1, <<Tok("[")>>, 0))), item.kids, 1)
        [] item.type = "object" ->
             PrintObject(deeper(UpdateOffset(Write(p, Len(brace) + 1, brace, 0))), item.kids, 1)

(* print(): the buffer has 256 bytes, its length says 0. PrintBuffered starts with
   the length the caller asks for, PrintPreallocated cannot grow.                *)
PrintGrowing(item, format, intMax) == UpdateOffset(PrintValue(Buffer(0, FALSE, format, intMax), item))
PrintBuffered(item, prebuffer, format, intMax) == PrintValue(Buffer(prebuffer, FALSE, format, intMax), item)
PrintPreallocated(item, len, format, intMax) == PrintValue(Buffer(len, TRUE, format, intMax), item)

-----------------------------------------------------------------------------
(* parse_buffer: the text with its terminator, at a position. *)
Fail == [ok |-> FALSE, item |-> Item("null", 0, 0, <<>>), at |-> 0]
At(text, i, k) == i <= Len(text) /\ text[i].k = k

RECURSIVE SkipWhitespace(_, _)
(* buffer_skip_whitespace: the terminator counts as whitespace, and the last
   position is never left.                                                   *)
SkipWhitespace(text, i) ==
  IF i <= Len(text) /\ text[i].k \in Blank THEN SkipWhitespace(text, i + 1)
  ELSE IF i = Len(text) + 1 THEN i - 1 ELSE i

RECURSIVE ParseValue(_, _, _), ParseElements(_, _, _, _), ParseMembers(_, _, _, _)

(* The loop of parse_array, from an element that starts at i. *)
ParseElements(text, i, depth, kids) ==
  LET value == ParseValue(text, SkipWhitespace(text, i), depth)
      after == SkipWhitespace(text, value.at)
      all   == Append(kids, value.item)
  IN  IF ~value.ok THEN Fail
      ELSE IF At(text, after, ",") THEN ParseElements(text, after + 1, depth, all)
      ELSE IF At(text, after, "]")
      THEN [ok |-> TRUE, item |-> Item("array", 0, 0, all), at |-> after + 1]
      ELSE Fail

(* The loop of parse_object. *)
ParseMembers(text, i, depth, kids) ==
  LET name  == SkipWhitespace(text, i)
      colon == SkipWhitespace(text, name + 1)
      value == ParseValue(text, SkipWhitespace(text, colon + 1), depth)
      after == SkipWhitespace(text, value.at)
      all   == Append(kids, [value.item EXCEPT !.name = text[name].v])
  IN  IF ~At(text, name, "string") \/ ~At(text, colon, ":") THEN Fail
      ELSE IF ~value.ok THEN Fail
      ELSE IF At(text, after, ",") THEN ParseMembers(text, after + 1, depth, all)
      ELSE IF At(text, after, "}")
      THEN [ok |-> TRUE, item |-> Item("object", 0, 0, all), at |-> after + 1]
      ELSE Fail

(* parse_value; parse_number takes a number whole, being shorter than its 63 bytes. *)
ParseValue(text, i, depth) ==
  LET inner == SkipWhitespace(text, i + 1)
      leaf(type, v) == [ok |-> TRUE, item |-> Item(type, 0, v, <<>>), at |-> i + 1]
  IN  CASE \E k \in {"null", "true", "false"} : At(text, i, k) -> leaf(text[i].k, 0)
        [] At(text, i, "string") \/ At(text, i, "number") -> leaf(text[i].k, text[i].v)
        [] At(text, i, "[") -> IF depth >= NestingLimit THEN Fail
             ELSE IF At(text, inner, "]") THEN [leaf("array", 0) EXCEPT !.at = inner + 1]
             ELSE ParseElements(text, inner, depth + 1, <<>>)
        [] At(text, i, "{") -> IF depth >= NestingLimit THEN Fail
             ELSE IF At(text, inner, "}") THEN [leaf("object", 0) EXCEPT !.at = inner + 1]
             ELSE ParseMembers(text, inner, depth + 1, <<>>)
        [] OTHER -> Fail

(* cJSON_ParseWithOpts. *)
Parse(text, requireNullTerminated) ==
  LET whole == Append(text, Tok("NUL"))
      value == ParseValue(whole, SkipWhitespace(whole, 1), 0)
  IN  IF value.ok /\ requireNullTerminated /\ ~At(whole, SkipWhitespace(whole, value.at), "NUL")
      THEN Fail ELSE value

-----------------------------------------------------------------------------
(* get_object_item on a tree: the first child with the name. *)
Lookup(kids, name, caseSensitive) ==
  SelectSeq(kids, LAMBDA e : IF caseSensitive THEN e.name = name ELSE Folded(e.name) = Folded(name))

RECURSIVE Compare(_, _, _)
(* Fault: members are looked up one way only. *)
CompareOneWay(a, b, cs) ==
  /\ a.type = b.type
  /\ CASE a.type \in {"null", "true", "false"} -> TRUE
       [] a.type \in {"number", "string", "raw"} -> a.val = b.val
       [] a.type = "array" ->
            /\ Len(a.kids) = Len(b.kids)
            /\ \A i \in DOMAIN a.kids : Compare(a.kids[i], b.kids[i], cs)
       [] a.type = "object" ->
            \A i \in DOMAIN a.kids :
              LET hit == Lookup(b.kids, a.kids[i].name, cs) IN hit # <<>> /\ Compare(a.kids[i], hit[1], cs)

(* cJSON_Compare: members are looked up by name, both ways. The shortcut for the
   same pointer twice is left out: trees here are values.                       *)
Compare(a, b, cs) ==
  /\ a.type = b.type
  /\ CASE a.type \in {"null", "true", "false"} -> TRUE
       [] a.type \in {"number", "string", "raw"} -> a.val = b.val
       [] a.type = "array" ->
            /\ Len(a.kids) = Len(b.kids)
            /\ \A i \in DOMAIN a.kids : Compare(a.kids[i], b.kids[i], cs)
       [] a.type = "object" ->
            /\ \A i \in DOMAIN a.kids :
                 LET hit == Lookup(b.kids, a.kids[i].name, cs) IN hit # <<>> /\ Compare(a.kids[i], hit[1], cs)
            /\ \A i \in DOMAIN b.kids :
                 LET hit == Lookup(a.kids, b.kids[i].name, cs) IN hit # <<>> /\ Compare(b.kids[i], hit[1], cs)
=============================================================================
