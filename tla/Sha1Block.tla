------------------------------ MODULE Sha1Block ------------------------------
(* SHA1::ProcessMessageBlock on one block of 64 bytes. A word is the pair of
   its halves of 16 bits: TLC's integers do not hold an unsigned word.        *)
EXTENDS Naturals, Sequences, Bitwise

Half16 == 65536
Words(s) == [k \in 1..Len(s) \div 4 |-> <<s[(4 * k) - 3] * 256 + s[(4 * k) - 2], s[(4 * k) - 1] * 256 + s[4 * k]>>]
(* The bytes of a word, most significant first. *)
Bytes(w) == <<w[1] \div 256, w[1] % 256, w[2] \div 256, w[2] % 256>>

Add(a, b) == LET low == a[2] + b[2]
             IN  <<(a[1] + b[1] + (low \div Half16)) % Half16, low % Half16>>
Xor2(a, b) == <<a[1] ^^ b[1], a[2] ^^ b[2]>>
And2(a, b) == <<a[1] & b[1], a[2] & b[2]>>
Or2(a, b)  == <<a[1] | b[1], a[2] | b[2]>>
Not2(a)    == <<Half16 - 1 - a[1], Half16 - 1 - a[2]>>
CircularShift(n, w) ==
  LET h == IF n < 16 THEN w ELSE <<w[2], w[1]>>
      k == 2 ^ (n % 16)
  IN  <<((h[1] * k) % Half16) + ((h[2] * k) \div Half16), ((h[2] * k) % Half16) + ((h[1] * k) \div Half16)>>

K == Words(<<90, 130, 121, 153, 110, 217, 235, 161, 143, 27, 188, 220, 202, 98, 193, 214>>)
H0 == Words(<<103, 69, 35, 1, 239, 205, 171, 137, 152, 186, 220, 254, 16, 50, 84, 118, 195, 210, 225, 240>>)

(* W[0..t]; a TLA+ sequence starts at 1. *)
Expand(block) ==
  LET W[t \in Nat] ==
        IF t <= 15 THEN Words(block)
        ELSE LET w == W[t - 1]
             IN  Append(w, CircularShift(1, Xor2(Xor2(w[t - 2], w[t - 7]), Xor2(w[t - 13], w[t - 15]))))
  IN  W[79]

(* One round of the four loops, on v = <<E, D, C, B, A>>. *)
Round(v, w, t) ==
  LET f == CASE t \in 0..19  -> Or2(And2(v[4], v[3]), And2(Not2(v[4]), v[2]))
             [] t \in 40..59 -> Or2(And2(v[4], v[3]), Or2(And2(v[4], v[2]), And2(v[3], v[2])))
             [] OTHER        -> Xor2(v[4], Xor2(v[3], v[2]))
      temp == Add(Add(CircularShift(5, v[5]), f), Add(v[1], Add(w[t + 1], K[1 + (t \div 20)])))
  IN  <<v[2], v[3], CircularShift(30, v[4]), v[5], temp>>

(* The digest h after a block. *)
ProcessBlock(h, block) ==
  LET w == Expand(block)
      V[t \in 0..Len(w)] == IF t = 0 THEN <<h[5], h[4], h[3], h[2], h[1]>> ELSE Round(V[t - 1], w, t - 1)
      v == V[Len(w)]
  IN  <<Add(h[1], v[5]), Add(h[2], v[4]), Add(h[3], v[3]), Add(h[4], v[2]), Add(h[5], v[1])>>
=============================================================================
