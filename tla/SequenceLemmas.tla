--------------------------- MODULE SequenceLemmas ---------------------------
(* Induction over the natural numbers, put with a set in the place of a       *)
(* predicate, and what follows from it for FlattenSeq, which the models use   *)
(* for the content of a queue of buffers and for the bytes of a stream.       *)
EXTENDS Integers, SequencesExt, SequenceTheorems, WellFoundedInduction, TLAPS

\* A set of natural numbers that is not empty has a least element.
LEMMA LeastNumber ==
  ASSUME NEW T, T \subseteq Nat, T # {}
  PROVE  \E x \in T : \A y \in T : x <= y
<1> DEFINE R == OpToRel(<, Nat)
<1>1. IsWellFoundedOn(R, Nat)
  BY NatLessThanWellFounded
<1>2. \A x, y \in Nat : x < y => <<x, y>> \in R
  BY DEF OpToRel
<1> HIDE DEF R
<1>3. PICK x \in T : \A y \in T : ~(<<y, x>> \in R)
  BY <1>1, WFMin
<1>4. ASSUME NEW y \in T PROVE x <= y
  <2>1. x \in Nat /\ y \in Nat /\ ~(y < x)
    BY <1>2, <1>3
  <2>2. QED
    BY <2>1
<1>5. QED
  BY <1>4

\* A set with 0 and the successor of each number in it holds all of them.
LEMMA SetInduction ==
  ASSUME NEW S, 0 \in S, \A n \in Nat : n \in S => n + 1 \in S
  PROVE  \A n \in Nat : n \in S
<1> SUFFICES ASSUME Nat \ S # {} PROVE FALSE
  OBVIOUS
<1>1. PICK x \in Nat \ S : \A y \in Nat \ S : x <= y
  BY LeastNumber, Nat \ S \subseteq Nat
<1>2. x - 1 \in Nat /\ x - 1 \notin Nat \ S
  BY <1>1
<1>3. QED
  BY <1>1, <1>2

-----------------------------------------------------------------------------
(* FlattenSeq.                                                               *)

\* f holds the first n partial results of FlattenSeq(s).
Cat(a, b) == a \o b
Partial(f, s, n) ==
  f = [i \in 1 .. n |-> IF i = 1 THEN s[i] ELSE Cat(f[i - 1], s[i])]

\* A partial result is made from the one before it.
LEMMA PartialAt ==
  ASSUME NEW s, NEW n \in Nat, NEW f, Partial(f, s, n), NEW i \in 1 .. n
  PROVE  f[i] = IF i = 1 THEN s[i] ELSE Cat(f[i - 1], s[i])
  BY DEF Partial

\* The recursion of FlattenSeq is well founded: its function exists ...
LEMMA PartialExists ==
  ASSUME NEW s
  PROVE  \A n \in Nat : \E f : Partial(f, s, n)
<1> DEFINE S == {n \in Nat : \E f : Partial(f, s, n)}
<1>1. 0 \in S
  <2> DEFINE f0 == [i \in 1 .. 0 |-> 0]
  <2>1. Partial(f0, s, 0)
    BY DEF Partial
  <2>2. QED
    BY <2>1
<1>2. ASSUME NEW n \in Nat, n \in S PROVE n + 1 \in S
  <2>1. PICK f : Partial(f, s, n)
    BY <1>2
  <2>2. \A i \in 1 .. n : f[i] = IF i = 1 THEN s[i] ELSE Cat(f[i - 1], s[i])
    BY <2>1, PartialAt
  <2> DEFINE g == [i \in 1 .. n + 1 |->
                     IF i = n + 1 THEN (IF i = 1 THEN s[i] ELSE Cat(f[n], s[i])) ELSE f[i]]
  <2>3. ASSUME NEW i \in 1 .. n + 1
        PROVE  g[i] = IF i = 1 THEN s[i] ELSE Cat(g[i - 1], s[i])
    <3>1. CASE i = n + 1
      BY <3>1
    <3>2. CASE i # n + 1
      <4>1. i \in 1 .. n /\ (i # 1 => i - 1 \in 1 .. n /\ i - 1 # n + 1)
        BY <3>2
      <4>2. QED
        BY <2>2, <4>1
    <3>3. QED
      BY <3>1, <3>2
  <2>4. Partial(g, s, n + 1)
    BY <2>3 DEF Partial
  <2>5. QED
    BY <2>4
<1> HIDE DEF S
<1>3. \A n \in Nat : n \in S
  BY <1>1, <1>2, SetInduction
<1>4. QED
  BY <1>3 DEF S

\* ... and is unique, so that a longer one continues a shorter one.
LEMMA PartialUnique ==
  ASSUME NEW s, NEW t, NEW m \in Nat, NEW n \in Nat, m <= n,
         \A i \in 1 .. m : s[i] = t[i],
         NEW f, NEW g, Partial(f, s, m), Partial(g, t, n)
  PROVE  \A i \in 1 .. m : f[i] = g[i]
<1> DEFINE S == {i \in Nat : i \in 1 .. m => f[i] = g[i]}
<1>1. 0 \in S
  OBVIOUS
<1>2. ASSUME NEW i \in Nat, i \in S PROVE i + 1 \in S
  <2> SUFFICES ASSUME i + 1 \in 1 .. m PROVE f[i + 1] = g[i + 1]
    OBVIOUS
  <2>1. /\ f[i + 1] = IF i + 1 = 1 THEN s[i + 1] ELSE Cat(f[i], s[i + 1])
        /\ g[i + 1] = IF i + 1 = 1 THEN t[i + 1] ELSE Cat(g[i], t[i + 1])
    BY PartialAt
  <2>2. s[i + 1] = t[i + 1] /\ (i # 0 => f[i] = g[i])
    BY <1>2
  <2>3. QED
    BY <2>1, <2>2
<1> HIDE DEF S
<1>3. \A i \in Nat : i \in S
  BY <1>1, <1>2, SetInduction
<1>4. QED
  BY <1>3 DEF S

\* What FlattenSeq chooses is its last partial result.
LEMMA FlattenIsPartial ==
  ASSUME NEW s, Len(s) \in Nat \ {0}
  PROVE  \E f : Partial(f, s, Len(s)) /\ FlattenSeq(s) = f[Len(s)]
<1> DEFINE g == CHOOSE f : Partial(f, s, Len(s))
<1>1. Partial(g, s, Len(s))
  BY PartialExists
<1>2. FlattenSeq(s) = g[Len(s)]
  BY DEF FlattenSeq, Partial, Cat
<1>3. QED
  BY <1>1, <1>2

\* The last element of a sequence joins the result for those before it.
LEMMA FlattenLast ==
  ASSUME NEW s, NEW t, NEW m \in Nat \ {0}, Len(s) = m, Len(t) = m + 1,
         \A i \in 1 .. m : s[i] = t[i]
  PROVE  FlattenSeq(t) = Cat(FlattenSeq(s), t[m + 1])
<1>1. PICK f : Partial(f, s, m) /\ FlattenSeq(s) = f[m]
  BY FlattenIsPartial
<1>2. PICK g : Partial(g, t, m + 1) /\ FlattenSeq(t) = g[m + 1]
  BY FlattenIsPartial
<1>3. \A i \in 1 .. m : f[i] = g[i]
  BY <1>1, <1>2, PartialUnique
<1>4. g[m + 1] = Cat(g[m], t[m + 1])
  <2>1. m + 1 \in Nat /\ m + 1 \in 1 .. m + 1 /\ m + 1 # 1 /\ m + 1 - 1 = m
    OBVIOUS
  <2>2. QED
    BY <1>2, <2>1, PartialAt
<1>5. QED
  BY <1>1, <1>2, <1>3, <1>4

\* A sequence of one element is flattened to that element.
LEMMA FlattenOne ==
  ASSUME NEW t, Len(t) = 1
  PROVE  FlattenSeq(t) = t[1]
<1>1. Len(t) \in Nat \ {0} /\ Len(t) \in 1 .. Len(t)
  OBVIOUS
<1>2. PICK g : Partial(g, t, Len(t)) /\ FlattenSeq(t) = g[Len(t)]
  BY <1>1, FlattenIsPartial
<1>3. g[Len(t)] = t[Len(t)]
  BY <1>1, <1>2, PartialAt
<1>4. QED
  BY <1>2, <1>3

\* Flattening a sequence with one more element appends the element.
LEMMA FlattenAppend ==
  ASSUME NEW X, NEW s \in Seq(Seq(X)), NEW e \in Seq(X)
  PROVE  FlattenSeq(Append(s, e)) = FlattenSeq(s) \o e
<1>1. CASE Len(s) = 0
  <2>1. FlattenSeq(s) = <<>>
    BY <1>1 DEF FlattenSeq
  <2>2. FlattenSeq(Append(s, e)) = e
    BY <1>1, FlattenOne
  <2>3. QED
    BY <2>1, <2>2
<1>2. CASE Len(s) # 0
  <2>1. /\ Len(s) \in Nat \ {0} /\ Len(Append(s, e)) = Len(s) + 1
        /\ Append(s, e)[Len(s) + 1] = e
        /\ \A i \in 1 .. Len(s) : s[i] = Append(s, e)[i]
    BY <1>2
  <2> DEFINE t == Append(s, e)
             m == Len(s)
  <2>2. FlattenSeq(t) = Cat(FlattenSeq(s), e)
    <3>1. m \in Nat \ {0} /\ Len(s) = m /\ Len(t) = m + 1 /\ t[m + 1] = e
      BY <2>1, Zenon
    <3>2. \A i \in 1 .. m : s[i] = t[i]
      BY <2>1, Zenon
    <3> HIDE DEF t, m
    <3>3. FlattenSeq(t) = Cat(FlattenSeq(s), t[m + 1])
      BY <3>1, <3>2, FlattenLast
    <3>4. QED
      BY <3>1, <3>3, Zenon
  <2>3. QED
    BY <2>2 DEF Cat
<1>3. QED
  BY <1>1, <1>2

\* Flattening gives a sequence.
LEMMA FlattenType ==
  ASSUME NEW X, NEW s \in Seq(Seq(X))
  PROVE  FlattenSeq(s) \in Seq(X)
<1> DEFINE S == {n \in Nat : \A t \in Seq(Seq(X)) : Len(t) = n => FlattenSeq(t) \in Seq(X)}
<1>1. 0 \in S
  BY DEF FlattenSeq
<1>2. ASSUME NEW n \in Nat, n \in S PROVE n + 1 \in S
  <2> SUFFICES ASSUME NEW t \in Seq(Seq(X)), Len(t) = n + 1
               PROVE  FlattenSeq(t) \in Seq(X)
    OBVIOUS
  <2>1. PICK u \in Seq(Seq(X)), e \in Seq(X) : t = Append(u, e) /\ Len(u) = n
    <3>1. t # <<>>
      OBVIOUS
    <3>2. PICK u \in Seq(Seq(X)), e \in Seq(X) : t = Append(u, e)
      BY <3>1, SequenceEmptyOrAppend
    <3>3. QED
      BY <3>2
  <2>2. FlattenSeq(u) \in Seq(X)
    BY <1>2, <2>1
  <2>3. FlattenSeq(t) = FlattenSeq(u) \o e
    BY <2>1, FlattenAppend
  <2>4. QED
    BY <2>1, <2>2, <2>3
<1> HIDE DEF S
<1>3. \A n \in Nat : n \in S
  BY <1>1, <1>2, SetInduction
<1>4. Len(s) \in S
  BY <1>3
<1>5. QED
  BY <1>4 DEF S

\* Concatenation is associative.
LEMMA CatAssociative ==
  ASSUME NEW X, NEW a \in Seq(X), NEW b \in Seq(X), NEW c \in Seq(X)
  PROVE  Cat(Cat(a, b), c) = Cat(a, Cat(b, c))
  BY DEF Cat

\* The empty sequence before or behind another changes nothing.
LEMMA CatEmpty ==
  ASSUME NEW X, NEW a \in Seq(X)
  PROVE  Cat(a, <<>>) = a /\ Cat(<<>>, a) = a
  BY DEF Cat

\* One element behind a sequence is appended to it.
LEMMA CatOne ==
  ASSUME NEW X, NEW a \in Seq(X), NEW e \in X
  PROVE  Cat(a, Append(<<>>, e)) = Append(a, e)
  BY DEF Cat

\* An element appended to the second part is appended to the whole.
LEMMA CatAppend ==
  ASSUME NEW X, NEW a \in Seq(X), NEW b \in Seq(X), NEW e \in X
  PROVE  Cat(a, b) \in Seq(X) /\ Cat(a, Append(b, e)) = Append(Cat(a, b), e)
  BY DEF Cat

\* Nothing flattened is nothing.
LEMMA FlattenEmpty == FlattenSeq(<<>>) = <<>>
  BY DEF FlattenSeq

\* Flattening two sequences one behind the other.
LEMMA FlattenConcat ==
  ASSUME NEW X, NEW s \in Seq(Seq(X)), NEW t \in Seq(Seq(X))
  PROVE  FlattenSeq(s \o t) = FlattenSeq(s) \o FlattenSeq(t)
<1> DEFINE Same(r) == FlattenSeq(s \o r) = Cat(FlattenSeq(s), FlattenSeq(r))
           S == {n \in Nat : \A r \in Seq(Seq(X)) : Len(r) = n => Same(r)}
<1>0. FlattenSeq(s) \in Seq(X)
  BY FlattenType
<1>1. 0 \in S
  <2> SUFFICES ASSUME NEW r \in Seq(Seq(X)), Len(r) = 0 PROVE Same(r)
    OBVIOUS
  <2>1. r = <<>> /\ s \o r = s
    OBVIOUS
  <2>2. FlattenSeq(r) = <<>>
    BY <2>1 DEF FlattenSeq
  <2>3. QED
    BY <1>0, <2>1, <2>2 DEF Cat
<1>2. ASSUME NEW n \in Nat, n \in S PROVE n + 1 \in S
  <2> SUFFICES ASSUME NEW r \in Seq(Seq(X)), Len(r) = n + 1 PROVE Same(r)
    OBVIOUS
  <2>1. PICK u \in Seq(Seq(X)), e \in Seq(X) : r = Append(u, e) /\ Len(u) = n
    <3>1. r # <<>>
      OBVIOUS
    <3>2. PICK u \in Seq(Seq(X)), e \in Seq(X) : r = Append(u, e)
      BY <3>1, SequenceEmptyOrAppend
    <3>3. QED
      BY <3>2
  <2>2. Same(u)
    BY <1>2, <2>1
  <2>3. s \o r = Append(s \o u, e) /\ s \o u \in Seq(Seq(X))
    BY <2>1
  <2>4. FlattenSeq(r) = Cat(FlattenSeq(u), e) /\ FlattenSeq(u) \in Seq(X)
    BY <2>1, FlattenAppend, FlattenType DEF Cat
  <2>5. FlattenSeq(s \o r) = Cat(FlattenSeq(s \o u), e)
    BY <2>1, <2>3, FlattenAppend DEF Cat
  <2>6. Cat(Cat(FlattenSeq(s), FlattenSeq(u)), e) = Cat(FlattenSeq(s), Cat(FlattenSeq(u), e))
    BY <1>0, <2>4, CatAssociative
  <2>7. QED
    BY <2>2, <2>4, <2>5, <2>6
<1> HIDE DEF S
<1>3. \A n \in Nat : n \in S
  BY <1>1, <1>2, SetInduction
<1>4. Len(t) \in S
  BY <1>3
<1>5. QED
  BY <1>4 DEF S, Cat

\* The elements of two sequences one behind the other.
LEMMA ToSetConcat ==
  ASSUME NEW X, NEW s \in Seq(X), NEW t \in Seq(X)
  PROVE  ToSet(s \o t) = ToSet(s) \cup ToSet(t)
<1>1. /\ Len(s) \in Nat /\ Len(t) \in Nat
      /\ DOMAIN s = 1 .. Len(s) /\ DOMAIN t = 1 .. Len(t)
      /\ DOMAIN (s \o t) = 1 .. Len(s) + Len(t)
  OBVIOUS
<1>2. ASSUME NEW i \in DOMAIN (s \o t) PROVE (s \o t)[i] \in ToSet(s) \cup ToSet(t)
  <2>1. CASE i <= Len(s)
    <3>1. i \in DOMAIN s /\ (s \o t)[i] = s[i]
      BY <1>1, <2>1
    <3>2. QED
      BY <3>1 DEF ToSet
  <2>2. CASE i > Len(s)
    <3>1. i - Len(s) \in DOMAIN t /\ (s \o t)[i] = t[i - Len(s)]
      BY <1>1, <2>2
    <3>2. QED
      BY <3>1 DEF ToSet
  <2>3. QED
    BY <1>1, <2>1, <2>2
<1>3. ASSUME NEW i \in DOMAIN s PROVE s[i] \in ToSet(s \o t)
  <2>1. i \in DOMAIN (s \o t) /\ (s \o t)[i] = s[i]
    BY <1>1
  <2>2. QED
    BY <2>1 DEF ToSet
<1>4. ASSUME NEW i \in DOMAIN t PROVE t[i] \in ToSet(s \o t)
  <2>1. i + Len(s) \in DOMAIN (s \o t) /\ (s \o t)[i + Len(s)] = t[i]
    BY <1>1
  <2>2. QED
    BY <2>1 DEF ToSet
<1>5. QED
  BY <1>2, <1>3, <1>4 DEF ToSet

-----------------------------------------------------------------------------
(* Positions in a concatenation.                                             *)

\* Where the elements of a and b lie in z.
JoinedIn(z, a, b) ==
  /\ Len(z) = Len(a) + Len(b)
  /\ \A j \in 1 .. Len(a) : z[j] = a[j]
  /\ \A j \in 1 .. Len(b) : z[Len(a) + j] = b[j]

\* The elements of two sequences in their concatenation.
LEMMA Joined ==
  ASSUME NEW X, NEW a \in Seq(X), NEW b \in Seq(X)
  PROVE  Cat(a, b) \in Seq(X) /\ JoinedIn(Cat(a, b), a, b)
  BY DEF Cat, JoinedIn

\* A sequence around one of its elements.
LEMMA SplitAt ==
  ASSUME NEW X, NEW F \in Seq(X), NEW i \in 1 .. Len(F)
  PROVE  /\ SubSeq(F, 1, i - 1) \in Seq(X) /\ SubSeq(F, i + 1, Len(F)) \in Seq(X)
         /\ F = Append(SubSeq(F, 1, i - 1), F[i]) \o SubSeq(F, i + 1, Len(F))
<1> DEFINE A == SubSeq(F, 1, i - 1)
           B == SubSeq(F, i + 1, Len(F))
           C == Append(A, F[i])
<1>1. A \in Seq(X) /\ Len(A) = i - 1 /\ \A j \in 1 .. i - 1 : A[j] = F[j]
  OBVIOUS
<1>2. B \in Seq(X) /\ Len(B) = Len(F) - i /\ \A j \in 1 .. Len(F) - i : B[j] = F[i + j]
  OBVIOUS
<1> HIDE DEF A, B
<1>3. /\ C \in Seq(X) /\ Len(C) = i /\ C[i] = F[i] /\ \A j \in 1 .. i - 1 : C[j] = F[j]
  BY <1>1
<1> HIDE DEF C
<1>4. Cat(C, B) \in Seq(X) /\ JoinedIn(Cat(C, B), C, B)
  BY <1>2, <1>3, Joined
<1>5. ASSUME NEW j \in 1 .. Len(F) PROVE Cat(C, B)[j] = F[j]
  <2>1. CASE j <= i
    BY <1>3, <1>4, <2>1 DEF JoinedIn
  <2>2. CASE j > i
    <3>1. j - i \in 1 .. Len(F) - i /\ i + (j - i) = j
      BY <2>2
    <3>2. B[j - i] = F[j]
      BY <1>2, <3>1
    <3>3. Cat(C, B)[j] = B[j - i]
      <4>1. j - i \in 1 .. Len(B) /\ Len(C) + (j - i) = j
        BY <1>2, <1>3, <3>1
      <4>2. QED
        BY <1>4, <4>1 DEF JoinedIn
    <3>4. QED
      BY <3>2, <3>3
  <2>3. QED
    BY <2>1, <2>2
<1>6. Len(Cat(C, B)) = Len(F)
  BY <1>2, <1>3, <1>4 DEF JoinedIn
<1>7. Cat(C, B) = F
  BY <1>4, <1>5, <1>6, SeqEqual
<1>8. QED
  BY <1>1, <1>2, <1>7 DEF A, B, C, Cat

\* c lies in z behind position n.
LiesAt(z, n, c) ==
  /\ n + Len(c) <= Len(z)
  /\ \A j \in 1 .. Len(c) : z[n + j] = c[j]

\* The third of four sequences in their concatenation.
LEMMA Middle ==
  ASSUME NEW X, NEW a \in Seq(X), NEW b \in Seq(X), NEW c \in Seq(X), NEW d \in Seq(X),
         NEW z, z = Cat(a, Cat(Cat(b, c), d))
  PROVE  LiesAt(z, Len(a) + Len(b), c)
<1> DEFINE e == Cat(b, c)
           g == Cat(e, d)
<1>1. e \in Seq(X) /\ JoinedIn(e, b, c)
  BY Joined
<1> HIDE DEF e
<1>2. g \in Seq(X) /\ JoinedIn(g, e, d)
  BY <1>1, Joined
<1> HIDE DEF g
<1>3. z = Cat(a, g)
  BY DEF e, g
<1>4. JoinedIn(z, a, g)
  BY <1>2, <1>3, Joined
<1>5. Len(a) \in Nat /\ Len(b) \in Nat /\ Len(c) \in Nat /\ Len(d) \in Nat
  OBVIOUS
<1>6. ASSUME NEW j \in 1 .. Len(c) PROVE z[Len(a) + Len(b) + j] = c[j]
  <2>1. /\ Len(b) + j \in 1 .. Len(e) /\ Len(b) + j \in 1 .. Len(g)
        /\ Len(a) + (Len(b) + j) = Len(a) + Len(b) + j
    BY <1>1, <1>2, <1>5 DEF JoinedIn
  <2>2. QED
    BY <1>1, <1>2, <1>4, <2>1 DEF JoinedIn
<1>7. Len(a) + Len(b) + Len(c) <= Len(a) + Len(g)
  BY <1>1, <1>2, <1>5 DEF JoinedIn
<1>8. QED
  BY <1>4, <1>6, <1>7 DEF JoinedIn, LiesAt

\* The k elements behind position p.
LEMMA CutOut ==
  ASSUME NEW X, NEW s \in Seq(X), NEW p \in Nat, NEW k \in Nat \ {0}, p + k <= Len(s)
  PROVE  /\ SubSeq(s, p + 1, p + k) \in Seq(X) /\ Len(SubSeq(s, p + 1, p + k)) = k
         /\ LiesAt(s, p, SubSeq(s, p + 1, p + k))
<1>1. SubSeq(s, p + 1, p + k) \in Seq(X)
  OBVIOUS
<1>2. SubSeq(s, p + 1, p + k) = [j \in 1 .. k |-> s[p + j]]
  OBVIOUS
<1>3. Len(SubSeq(s, p + 1, p + k)) = k
  BY <1>1, <1>2
<1>4. QED
  BY <1>1, <1>2, <1>3 DEF LiesAt

\* t is s with e put before its n-th element, or behind the last.
InsertedAt(t, s, n, e) ==
  /\ Len(t) = Len(s) + 1
  /\ \A k \in 1 .. Len(s) + 1 : t[k] = IF k < n THEN s[k] ELSE IF k = n THEN e ELSE s[k - 1]

\* InsertAt, element by element.
LEMMA InsertAtIs ==
  ASSUME NEW X, NEW s \in Seq(X), NEW n \in 1 .. Len(s) + 1, NEW e \in X
  PROVE  InsertAt(s, n, e) \in Seq(X) /\ InsertedAt(InsertAt(s, n, e), s, n, e)
<1> DEFINE a == SubSeq(s, 1, n - 1)
           b == SubSeq(s, n, Len(s))
           c == a \o <<e>>
           t == c \o b
<1>0. Len(s) \in Nat /\ n \in Nat /\ n - 1 \in Int /\ 1 \in Int /\ Len(s) \in Int /\ n \in Int
  BY LenProperties
<1>1. a \in Seq(X) /\ Len(a) = n - 1 /\ \A i \in 1 .. n - 1 : a[i] = s[i]
  <2>1. \A i \in 1 .. n - 1 : s[i] \in X
    BY <1>0, ElementOfSeq
  <2>2. /\ a \in Seq(X) /\ Len(a) = IF 1 <= n - 1 THEN n - 1 - 1 + 1 ELSE 0
        /\ \A i \in 1 .. n - 1 - 1 + 1 : a[i] = s[1 + i - 1]
    BY <1>0, <2>1, SubSeqProperties
  <2> HIDE DEF a
  <2>3. QED
    BY <1>0, <2>2
<1>2. b \in Seq(X) /\ Len(b) = Len(s) - n + 1 /\ \A i \in 1 .. Len(s) - n + 1 : b[i] = s[n + i - 1]
  <2>1. \A i \in n .. Len(s) : s[i] \in X
    BY <1>0, ElementOfSeq
  <2>2. /\ b \in Seq(X) /\ Len(b) = IF n <= Len(s) THEN Len(s) - n + 1 ELSE 0
        /\ \A i \in 1 .. Len(s) - n + 1 : b[i] = s[n + i - 1]
    BY <1>0, <2>1, SubSeqProperties
  <2> HIDE DEF b
  <2>3. QED
    BY <1>0, <2>2
<1> HIDE DEF a, b
<1>3. <<e>> \in Seq(X) /\ Len(<<e>>) = 1 /\ <<e>>[1] = e
  OBVIOUS
<1>4. c \in Seq(X) /\ Len(c) = n /\ \A i \in 1 .. n : c[i] = IF i < n THEN s[i] ELSE e
  <2>1. /\ c \in Seq(X) /\ Len(c) = Len(a) + Len(<<e>>)
        /\ \A i \in 1 .. Len(a) + Len(<<e>>) : c[i] = IF i <= Len(a) THEN a[i] ELSE <<e>>[i - Len(a)]
    BY <1>1, <1>3, ConcatProperties
  <2> HIDE DEF c
  <2>2. QED
    BY <1>0, <1>1, <1>3, <2>1
<1> HIDE DEF c
<1>5. /\ t \in Seq(X) /\ Len(t) = Len(c) + Len(b)
      /\ \A i \in 1 .. Len(c) + Len(b) : t[i] = IF i <= Len(c) THEN c[i] ELSE b[i - Len(c)]
  BY <1>2, <1>4, ConcatProperties
<1> HIDE DEF t
<1>5a. Len(c) + Len(b) = Len(s) + 1
  BY <1>0, <1>2, <1>4
<1>5b. \A k \in 1 .. Len(s) + 1 : t[k] = IF k <= n THEN c[k] ELSE b[k - n]
  BY <1>4, <1>5, <1>5a
<1>6. ASSUME NEW k \in 1 .. Len(s) + 1
      PROVE  t[k] = IF k < n THEN s[k] ELSE IF k = n THEN e ELSE s[k - 1]
  <2>1. CASE k <= n
    <3>1. k \in 1 .. n
      BY <1>0, <2>1
    <3>2. c[k] = IF k < n THEN s[k] ELSE e
      BY <1>4, <3>1
    <3>3. QED
      BY <1>0, <1>5b, <2>1, <3>2
  <2>2. CASE k > n
    <3>1. k - n \in 1 .. Len(s) - n + 1 /\ n + (k - n) - 1 = k - 1 /\ ~(k <= n) /\ ~(k < n) /\ k # n
      BY <1>0, <2>2
    <3>2. b[k - n] = s[n + (k - n) - 1]
      BY <1>2, <3>1
    <3>3. QED
      BY <1>5b, <3>1, <3>2
  <2>3. QED
    BY <1>0, <2>1, <2>2
<1>7. InsertedAt(t, s, n, e)
  <2>1. Len(t) = Len(s) + 1
    BY <1>5, <1>5a
  <2>2. QED
    BY <1>6, <2>1, Zenon DEF InsertedAt
<1>8. QED
  BY <1>5, <1>7 DEF InsertAt, t, c, a, b

\* t is s without its n-th element.
RemovedAt(t, s, n) ==
  /\ Len(t) = Len(s) - 1
  /\ \A k \in 1 .. Len(s) - 1 : t[k] = IF k < n THEN s[k] ELSE s[k + 1]

\* RemoveAt, element by element.
LEMMA RemoveAtIs ==
  ASSUME NEW X, NEW s \in Seq(X), NEW n \in 1 .. Len(s)
  PROVE  RemoveAt(s, n) \in Seq(X) /\ RemovedAt(RemoveAt(s, n), s, n)
<1> DEFINE a == SubSeq(s, 1, n - 1)
           b == SubSeq(s, n + 1, Len(s))
           t == a \o b
<1>0. Len(s) \in Nat /\ n \in Nat /\ n - 1 \in Int /\ 1 \in Int /\ Len(s) \in Int /\ n + 1 \in Int
  BY LenProperties
<1>1. a \in Seq(X) /\ Len(a) = n - 1 /\ \A i \in 1 .. n - 1 : a[i] = s[i]
  <2>1. \A i \in 1 .. n - 1 : s[i] \in X
    BY <1>0, ElementOfSeq
  <2>2. /\ a \in Seq(X) /\ Len(a) = IF 1 <= n - 1 THEN n - 1 - 1 + 1 ELSE 0
        /\ \A i \in 1 .. n - 1 - 1 + 1 : a[i] = s[1 + i - 1]
    BY <1>0, <2>1, SubSeqProperties
  <2> HIDE DEF a
  <2>3. QED
    BY <1>0, <2>2
<1>2. b \in Seq(X) /\ Len(b) = Len(s) - n /\ \A i \in 1 .. Len(s) - n : b[i] = s[n + i]
  <2>1. \A i \in n + 1 .. Len(s) : s[i] \in X
    BY <1>0, ElementOfSeq
  <2>2. /\ b \in Seq(X) /\ Len(b) = IF n + 1 <= Len(s) THEN Len(s) - (n + 1) + 1 ELSE 0
        /\ \A i \in 1 .. Len(s) - (n + 1) + 1 : b[i] = s[n + 1 + i - 1]
    BY <1>0, <2>1, SubSeqProperties
  <2> HIDE DEF b
  <2>3. QED
    BY <1>0, <2>2
<1> HIDE DEF a, b
<1>3. /\ t \in Seq(X) /\ Len(t) = Len(a) + Len(b)
      /\ \A i \in 1 .. Len(a) + Len(b) : t[i] = IF i <= Len(a) THEN a[i] ELSE b[i - Len(a)]
  BY <1>1, <1>2, ConcatProperties
<1> HIDE DEF t
<1>3a. Len(a) + Len(b) = Len(s) - 1
  BY <1>0, <1>1, <1>2
<1>3b. \A k \in 1 .. Len(s) - 1 : t[k] = IF k <= n - 1 THEN a[k] ELSE b[k - (n - 1)]
  BY <1>1, <1>3, <1>3a
<1>4. ASSUME NEW k \in 1 .. Len(s) - 1
      PROVE  t[k] = IF k < n THEN s[k] ELSE s[k + 1]
  <2>1. CASE k < n
    <3>1. k \in 1 .. n - 1 /\ k <= n - 1
      BY <1>0, <2>1
    <3>2. QED
      BY <1>1, <1>3b, <2>1, <3>1
  <2>2. CASE ~(k < n)
    <3>1. k - (n - 1) \in 1 .. Len(s) - n /\ n + (k - (n - 1)) = k + 1 /\ ~(k <= n - 1)
      BY <1>0, <2>2
    <3>2. b[k - (n - 1)] = s[n + (k - (n - 1))]
      BY <1>2, <3>1
    <3>3. QED
      BY <1>3b, <2>2, <3>1, <3>2
  <2>3. QED
    BY <2>1, <2>2
<1>5. RemovedAt(t, s, n)
  <2>1. Len(t) = Len(s) - 1
    BY <1>3, <1>3a
  <2>2. QED
    BY <1>4, <2>1, Zenon DEF RemovedAt
<1>6. QED
  BY <1>3, <1>5 DEF RemoveAt, t, a, b

\* InsertAt behind the last element is Append.
LEMMA InsertLast ==
  ASSUME NEW X, NEW s \in Seq(X), NEW e \in X
  PROVE  InsertAt(s, Len(s) + 1, e) = Append(s, e)
<1>1. Len(s) \in Nat /\ Len(s) + 1 \in 1 .. Len(s) + 1
  BY LenProperties
<1>2. PICK n : n = Len(s) + 1
  OBVIOUS
<1>3. n \in 1 .. Len(s) + 1
  BY <1>1, <1>2
<1>4. PICK t : t = InsertAt(s, n, e)
  OBVIOUS
<1>5. t \in Seq(X) /\ InsertedAt(t, s, n, e)
  BY <1>3, <1>4, InsertAtIs
<1>6. PICK u : u = Append(s, e)
  OBVIOUS
<1>7. u \in Seq(X) /\ Len(u) = Len(s) + 1 /\ u[Len(s) + 1] = e /\ \A k \in 1 .. Len(s) : u[k] = s[k]
  BY <1>6, AppendProperties
<1>8. Len(t) = Len(u)
  BY <1>5, <1>7 DEF InsertedAt
<1>9. ASSUME NEW k \in 1 .. Len(t) PROVE t[k] = u[k]
  <2>1. k \in 1 .. Len(s) + 1
    BY <1>5, <1>9 DEF InsertedAt
  <2>2. t[k] = IF k < n THEN s[k] ELSE IF k = n THEN e ELSE s[k - 1]
    BY <1>5, <2>1 DEF InsertedAt
  <2>3. CASE k = n
    BY <1>1, <1>2, <1>7, <2>2, <2>3
  <2>4. CASE k # n
    <3>1. k \in 1 .. Len(s) /\ k < n
      BY <1>1, <1>2, <2>1, <2>4
    <3>2. QED
      BY <1>7, <2>2, <3>1
  <2>5. QED
    BY <2>3, <2>4
<1>10. t = u
  BY <1>5, <1>7, <1>8, <1>9, SeqEqual
<1>11. QED
  BY <1>2, <1>4, <1>6, <1>10

=============================================================================
