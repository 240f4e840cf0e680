----------------------------- MODULE CJsonProofs -----------------------------
(* The items of cJSON form doubly linked lists and trees with one owner each, *)
(* for any number of items and any sequence of calls within the contract.     *)
(* The recursive functions of CJson are first put into induction over sets;   *)
(* then every operation on the heap is shown to keep a heap good; then every  *)
(* call is. The last part reads a sequence of members off every list, and     *)
(* shows that each call does to these sequences what Forest says.             *)
EXTENDS CJson, FiniteSetTheorems, SequenceLemmas

-----------------------------------------------------------------------------
(* Repeating a function.                                                   *)

\* g holds the first k repetitions of T on a.
Repeats(g, X, a, T, k) ==
  g \in [0 .. k -> X] /\ g[0] = a /\ \A n \in 0 .. k - 1 : g[n + 1] = T[g[n]]

\* There are such g ...
LEMMA RepeatsExist ==
  ASSUME NEW X, NEW a \in X, NEW T \in [X -> X]
  PROVE  \A k \in Nat : \E g : Repeats(g, X, a, T, k)
<1> DEFINE S == {k \in Nat : \E g : Repeats(g, X, a, T, k)}
<1>1. 0 \in S
  <2> DEFINE g == [n \in 0 .. 0 |-> a]
  <2>1. Repeats(g, X, a, T, 0)
    BY DEF Repeats
  <2>2. QED
    BY <2>1
<1>2. ASSUME NEW k \in Nat, k \in S PROVE k + 1 \in S
  <2>1. PICK g : Repeats(g, X, a, T, k)
    BY <1>2
  <2>2. g \in [0 .. k -> X] /\ g[0] = a /\ \A n \in 0 .. k - 1 : g[n + 1] = T[g[n]]
    BY <2>1 DEF Repeats
  <2> DEFINE f == [n \in 0 .. k + 1 |-> IF n = k + 1 THEN T[g[k]] ELSE g[n]]
  <2>3. f \in [0 .. k + 1 -> X] /\ f[0] = a
    <3>1. k \in 0 .. k /\ \A n \in 0 .. k + 1 : n # k + 1 => n \in 0 .. k
      OBVIOUS
    <3>2. QED
      BY <2>2, <3>1
  <2>4. ASSUME NEW n \in 0 .. k + 1 - 1 PROVE f[n + 1] = T[f[n]]
    <3>1. n \in 0 .. k + 1 /\ n + 1 \in 0 .. k + 1 /\ n # k + 1
      OBVIOUS
    <3>2. CASE n = k
      BY <3>1, <3>2
    <3>3. CASE n # k
      <4>1. n \in 0 .. k - 1 /\ n + 1 # k + 1
        BY <3>3
      <4>2. QED
        BY <2>2, <3>1, <4>1
    <3>4. QED
      BY <3>2, <3>3
  <2>5. Repeats(f, X, a, T, k + 1)
    BY <2>3, <2>4 DEF Repeats
  <2>6. QED
    BY <2>5
<1> HIDE DEF S
<1>3. \A k \in Nat : k \in S
  BY <1>1, <1>2, SetInduction
<1>4. QED
  BY <1>3 DEF S

\* ... and they agree.
LEMMA RepeatsAgree ==
  ASSUME NEW X, NEW a, NEW T, NEW j \in Nat, NEW k \in Nat, j <= k, NEW f, NEW g,
         Repeats(f, X, a, T, j), Repeats(g, X, a, T, k)
  PROVE  \A n \in 0 .. j : f[n] = g[n]
<1> DEFINE S == {n \in Nat : n \in 0 .. j => f[n] = g[n]}
<1>1. 0 \in S
  BY DEF Repeats
<1>2. ASSUME NEW n \in Nat, n \in S PROVE n + 1 \in S
  <2> SUFFICES ASSUME n + 1 \in 0 .. j PROVE f[n + 1] = g[n + 1]
    OBVIOUS
  <2>1. n \in 0 .. j /\ n \in 0 .. j - 1 /\ n \in 0 .. k - 1
    OBVIOUS
  <2>2. f[n] = g[n]
    BY <1>2, <2>1
  <2>3. f[n + 1] = T[f[n]] /\ g[n + 1] = T[g[n]]
    BY <2>1 DEF Repeats
  <2>4. QED
    BY <2>2, <2>3
<1> HIDE DEF S
<1>3. \A n \in Nat : n \in S
  BY <1>1, <1>2, SetInduction
<1>4. QED
  BY <1>3 DEF S

\* f follows the function T from a for ever.
Orbit(f, X, a, T) == f \in [Nat -> X] /\ f[0] = a /\ \A n \in Nat : f[n + 1] = T[f[n]]
\* Every function can be followed so.
LEMMA Repetition ==
  ASSUME NEW X, NEW a \in X, NEW T \in [X -> X]
  PROVE  \E f : Orbit(f, X, a, T)
<1> DEFINE g(k) == CHOOSE x : Repeats(x, X, a, T, k)
           f == [k \in Nat |-> g(k)[k]]
<1>1. \A k \in Nat : Repeats(g(k), X, a, T, k)
  BY RepeatsExist
<1> HIDE DEF g
<1>2. f \in [Nat -> X] /\ f[0] = a
  <2>1. ASSUME NEW k \in Nat PROVE g(k)[k] \in X
    <3>1. g(k) \in [0 .. k -> X] /\ k \in 0 .. k
      BY <1>1 DEF Repeats
    <3>2. QED
      BY <3>1
  <2>2. g(0)[0] = a
    BY <1>1 DEF Repeats
  <2>3. QED
    BY <2>1, <2>2
<1>3. ASSUME NEW n \in Nat PROVE f[n + 1] = T[f[n]]
  <2>1. n + 1 \in Nat /\ n <= n + 1 /\ n \in 0 .. n /\ n \in 0 .. n + 1 - 1
    OBVIOUS
  <2>2. g(n)[n] = g(n + 1)[n]
    BY <1>1, <2>1, RepeatsAgree
  <2>3. g(n + 1)[n + 1] = T[g(n + 1)[n]]
    BY <1>1, <2>1 DEF Repeats
  <2>4. QED
    BY <2>1, <2>2, <2>3
<1>4. Orbit(f, X, a, T)
  BY <1>2, <1>3 DEF Orbit
<1>5. QED
  BY <1>4

\* Sets that grow until they stay the same do so within as many steps as they have
\* elements.
LEMMA Stabilises ==
  ASSUME NEW V, NEW N \in Nat, V[0] # {}, \A n \in Nat : V[n] \subseteq V[n + 1],
         \A n \in Nat : V[n + 1] = V[n] => V[n + 1 + 1] = V[n + 1],
         IsFiniteSet(V[N]), Cardinality(V[N]) <= N
  PROVE  V[N + 1] = V[N]
<1>1. \A n \in 0 .. N : V[n] \subseteq V[N]
  <2> DEFINE S == {d \in Nat : d <= N => V[N - d] \subseteq V[N]}
  <2>1. 0 \in S
    OBVIOUS
  <2>2. ASSUME NEW d \in Nat, d \in S PROVE d + 1 \in S
    <3> SUFFICES ASSUME d + 1 <= N PROVE V[N - (d + 1)] \subseteq V[N]
      OBVIOUS
    <3>1. N - (d + 1) \in Nat /\ N - (d + 1) + 1 = N - d /\ d <= N
      OBVIOUS
    <3>2. V[N - (d + 1)] \subseteq V[N - d]
      BY <3>1
    <3>3. V[N - d] \subseteq V[N]
      BY <2>2, <3>1
    <3>4. QED
      BY <3>2, <3>3
  <2> HIDE DEF S
  <2>3. \A d \in Nat : d \in S
    BY <2>1, <2>2, SetInduction
  <2>4. ASSUME NEW n \in 0 .. N PROVE V[n] \subseteq V[N]
    <3>1. N - n \in S /\ N - n <= N /\ N - (N - n) = n
      BY <2>3
    <3>2. QED
      BY <3>1 DEF S
  <2>5. QED
    BY <2>4
<1>2. \A n \in 0 .. N : IsFiniteSet(V[n]) /\ Cardinality(V[n]) \in Nat
  BY <1>1, FS_Subset, FS_CardinalityType
<1> DEFINE S == {n \in Nat : n <= N => V[n + 1] = V[n] \/ Cardinality(V[n]) >= n + 1}
<1>3. 0 \in S
  <2>1. 0 \in 0 .. N
    OBVIOUS
  <2>2. IsFiniteSet(V[0]) /\ Cardinality(V[0]) \in Nat
    BY <1>2, <2>1
  <2>3. Cardinality(V[0]) # 0
    BY <2>2, FS_EmptySet
  <2>4. QED
    BY <2>2, <2>3
<1>4. ASSUME NEW n \in Nat, n \in S PROVE n + 1 \in S
  <2> SUFFICES ASSUME n + 1 <= N, V[n + 1 + 1] # V[n + 1]
               PROVE  Cardinality(V[n + 1]) >= n + 1 + 1
    OBVIOUS
  <2>1. n <= N /\ n \in 0 .. N /\ n + 1 \in 0 .. N
    OBVIOUS
  <2>2. V[n + 1] # V[n]
    OBVIOUS
  <2>3. Cardinality(V[n]) >= n + 1
    BY <1>4, <2>1, <2>2
  <2>4. /\ Cardinality(V[n]) <= Cardinality(V[n + 1])
        /\ Cardinality(V[n]) # Cardinality(V[n + 1])
    <3>1. V[n] \in SUBSET V[n + 1] /\ IsFiniteSet(V[n + 1])
      BY <1>2, <2>1
    <3>2. QED
      BY <2>2, <3>1, FS_Subset
  <2>5. Cardinality(V[n]) \in Nat /\ Cardinality(V[n + 1]) \in Nat
    BY <1>2, <2>1
  <2>6. QED
    BY <2>3, <2>4, <2>5
<1> HIDE DEF S
<1>5. \A n \in Nat : n \in S
  BY <1>3, <1>4, SetInduction
<1>6. V[N + 1] = V[N] \/ Cardinality(V[N]) >= N + 1
  BY <1>5 DEF S
<1>7. Cardinality(V[N]) \in Nat
  BY FS_CardinalityType
<1>8. QED
  BY <1>6, <1>7

-----------------------------------------------------------------------------
(* What cJSON_Delete visits.                                               *)

\* x leads to y: it comes before it in a list or owns its list.
Leads(h, x, y) == h[x].next = y \/ (~h[x].isReference /\ h[x].child = y)

\* Pointers lead to items.
Points(h) ==
  /\ IsFiniteSet(DOMAIN h) /\ Nil \notin DOMAIN h
  /\ \A x \in DOMAIN h :
       h[x].next \in DOMAIN h \cup {Nil} /\ h[x].child \in DOMAIN h \cup {Nil}

\* S keeps all that its items lead to.
Keeps(h, S) == \A x \in S, y \in DOMAIN h : Leads(h, x, y) => y \in S

\* One round of the visit.
Round(h, S) ==
  (S \cup {h[x].next : x \in S} \cup {h[x].child : x \in {y \in S : ~h[y].isReference}}) \ {Nil}
IsVisit(V, h, i) == V = [n \in Nat |-> IF n = 0 THEN {i} ELSE Round(h, V[n - 1])]

\* The visit goes from round to round.
LEMMA VisitRounds ==
  ASSUME NEW h, NEW i \in DOMAIN h, Points(h)
  PROVE  \E V : /\ Freed(h, i) = V[Cardinality(DOMAIN h)]
                /\ V \in [Nat -> SUBSET DOMAIN h] /\ V[0] = {i}
                /\ \A n \in Nat : V[n + 1] = Round(h, V[n])
<1> DEFINE D == DOMAIN h
           T == [S \in SUBSET D |-> Round(h, S)]
           V == CHOOSE W : IsVisit(W, h, i)
<1>1. ASSUME NEW S \in SUBSET D PROVE Round(h, S) \in SUBSET D
  BY DEF Round, Points
<1>2. T \in [SUBSET D -> SUBSET D] /\ {i} \in SUBSET D /\ \A S \in SUBSET D : T[S] = Round(h, S)
  BY <1>1
<1> HIDE DEF T, V
<1>3. PICK f \in [Nat -> SUBSET D] : f[0] = {i} /\ \A n \in Nat : f[n + 1] = T[f[n]]
  <2>1. \E f : Orbit(f, SUBSET D, {i}, T)
    BY <1>2, Repetition
  <2> QED
    BY <2>1 DEF Orbit
<1>4. IsVisit(f, h, i)
  <2>1. ASSUME NEW n \in Nat PROVE f[n] = IF n = 0 THEN {i} ELSE Round(h, f[n - 1])
    <3>1. CASE n = 0
      BY <1>3, <3>1
    <3>2. CASE n # 0
      <4>1. n - 1 \in Nat /\ n - 1 + 1 = n
        BY <3>2
      <4>2. f[n - 1] \in SUBSET D /\ f[n] = T[f[n - 1]]
        BY <1>3, <4>1
      <4>3. QED
        BY <1>2, <3>2, <4>2
    <3>3. QED
      BY <3>1, <3>2
  <2>2. QED
    BY <1>3, <2>1 DEF IsVisit
<1>5. IsVisit(V, h, i)
  BY <1>4 DEF V
<1>6. Freed(h, i) = V[Cardinality(D)]
  BY DEF Freed, IsVisit, Round, V
<1>7. V[0] = {i} /\ \A n \in Nat : V[n + 1] = Round(h, V[n])
  <2>1. \A n \in Nat : V[n] = IF n = 0 THEN {i} ELSE Round(h, V[n - 1])
    BY <1>5 DEF IsVisit
  <2>2. ASSUME NEW n \in Nat PROVE V[n + 1] = Round(h, V[n])
    <3>1. n + 1 \in Nat /\ n + 1 # 0 /\ n + 1 - 1 = n
      OBVIOUS
    <3>2. QED
      BY <2>1, <3>1
  <2>3. QED
    BY <2>1, <2>2
<1>8. V \in [Nat -> SUBSET D]
  <2> DEFINE S == {n \in Nat : V[n] \in SUBSET D}
  <2>1. 0 \in S
    BY <1>7
  <2>2. ASSUME NEW n \in Nat, n \in S PROVE n + 1 \in S
    BY <1>1, <1>7, <2>2
  <2> HIDE DEF S
  <2>3. \A n \in Nat : n \in S
    BY <2>1, <2>2, SetInduction
  <2>4. \A n \in Nat : V[n] \in SUBSET D
    BY <2>3 DEF S
  <2>5. V = [n \in Nat |-> V[n]]
    BY <1>5 DEF IsVisit
  <2>6. QED
    BY <2>4, <2>5
<1>9. QED
  BY <1>6, <1>7, <1>8

\* What cJSON_Delete frees is the item and all it leads to, and nothing else.
LEMMA FreedIs ==
  ASSUME NEW h, NEW i \in DOMAIN h, Points(h)
  PROVE  /\ i \in Freed(h, i) /\ Freed(h, i) \subseteq DOMAIN h /\ Keeps(h, Freed(h, i))
         /\ \A S : i \in S /\ Keeps(h, S) => Freed(h, i) \subseteq S
<1> DEFINE D == DOMAIN h
           N == Cardinality(D)
<1>1. PICK V : /\ Freed(h, i) = V[N]
               /\ V \in [Nat -> SUBSET D] /\ V[0] = {i}
               /\ \A n \in Nat : V[n + 1] = Round(h, V[n])
  BY VisitRounds
<1>2. N \in Nat /\ IsFiniteSet(D) /\ Nil \notin D
  BY FS_CardinalityType DEF Points
<1> HIDE DEF N
<1>3. ASSUME NEW n \in Nat PROVE V[n] \subseteq V[n + 1]
  <2>1. V[n] \in SUBSET D /\ V[n + 1] = Round(h, V[n])
    BY <1>1
  <2>2. QED
    BY <1>2, <2>1 DEF Round
<1>4. ASSUME NEW n \in Nat, V[n + 1] = V[n] PROVE V[n + 1 + 1] = V[n + 1]
  BY <1>1, <1>4
<1>5. V[N + 1] = V[N]
  <2>1. IsFiniteSet(V[N]) /\ Cardinality(V[N]) <= N
    <3>1. V[N] \in SUBSET D
      BY <1>1, <1>2
    <3>2. QED
      BY <1>2, <3>1, FS_Subset DEF N
  <2>2. V[0] # {}
    BY <1>1
  <2>3. QED
    BY <1>2, <1>3, <1>4, <2>1, <2>2, Stabilises
<1>6. V[N] = Round(h, V[N]) /\ V[N] \in SUBSET D
  BY <1>1, <1>2, <1>5
<1>7. Keeps(h, V[N])
  <2> SUFFICES ASSUME NEW x \in V[N], NEW y \in D, Leads(h, x, y) PROVE y \in V[N]
    BY DEF Keeps
  <2>1. y \in Round(h, V[N])
    BY <1>2 DEF Leads, Round
  <2>2. QED
    BY <1>6, <2>1
<1>8. i \in V[N]
  <2> DEFINE S == {n \in Nat : i \in V[n]}
  <2>1. 0 \in S
    BY <1>1
  <2>2. ASSUME NEW n \in Nat, n \in S PROVE n + 1 \in S
    BY <1>3, <2>2
  <2> HIDE DEF S
  <2>3. \A n \in Nat : n \in S
    BY <2>1, <2>2, SetInduction
  <2>4. QED
    BY <1>2, <2>3 DEF S
<1>9. ASSUME NEW S, i \in S, Keeps(h, S) PROVE V[N] \subseteq S
  <2> DEFINE Q == {n \in Nat : V[n] \subseteq S}
  <2>1. 0 \in Q
    BY <1>1, <1>9
  <2>2. ASSUME NEW n \in Nat, n \in Q PROVE n + 1 \in Q
    <3>1. V[n] \subseteq S /\ V[n] \in SUBSET D /\ V[n + 1] = Round(h, V[n]) /\ V[n + 1] \in SUBSET D
      BY <1>1, <2>2
    <3>2. ASSUME NEW y \in V[n + 1] PROVE y \in S
      <4>1. y \in D /\ (y \in V[n] \/ \E x \in V[n] : Leads(h, x, y))
        BY <3>1 DEF Round, Leads
      <4>2. QED
        BY <1>9, <3>1, <4>1 DEF Keeps
    <3>3. QED
      BY <3>2
  <2> HIDE DEF Q
  <2>3. \A n \in Nat : n \in Q
    BY <2>1, <2>2, SetInduction
  <2>4. QED
    BY <1>2, <2>3 DEF Q
<1>10. QED
  BY <1>1, <1>6, <1>7, <1>8, <1>9

-----------------------------------------------------------------------------
(* The walk along a list.                                                  *)

IsWalk(W, h, a) ==
  W = [n \in Nat |-> IF n = 0 THEN h[a].child
                     ELSE IF W[n - 1] = Nil THEN Nil ELSE h[W[n - 1]].next]

\* get_array_item goes from item to item.
LEMMA WalkSteps ==
  ASSUME NEW h, NEW a \in DOMAIN h, Points(h)
  PROVE  /\ GetArrayItem(h, a, 0) = h[a].child
         /\ \A n \in Nat : GetArrayItem(h, a, n + 1) =
              IF GetArrayItem(h, a, n) = Nil THEN Nil ELSE h[GetArrayItem(h, a, n)].next
<1> DEFINE X == DOMAIN h \cup {Nil}
           T == [x \in X |-> IF x = Nil THEN Nil ELSE h[x].next]
           W == CHOOSE V : IsWalk(V, h, a)
<1>1. /\ T \in [X -> X] /\ h[a].child \in X
      /\ \A x \in X : T[x] = IF x = Nil THEN Nil ELSE h[x].next
  BY DEF Points
<1> HIDE DEF T, W
<1>2. PICK f \in [Nat -> X] : f[0] = h[a].child /\ \A n \in Nat : f[n + 1] = T[f[n]]
  <2>1. \E f : Orbit(f, X, h[a].child, T)
    BY <1>1, Repetition
  <2> QED
    BY <2>1 DEF Orbit
<1>3. IsWalk(f, h, a)
  <2>1. ASSUME NEW n \in Nat
        PROVE  f[n] = IF n = 0 THEN h[a].child
                      ELSE IF f[n - 1] = Nil THEN Nil ELSE h[f[n - 1]].next
    <3>1. CASE n = 0
      BY <1>2, <3>1
    <3>2. CASE n # 0
      <4>1. n - 1 \in Nat /\ n - 1 + 1 = n
        BY <3>2
      <4>2. f[n - 1] \in X /\ f[n] = T[f[n - 1]]
        BY <1>2, <4>1
      <4>3. QED
        BY <1>1, <3>2, <4>2
    <3>3. QED
      BY <3>1, <3>2
  <2>2. QED
    BY <1>2, <2>1 DEF IsWalk
<1>4. IsWalk(W, h, a)
  BY <1>3 DEF W
<1>5. \A n : GetArrayItem(h, a, n) = W[n]
  BY DEF GetArrayItem, IsWalk, W
<1>6. \A n \in Nat : W[n] = IF n = 0 THEN h[a].child
                           ELSE IF W[n - 1] = Nil THEN Nil ELSE h[W[n - 1]].next
  BY <1>4 DEF IsWalk
<1>7. ASSUME NEW n \in Nat PROVE W[n + 1] = IF W[n] = Nil THEN Nil ELSE h[W[n]].next
  <2>1. n + 1 \in Nat /\ n + 1 # 0 /\ n + 1 - 1 = n
    OBVIOUS
  <2>2. QED
    BY <1>6, <2>1
<1>8. QED
  BY <1>5, <1>6, <1>7

\* It stays in every set that holds the first member and the successors of its items.
LEMMA WalkStays ==
  ASSUME NEW h, NEW a \in DOMAIN h, Points(h), NEW S, h[a].child \in S \cup {Nil},
         \A x \in S : h[x].next \in S \cup {Nil}
  PROVE  \A n \in Nat : GetArrayItem(h, a, n) \in S \cup {Nil}
<1> DEFINE Q == {n \in Nat : GetArrayItem(h, a, n) \in S \cup {Nil}}
<1>1. 0 \in Q
  BY WalkSteps
<1>2. ASSUME NEW n \in Nat, n \in Q PROVE n + 1 \in Q
  BY <1>2, WalkSteps
<1> HIDE DEF Q
<1>3. \A n \in Nat : n \in Q
  BY <1>1, <1>2, SetInduction
<1>4. QED
  BY <1>3 DEF Q

-----------------------------------------------------------------------------
(* The inductive invariant, for a heap h and the items R that somebody holds. *)

Typed(h) == DOMAIN h \subseteq Items /\ \A x \in DOMAIN h : h[x] \in Item

Linked(h) ==
  \A x \in DOMAIN h :
    /\ h[x].next # Nil => h[x].next \in DOMAIN h /\ h[h[x].next].prev = x
    /\ h[x].prev # Nil => h[x].prev \in DOMAIN h /\ h[h[x].prev].next = x
    /\ h[x].child # Nil => h[x].child \in DOMAIN h /\ h[h[x].child].prev = Nil

\* A list has one owner, however many references share it.
Single(h) ==
  \A x, y \in DOMAIN h :
    ~h[x].isReference /\ ~h[y].isReference /\ h[x].child = h[y].child /\ h[x].child # Nil => x = y

\* What somebody holds is in no list, and nobody refers to it as to a list.
Rooted(h, R) ==
  /\ R \subseteq DOMAIN h
  /\ \A r \in R : h[r].next = Nil /\ h[r].prev = Nil /\ \A x \in DOMAIN h : h[x].child # r

\* Everything else is in a list, and the first of a list has its owner.
Ruled(h, R) ==
  \A x \in DOMAIN h \ R :
    h[x].prev # Nil \/ \E y \in DOMAIN h : ~h[y].isReference /\ h[y].child = x

\* There is no way round: every set of items has one to which none of them leads.
Grounded(h) ==
  \A S \in SUBSET DOMAIN h : S # {} => \E x \in S : \A y \in S : ~Leads(h, y, x)

Good(h, R) ==
  Typed(h) /\ Linked(h) /\ Single(h) /\ Rooted(h, R) /\ Ruled(h, R) /\ Grounded(h)

\* The pointers of linked items lead to items.
LEMMA GoodPoints ==
  ASSUME NEW h, Typed(h), Linked(h)
  PROVE  Points(h)
<1>1. IsFiniteSet(DOMAIN h)
  BY ItemsAssumption, FS_Subset DEF Typed
<1>2. Nil \notin DOMAIN h
  BY NilAssumption DEF Typed
<1>3. QED
  BY <1>1, <1>2 DEF Points, Linked

\* At most one item leads to an item, and none to what is held.
LEMMA OneLeader ==
  ASSUME NEW h, NEW R, Good(h, R), NEW x \in DOMAIN h, NEW y \in DOMAIN h, Leads(h, y, x)
  PROVE  x \notin R /\ \A z \in DOMAIN h : Leads(h, z, x) => z = y
<1>1. Nil \notin DOMAIN h
  BY NilAssumption DEF Typed, Good
<1>2. QED
  BY <1>1 DEF Good, Linked, Single, Rooted, Leads

\* What goes with i, and is not i, is led to only from what goes with i.
LEMMA FreedBack ==
  ASSUME NEW h, NEW R, Good(h, R), NEW i \in DOMAIN h,
         NEW x \in Freed(h, i), x # i, NEW y \in DOMAIN h, Leads(h, y, x)
  PROVE  y \in Freed(h, i)
<1> DEFINE F == Freed(h, i)
<1>1. /\ i \in F /\ F \subseteq DOMAIN h /\ Keeps(h, F)
      /\ \A S : i \in S /\ Keeps(h, S) => F \subseteq S
  BY GoodPoints, FreedIs DEF Good
<1> HIDE DEF F
<1>2. SUFFICES ASSUME y \notin F PROVE FALSE
  BY DEF F
<1>3. x \in F /\ x \in DOMAIN h
  BY <1>1 DEF F
<1>4. ASSUME NEW z \in F \ {x}, NEW w \in DOMAIN h, Leads(h, z, w) PROVE w \in F \ {x}
  <2>1. w \in F
    BY <1>1, <1>4 DEF Keeps
  <2>2. w # x
    BY <1>1, <1>2, <1>3, <1>4, OneLeader
  <2>3. QED
    BY <2>1, <2>2
<1>5. Keeps(h, F \ {x})
  BY <1>4 DEF Keeps
<1>6. QED
  BY <1>1, <1>3, <1>5

\* Something of what goes with i leads to whatever else goes with it.
LEMMA FreedLed ==
  ASSUME NEW h, NEW R, Good(h, R), NEW i \in DOMAIN h, NEW x \in Freed(h, i), x # i
  PROVE  \E y \in Freed(h, i) : Leads(h, y, x)
<1> DEFINE F == Freed(h, i)
<1>1. /\ i \in F /\ F \subseteq DOMAIN h /\ Keeps(h, F)
      /\ \A S : i \in S /\ Keeps(h, S) => F \subseteq S
  BY GoodPoints, FreedIs DEF Good
<1> HIDE DEF F
<1>2. SUFFICES ASSUME ~\E y \in F : Leads(h, y, x) PROVE FALSE
  BY DEF F
<1>3. Keeps(h, F \ {x})
  BY <1>1, <1>2 DEF Keeps
<1>4. QED
  BY <1>1, <1>3 DEF F

\* A member of a list: it is not held, it comes first exactly when it has no
\* predecessor, and it does not go with an item unless the whole list does.
LEMMA MemberOf ==
  ASSUME NEW h, NEW R, Good(h, R), NEW a \in DOMAIN h, ~h[a].isReference, NEW n \in Nat,
         GetArrayItem(h, a, n) # Nil
  PROVE  LET m == GetArrayItem(h, a, n)
         IN  /\ m \in DOMAIN h \ R
             /\ h[m].prev = Nil => m = h[a].child
             /\ \A i \in R : a \notin Freed(h, i) => m \notin Freed(h, i)
<1> DEFINE S == {m \in DOMAIN h \ R :
                   /\ h[m].prev = Nil => m = h[a].child
                   /\ \A i \in R : a \notin Freed(h, i) => m \notin Freed(h, i)}
<1>1. Points(h) /\ R \subseteq DOMAIN h /\ Nil \notin DOMAIN h
  BY GoodPoints DEF Good, Rooted, Points
<1>2. ASSUME NEW y \in DOMAIN h, NEW x \in DOMAIN h, Leads(h, y, x), NEW i \in R,
             y \notin Freed(h, i)
      PROVE  x \notin Freed(h, i)
  <2>1. x # i
    BY <1>2, OneLeader
  <2>2. QED
    BY <1>1, <1>2, <2>1, FreedBack
<1>3. h[a].child \in S \cup {Nil}
  <2> SUFFICES ASSUME h[a].child # Nil PROVE h[a].child \in S
    OBVIOUS
  <2>1. h[a].child \in DOMAIN h /\ Leads(h, a, h[a].child)
    BY DEF Good, Linked, Leads
  <2>2. h[a].child \notin R
    BY <2>1, OneLeader
  <2>3. QED
    BY <1>2, <2>1, <2>2
<1>4. ASSUME NEW x \in S PROVE h[x].next \in S \cup {Nil}
  <2> SUFFICES ASSUME h[x].next # Nil PROVE h[x].next \in S
    OBVIOUS
  <2>1. h[x].next \in DOMAIN h /\ Leads(h, x, h[x].next) /\ h[h[x].next].prev = x /\ x # Nil
    BY <1>1 DEF Good, Linked, Leads
  <2>2. h[x].next \notin R
    BY <2>1, OneLeader
  <2>3. QED
    BY <1>2, <2>1, <2>2
<1> HIDE DEF S
<1>5. GetArrayItem(h, a, n) \in S
  BY <1>1, <1>3, <1>4, WalkStays
<1>6. QED
  BY <1>5 DEF S

\* A list that is not empty has a last member, within the reach of the walk.
LEMMA LastMember ==
  ASSUME NEW h, NEW R, Good(h, R), NEW a \in DOMAIN h, ~h[a].isReference, h[a].child # Nil
  PROVE  \E n \in Index(h) : GetArrayItem(h, a, n) # Nil /\ h[GetArrayItem(h, a, n)].next = Nil
<1> DEFINE N == Cardinality(DOMAIN h)
           w(n) == GetArrayItem(h, a, n)
<1>1. Points(h) /\ IsFiniteSet(DOMAIN h) /\ N \in Nat /\ Index(h) = 0 .. N
  BY GoodPoints, FS_CardinalityType DEF Good, Points, Index
<1>2. w(0) = h[a].child /\ \A n \in Nat : w(n + 1) = IF w(n) = Nil THEN Nil ELSE h[w(n)].next
  BY <1>1, WalkSteps
<1>3. \A n \in Nat : w(n) # Nil => w(n) \in DOMAIN h
  BY MemberOf
<1> HIDE DEF N, w
<1> SUFFICES ASSUME \A n \in 0 .. N : w(n) # Nil => h[w(n)].next # Nil PROVE FALSE
  BY <1>1 DEF w
<1>4. \A n \in 0 .. N : w(n) \in DOMAIN h
  <2> DEFINE Q == {n \in Nat : n \in 0 .. N => w(n) # Nil}
  <2>1. 0 \in Q
    BY <1>2
  <2>2. ASSUME NEW n \in Nat, n \in Q PROVE n + 1 \in Q
    <3> SUFFICES ASSUME n + 1 \in 0 .. N PROVE w(n + 1) # Nil
      OBVIOUS
    <3>1. n \in 0 .. N
      BY <1>1
    <3>2. w(n) # Nil /\ h[w(n)].next # Nil
      BY <2>2, <3>1
    <3>3. QED
      BY <1>2, <3>2
  <2> HIDE DEF Q
  <2>3. \A n \in Nat : n \in Q
    BY <2>1, <2>2, SetInduction
  <2>4. ASSUME NEW n \in 0 .. N PROVE w(n) \in DOMAIN h
    <3>1. n \in Nat /\ n \in Q
      BY <1>1, <2>3
    <3>2. QED
      BY <1>3, <3>1 DEF Q
  <2>5. QED
    BY <2>4
<1>5. h[w(0)].prev = Nil
  BY <1>2 DEF Good, Linked
<1>6. ASSUME NEW n \in Nat, n + 1 \in 0 .. N PROVE h[w(n + 1)].prev = w(n) /\ w(n) # Nil
  <2>1. n \in 0 .. N
    BY <1>1, <1>6
  <2>2. w(n) \in DOMAIN h /\ w(n) # Nil /\ w(n + 1) \in DOMAIN h /\ w(n + 1) = h[w(n)].next
    BY <1>1, <1>2, <1>4, <1>6, <2>1 DEF Points
  <2>3. QED
    BY <1>1, <2>2 DEF Good, Linked, Points
<1>7. \A j, k \in 0 .. N : j < k => w(j) # w(k)
  <2> DEFINE Q == {j \in Nat : j \in 0 .. N => \A k \in 0 .. N : j < k => w(j) # w(k)}
  <2>1. 0 \in Q
    <3> SUFFICES ASSUME NEW k \in 0 .. N, 0 < k PROVE w(0) # w(k)
      OBVIOUS
    <3>1. k - 1 \in Nat /\ k - 1 + 1 = k
      BY <1>1
    <3>2. h[w(k)].prev = w(k - 1) /\ w(k - 1) # Nil
      BY <1>6, <3>1
    <3>3. QED
      BY <1>5, <3>2
  <2>2. ASSUME NEW j \in Nat, j \in Q PROVE j + 1 \in Q
    <3> SUFFICES ASSUME j + 1 \in 0 .. N, NEW k \in 0 .. N, j + 1 < k PROVE w(j + 1) # w(k)
      OBVIOUS
    <3>1. k - 1 \in Nat /\ k - 1 + 1 = k /\ k - 1 \in 0 .. N /\ j \in 0 .. N /\ j < k - 1
      BY <1>1
    <3>2. h[w(k)].prev = w(k - 1) /\ h[w(j + 1)].prev = w(j)
      BY <1>6, <3>1
    <3>3. w(j) # w(k - 1)
      BY <2>2, <3>1
    <3>4. QED
      BY <3>2, <3>3
  <2> HIDE DEF Q
  <2>3. \A j \in Nat : j \in Q
    BY <2>1, <2>2, SetInduction
  <2>4. ASSUME NEW j \in 0 .. N PROVE j \in Nat
    BY <1>1
  <2>5. QED
    BY <2>3, <2>4 DEF Q
<1> DEFINE f == [n \in 0 .. N |-> w(n)]
<1>8. f \in [0 .. N -> DOMAIN h]
  BY <1>4
<1>9. IsFiniteSet(0 .. N) /\ Cardinality(0 .. N) = N + 1
  BY <1>1, FS_Interval
<1>10. PICK j \in 0 .. N, k \in 0 .. N : j # k /\ f[j] = f[k]
  <2>1. N < N + 1 /\ Cardinality(DOMAIN h) < Cardinality(0 .. N)
    BY <1>1, <1>9 DEF N
  <2> HIDE DEF f
  <2>2. QED
    BY <1>1, <1>8, <1>9, <2>1, FS_PigeonHole
<1>11. j < k \/ k < j
  BY <1>1, <1>10
<1>12. QED
  BY <1>7, <1>10, <1>11

-----------------------------------------------------------------------------
(* The steps that keep a heap good.                                        *)

\* The same links: only names and flags of names differ.
SameLinks(h, g) ==
  /\ DOMAIN g = DOMAIN h
  /\ \A x \in DOMAIN h :
       /\ g[x].next = h[x].next /\ g[x].prev = h[x].prev
       /\ g[x].child = h[x].child /\ g[x].isReference = h[x].isReference

\* Such heaps are good together, and cJSON_Delete visits the same items of both.
LEMMA GoodSameLinks ==
  ASSUME NEW h, NEW R, Good(h, R), NEW g, Typed(g), SameLinks(h, g)
  PROVE  Good(g, R) /\ \A i \in DOMAIN h : Freed(g, i) = Freed(h, i)
<1>1. \A x, y \in DOMAIN h : Leads(g, x, y) = Leads(h, x, y)
  BY DEF SameLinks, Leads
<1>2. Linked(g) /\ Single(g) /\ Rooted(g, R) /\ Ruled(g, R)
  BY DEF Good, Linked, Single, Rooted, Ruled, SameLinks
<1>3. Grounded(g)
  BY <1>1 DEF Good, Grounded, SameLinks
<1>4. ASSUME NEW i \in DOMAIN h PROVE Freed(g, i) = Freed(h, i)
  <2>1. /\ i \in Freed(h, i) /\ Freed(h, i) \subseteq DOMAIN h /\ Keeps(h, Freed(h, i))
        /\ \A S : i \in S /\ Keeps(h, S) => Freed(h, i) \subseteq S
    BY GoodPoints, FreedIs DEF Good
  <2>2. /\ i \in Freed(g, i) /\ Freed(g, i) \subseteq DOMAIN g /\ Keeps(g, Freed(g, i))
        /\ \A S : i \in S /\ Keeps(g, S) => Freed(g, i) \subseteq S
    BY <1>2, GoodPoints, FreedIs DEF SameLinks
  <2>3. Keeps(g, Freed(h, i)) /\ Keeps(h, Freed(g, i))
    BY <1>1, <2>1, <2>2 DEF Keeps, SameLinks
  <2>4. QED
    BY <2>1, <2>2, <2>3
<1>5. QED
  BY <1>2, <1>3, <1>4 DEF Good

\* A new item, by itself or as a reference to a list.
LEMMA GoodAlloc ==
  ASSUME NEW h, NEW R, Good(h, R), NEW i \in Items \ DOMAIN h, NEW item \in Item,
         item.next = Nil, item.prev = Nil,
         \/ item.child = Nil
         \/ item.isReference /\ item.child \in DOMAIN h \ R /\ h[item.child].prev = Nil
  PROVE  Good(Alloc(h, i, item), R \cup {i})
<1> DEFINE g == Alloc(h, i, item)
           D == DOMAIN h
<1>1. /\ DOMAIN g = D \cup {i} /\ g[i] = item
      /\ \A x \in D : g[x] = h[x]
  BY DEF Alloc
<1>2. Nil \notin D /\ Nil # i /\ i \notin D
  BY NilAssumption DEF Good, Typed
<1> HIDE DEF g
<1>3. Typed(g)
  BY <1>1 DEF Good, Typed
<1>4. \A x \in D : h[x].next # i /\ h[x].prev # i /\ h[x].child # i
  BY <1>2 DEF Good, Linked
<1>5. item.child # i
  BY <1>2
<1>6. Linked(g)
  BY <1>1, <1>2 DEF Good, Linked
<1>7. Single(g)
  BY <1>1, <1>2, <1>4 DEF Good, Single
<1>8. Rooted(g, R \cup {i})
  BY <1>1, <1>2, <1>4, <1>5 DEF Good, Rooted
<1>9. Ruled(g, R \cup {i})
  BY <1>1, <1>2 DEF Good, Ruled
<1>10. Grounded(g)
  <2> SUFFICES ASSUME NEW S \in SUBSET (D \cup {i}), S # {}
               PROVE  \E x \in S : \A y \in S : ~Leads(g, y, x)
    BY <1>1 DEF Grounded
  <2>1. CASE S \ {i} = {}
    <3>1. S = {i} /\ ~Leads(g, i, i)
      BY <1>1, <1>2, <1>5, <2>1 DEF Leads
    <3>2. QED
      BY <3>1
  <2>2. CASE S \ {i} # {}
    <3>1. PICK x \in S \ {i} : \A y \in S \ {i} : ~Leads(h, y, x)
      BY <2>2 DEF Good, Grounded
    <3>2. ASSUME NEW y \in S PROVE ~Leads(g, y, x)
      <4>1. CASE y = i
        <5>1. x # Nil /\ item.next # x
          BY <1>2, <3>1
        <5>2. item.isReference \/ item.child # x
          BY <1>2, <3>1
        <5>3. QED
          BY <1>1, <4>1, <5>1, <5>2 DEF Leads
      <4>2. CASE y # i
        BY <1>1, <3>1, <4>2 DEF Leads
      <4>3. QED
        BY <4>1, <4>2
    <3>3. QED
      BY <3>1, <3>2
  <2>3. QED
    BY <2>1, <2>2
<1>11. QED
  BY <1>3, <1>6, <1>7, <1>8, <1>9, <1>10 DEF Good, g

\* cJSON_Delete of something held, when no reference that stays points into it.
LEMMA GoodDelete ==
  ASSUME NEW h, NEW R, Good(h, R), NEW i \in R, Deletable(h, i)
  PROVE  Good(Delete(h, i), R \ {i})
<1> DEFINE g == Delete(h, i)
           F == Freed(h, i)
           D == DOMAIN h
<1>1. i \in D
  BY DEF Good, Rooted
<1>2. DOMAIN g = D \ F /\ \A x \in D \ F : g[x] = h[x]
  BY DEF Delete
<1>3. i \in F /\ F \subseteq D /\ Keeps(h, F)
  BY <1>1, GoodPoints, FreedIs DEF Good
<1>4. \A x \in D \ F, y \in F : ~Leads(h, x, y)
  <2> SUFFICES ASSUME NEW x \in D \ F, NEW y \in F, Leads(h, x, y) PROVE FALSE
    OBVIOUS
  <2>1. y \in D
    BY <1>3
  <2>2. y # i
    BY <2>1, OneLeader
  <2>3. QED
    BY <1>1, <2>2, FreedBack
<1>5. \A x \in F, y \in D \ F : ~Leads(h, x, y)
  BY <1>3 DEF Keeps
<1>6. \A x \in D \ F : h[x].isReference => h[x].child \notin F
  BY DEF Deletable
<1>7. \A r \in R : r # i => r \notin F
  <2> SUFFICES ASSUME NEW r \in R, r # i, r \in F PROVE FALSE
    OBVIOUS
  <2>1. PICK y \in F : Leads(h, y, r)
    BY <1>1, FreedLed
  <2>2. QED
    BY <1>3, <2>1, OneLeader
<1> HIDE DEF g, F
<1>8. \A x \in D \ F : h[x].next \notin F /\ h[x].child \notin F /\ h[x].prev \notin F
  <2> SUFFICES ASSUME NEW x \in D \ F
               PROVE  h[x].next \notin F /\ h[x].child \notin F /\ h[x].prev \notin F
    OBVIOUS
  <2>1. h[x].next \notin F /\ h[x].child \notin F
    BY <1>4, <1>6 DEF Leads
  <2>2. h[x].prev \notin F
    <3> SUFFICES ASSUME h[x].prev \in F PROVE FALSE
      OBVIOUS
    <3>1. h[x].prev \in D /\ h[x].prev # Nil
      BY <1>3, NilAssumption DEF Good, Typed
    <3>2. h[h[x].prev].next = x
      BY <3>1 DEF Good, Linked
    <3>3. QED
      BY <1>5, <3>2 DEF Leads
  <2>3. QED
    BY <2>1, <2>2
<1>9. Typed(g)
  BY <1>2 DEF Good, Typed
<1>10. Linked(g)
  BY <1>2, <1>8 DEF Good, Linked
<1>11. Single(g)
  BY <1>2 DEF Good, Single
<1>12. Rooted(g, R \ {i})
  BY <1>2, <1>7 DEF Good, Rooted
<1>13. Ruled(g, R \ {i})
  <2> SUFFICES ASSUME NEW x \in D \ F, x \notin R, h[x].prev = Nil
               PROVE  \E y \in D \ F : ~g[y].isReference /\ g[y].child = x
    BY <1>2, <1>3 DEF Ruled
  <2>1. PICK y \in D : ~h[y].isReference /\ h[y].child = x
    BY DEF Good, Ruled
  <2>2. y \notin F
    BY <1>5, <2>1 DEF Leads
  <2>3. QED
    BY <1>2, <2>1, <2>2
<1>14. Grounded(g)
  <2> SUFFICES ASSUME NEW S \in SUBSET (D \ F), S # {}
               PROVE  \E x \in S : \A y \in S : ~Leads(g, y, x)
    BY <1>2 DEF Grounded
  <2>1. PICK x \in S : \A y \in S : ~Leads(h, y, x)
    BY DEF Good, Grounded
  <2>2. QED
    BY <1>2, <2>1 DEF Leads
<1>15. QED
  BY <1>9, <1>10, <1>11, <1>12, <1>13, <1>14 DEF Good, g

\* g is h with the item i between b and c in the list of a; b = Nil: as the first.
Inserted(h, g, a, b, c, i) ==
  /\ DOMAIN g = DOMAIN h
  /\ \A x \in DOMAIN h :
       /\ g[x].isReference = h[x].isReference
       /\ g[x].next = IF x = i THEN c ELSE IF x = b THEN i ELSE h[x].next
       /\ g[x].prev = IF x = i THEN b ELSE IF x = c THEN i ELSE h[x].prev
       /\ g[x].child = IF x = a /\ b = Nil THEN i ELSE h[x].child

\* b and c are neighbours in the list of a.
Between(h, a, b, c) ==
  /\ a \in DOMAIN h /\ ~h[a].isReference
  /\ b \in DOMAIN h \cup {Nil} /\ c \in DOMAIN h \cup {Nil}
  /\ IF b = Nil THEN h[a].child = c ELSE h[b].next = c
  /\ b = Nil /\ c # Nil => \A x \in DOMAIN h \ {a} : h[x].child # c

\* The appends and the insertions put something held into a list that it does not
\* hold itself.
LEMMA GoodInsert ==
  ASSUME NEW h, NEW R, Good(h, R), NEW i \in R, NEW a, NEW b, NEW c, Between(h, a, b, c),
         a \notin Freed(h, i), b \notin Freed(h, i), b \notin R,
         NEW g, Typed(g), Inserted(h, g, a, b, c, i)
  PROVE  Good(g, R \ {i})
<1> DEFINE D == DOMAIN h
           F == Freed(h, i)
           u == IF b = Nil THEN a ELSE b
<1>1. Nil \notin D /\ i \in D /\ R \subseteq D
  BY NilAssumption DEF Good, Typed, Rooted
<1>2. i \in F /\ F \subseteq D /\ Keeps(h, F)
  BY <1>1, GoodPoints, FreedIs DEF Good
<1>3. /\ DOMAIN g = D
      /\ \A x \in D :
           /\ g[x].isReference = h[x].isReference
           /\ g[x].next = IF x = i THEN c ELSE IF x = b THEN i ELSE h[x].next
           /\ g[x].prev = IF x = i THEN b ELSE IF x = c THEN i ELSE h[x].prev
           /\ g[x].child = IF x = a /\ b = Nil THEN i ELSE h[x].child
  BY DEF Inserted
<1>4. /\ a \in D /\ ~h[a].isReference /\ b \in D \cup {Nil} /\ c \in D \cup {Nil}
      /\ IF b = Nil THEN h[a].child = c ELSE h[b].next = c
      /\ b = Nil /\ c # Nil => \A x \in D \ {a} : h[x].child # c
  BY DEF Between
<1>5. /\ h[i].next = Nil /\ h[i].prev = Nil
      /\ \A x \in D : h[x].child # i /\ h[x].next # i /\ h[x].prev # i
  BY <1>1 DEF Good, Rooted, Linked
<1>6. a # i /\ b # i
  BY <1>2
<1>7. c # i /\ (c # Nil => h[c].prev = b)
  BY <1>1, <1>4, <1>5 DEF Good, Linked
<1>8. b # Nil => \A x \in D : h[x].next = c /\ c # Nil => x = b
  BY <1>7 DEF Good, Linked
<1> HIDE DEF F
<1>9. Linked(g)
  <2> SUFFICES ASSUME NEW x \in D
               PROVE  /\ g[x].next # Nil => g[x].next \in D /\ g[g[x].next].prev = x
                      /\ g[x].prev # Nil => g[x].prev \in D /\ g[g[x].prev].next = x
                      /\ g[x].child # Nil => g[x].child \in D /\ g[g[x].child].prev = Nil
    BY <1>3 DEF Linked
  <2>0. /\ h[x].next # Nil => h[x].next \in D /\ h[h[x].next].prev = x
        /\ h[x].prev # Nil => h[x].prev \in D /\ h[h[x].prev].next = x
        /\ h[x].child # Nil => h[x].child \in D /\ h[h[x].child].prev = Nil
    BY DEF Good, Linked
  <2>1. g[x].next # Nil => g[x].next \in D /\ g[g[x].next].prev = x
    <3>1. CASE x = i
      BY <1>1, <1>3, <1>4, <1>7, <3>1
    <3>2. CASE x = b
      BY <1>1, <1>3, <1>6, <3>2
    <3>3. CASE x # i /\ x # b
      <4>1. g[x].next = h[x].next
        BY <1>3, <3>3
      <4>2. h[x].next # Nil => h[x].next # i /\ h[x].next # c
        BY <1>5, <1>7, <2>0, <3>3
      <4>3. QED
        BY <1>3, <2>0, <4>1, <4>2
    <3>4. QED
      BY <3>1, <3>2, <3>3
  <2>2. g[x].prev # Nil => g[x].prev \in D /\ g[g[x].prev].next = x
    <3>1. CASE x = i
      BY <1>1, <1>3, <1>4, <1>6, <3>1
    <3>2. CASE x = c
      BY <1>1, <1>3, <1>7, <3>2
    <3>3. CASE x # i /\ x # c
      <4>1. g[x].prev = h[x].prev
        BY <1>3, <3>3
      <4>2. h[x].prev # Nil => h[x].prev # i /\ h[x].prev # b
        BY <1>1, <1>4, <1>5, <2>0, <3>3
      <4>3. QED
        BY <1>3, <2>0, <4>1, <4>2
    <3>4. QED
      BY <3>1, <3>2, <3>3
  <2>3. g[x].child # Nil => g[x].child \in D /\ g[g[x].child].prev = Nil
    <3>1. CASE x = a /\ b = Nil
      BY <1>1, <1>3, <3>1
    <3>2. CASE ~(x = a /\ b = Nil)
      <4>1. g[x].child = h[x].child
        BY <1>3, <3>2
      <4>2. h[x].child # Nil => h[x].child # i /\ h[x].child # c
        BY <1>1, <1>4, <1>5, <1>7, <2>0, <3>2
      <4>3. QED
        BY <1>3, <2>0, <4>1, <4>2
    <3>3. QED
      BY <3>1, <3>2
  <2>4. QED
    BY <2>1, <2>2, <2>3
<1>10. Single(g)
  BY <1>3, <1>5 DEF Good, Single
<1>11. Rooted(g, R \ {i})
  <2> SUFFICES ASSUME NEW r \in R \ {i}
               PROVE  g[r].next = Nil /\ g[r].prev = Nil /\ \A x \in D : g[x].child # r
    BY <1>1, <1>3 DEF Rooted
  <2>1. r \in D /\ h[r].next = Nil /\ h[r].prev = Nil /\ \A x \in D : h[x].child # r
    BY DEF Good, Rooted
  <2>2. r # c
    BY <1>1, <1>4, <1>7, <2>1
  <2>3. r # b
    OBVIOUS
  <2>4. QED
    BY <1>3, <2>1, <2>2, <2>3
<1>12. Ruled(g, R \ {i})
  <2> SUFFICES ASSUME NEW x \in D, x \notin R \/ x = i, g[x].prev = Nil
               PROVE  \E y \in D : ~g[y].isReference /\ g[y].child = x
    BY <1>3 DEF Ruled
  <2>1. CASE x = i
    BY <1>1, <1>3, <1>4, <2>1
  <2>2. CASE x # i
    <3>1. x # c /\ h[x].prev = Nil
      BY <1>1, <1>3, <2>2
    <3>2. PICK y \in D : ~h[y].isReference /\ h[y].child = x
      BY <2>2, <3>1 DEF Good, Ruled
    <3>3. ~(y = a /\ b = Nil)
      BY <1>4, <3>1, <3>2
    <3>4. QED
      BY <1>3, <3>2, <3>3
  <2>3. QED
    BY <2>1, <2>2
<1>13. \A x, y \in D : Leads(g, x, y) =>
         Leads(h, x, y) \/ (x = u /\ y = i) \/ (x = i /\ y = c /\ Leads(h, u, c))
  BY <1>1, <1>3, <1>4, <1>5 DEF Leads
<1>14. u \in D /\ u \notin F /\ \A x \in D : ~Leads(h, x, i)
  BY <1>4, <1>5 DEF Leads, F
<1> HIDE DEF u
<1>15. Grounded(g)
  <2> SUFFICES ASSUME NEW S \in SUBSET D, S # {}
               PROVE  \E x \in S : \A y \in S : ~Leads(g, y, x)
    BY <1>3 DEF Grounded
  <2>1. CASE i \in S /\ u \notin S
    <3>1. \A y \in S : ~Leads(g, y, i)
      BY <1>1, <1>13, <1>14, <1>7, <2>1
    <3>2. QED
      BY <2>1, <3>1
  <2>2. CASE (i \notin S \/ u \in S) /\ S \ F # {}
    <3>1. PICK x \in S \ F : \A y \in S \ F : ~Leads(h, y, x)
      BY <2>2 DEF Good, Grounded
    <3>2. ASSUME NEW y \in S, Leads(g, y, x) PROVE FALSE
      <4>1. ~Leads(h, y, x)
        BY <1>2, <3>1 DEF Keeps
      <4>2. x # i
        BY <1>2, <3>1
      <4>3. y = i /\ x = c /\ Leads(h, u, c)
        BY <1>13, <3>1, <3>2, <4>1, <4>2
      <4>4. u \in S \ F
        BY <1>14, <2>2, <4>3
      <4>5. QED
        BY <3>1, <4>3, <4>4
    <3>3. QED
      BY <3>1, <3>2
  <2>3. CASE (i \notin S \/ u \in S) /\ S \ F = {}
    <3>1. u \notin S /\ i \notin S
      BY <1>14, <2>3
    <3>2. PICK x \in S : \A y \in S : ~Leads(h, y, x)
      BY DEF Good, Grounded
    <3>3. QED
      BY <1>13, <3>1, <3>2
  <2>4. QED
    BY <2>1, <2>2, <2>3
<1>16. QED
  BY <1>9, <1>10, <1>11, <1>12, <1>15 DEF Good

\* g is h with the item i taken out from between b and c in the list of p.
Detached(h, g, p, b, c, i) ==
  /\ DOMAIN g = DOMAIN h
  /\ \A x \in DOMAIN h :
       /\ g[x].isReference = h[x].isReference
       /\ g[x].next = IF x = i THEN Nil ELSE IF x = b THEN c ELSE h[x].next
       /\ g[x].prev = IF x = i THEN Nil ELSE IF x = c THEN b ELSE h[x].prev
       /\ g[x].child = IF x = p /\ h[x].child = i THEN c ELSE h[x].child

\* No reference shares the list of p.
Alone(h, p) ==
  /\ p \in DOMAIN h /\ ~h[p].isReference
  /\ h[p].child = Nil \/ \A x \in DOMAIN h \ {p} : h[x].child # h[p].child

\* A member of a list that no reference shares is taken out, and held.
LEMMA GoodDetach ==
  ASSUME NEW h, NEW R, Good(h, R), NEW p, Alone(h, p), NEW i \in DOMAIN h \ R,
         h[i].prev = Nil => h[p].child = i,
         NEW g, Typed(g), Detached(h, g, p, h[i].prev, h[i].next, i)
  PROVE  Good(g, R \cup {i})
<1> DEFINE D == DOMAIN h
<1>0. PICK b, c : b = h[i].prev /\ c = h[i].next
  OBVIOUS
<1>1. Nil \notin D /\ R \subseteq D
  BY NilAssumption DEF Good, Typed, Rooted
<1>2. /\ DOMAIN g = D
      /\ \A x \in D :
           /\ g[x].isReference = h[x].isReference
           /\ g[x].next = IF x = i THEN Nil ELSE IF x = b THEN c ELSE h[x].next
           /\ g[x].prev = IF x = i THEN Nil ELSE IF x = c THEN b ELSE h[x].prev
           /\ g[x].child = IF x = p /\ h[x].child = i THEN c ELSE h[x].child
  BY <1>0 DEF Detached
<1>3. /\ p \in D /\ ~h[p].isReference
      /\ h[p].child = Nil \/ \A x \in D \ {p} : h[x].child # h[p].child
  BY DEF Alone
<1>4. /\ b # Nil => b \in D /\ h[b].next = i
      /\ c # Nil => c \in D /\ h[c].prev = i
  BY <1>0 DEF Good, Linked
<1>5. b = Nil => h[p].child = i /\ \A x \in D \ {p} : h[x].child # i
  BY <1>0, <1>1, <1>3
<1>6. b # Nil => \A x \in D : h[x].child # i
  BY <1>0, <1>1 DEF Good, Linked
<1>7. b # i /\ c # i
  <2>1. PICK x \in {i} : \A y \in {i} : ~Leads(h, y, x)
    BY DEF Good, Grounded
  <2>2. h[i].next # i
    BY <2>1 DEF Leads
  <2>3. QED
    BY <1>0, <1>1, <1>4, <2>2
<1>8. c # Nil => b # c
  <2> SUFFICES ASSUME c # Nil, b = c PROVE FALSE
    OBVIOUS
  <2>1. Leads(h, i, c) /\ Leads(h, c, i) /\ c \in D
    BY <1>0, <1>4 DEF Leads
  <2>2. {i, c} \in SUBSET D /\ {i, c} # {}
    BY <2>1
  <2>3. PICK x \in {i, c} : \A y \in {i, c} : ~Leads(h, y, x)
    BY <2>2 DEF Good, Grounded
  <2>4. QED
    BY <2>1, <2>3
<1>9. Linked(g)
  <2> SUFFICES ASSUME NEW x \in D
               PROVE  /\ g[x].next # Nil => g[x].next \in D /\ g[g[x].next].prev = x
                      /\ g[x].prev # Nil => g[x].prev \in D /\ g[g[x].prev].next = x
                      /\ g[x].child # Nil => g[x].child \in D /\ g[g[x].child].prev = Nil
    BY <1>2 DEF Linked
  <2>0. /\ h[x].next # Nil => h[x].next \in D /\ h[h[x].next].prev = x
        /\ h[x].prev # Nil => h[x].prev \in D /\ h[h[x].prev].next = x
        /\ h[x].child # Nil => h[x].child \in D /\ h[h[x].child].prev = Nil
    BY DEF Good, Linked
  <2>1. g[x].next # Nil => g[x].next \in D /\ g[g[x].next].prev = x
    <3>1. CASE x = i
      BY <1>2, <3>1
    <3>2. CASE x = b /\ x # i
      BY <1>2, <1>4, <1>7, <3>2
    <3>3. CASE x # i /\ x # b
      <4>1. g[x].next = h[x].next
        BY <1>2, <3>3
      <4>2. h[x].next # Nil => h[x].next # i /\ h[x].next # c
        BY <1>0, <1>4, <2>0, <3>3
      <4>3. QED
        BY <1>2, <2>0, <4>1, <4>2
    <3>4. QED
      BY <3>1, <3>2, <3>3
  <2>2. g[x].prev # Nil => g[x].prev \in D /\ g[g[x].prev].next = x
    <3>1. CASE x = i
      BY <1>2, <3>1
    <3>2. CASE x = c /\ x # i
      BY <1>2, <1>4, <1>7, <3>2
    <3>3. CASE x # i /\ x # c
      <4>1. g[x].prev = h[x].prev
        BY <1>2, <3>3
      <4>2. h[x].prev # Nil => h[x].prev # i /\ h[x].prev # b
        BY <1>0, <1>4, <2>0, <3>3
      <4>3. QED
        BY <1>2, <2>0, <4>1, <4>2
    <3>4. QED
      BY <3>1, <3>2, <3>3
  <2>3. g[x].child # Nil => g[x].child \in D /\ g[g[x].child].prev = Nil
    <3>1. CASE x = p /\ h[x].child = i
      <4>1. b = Nil
        BY <1>6, <3>1
      <4>2. QED
        BY <1>2, <1>4, <1>7, <3>1, <4>1
    <3>2. CASE ~(x = p /\ h[x].child = i)
      <4>1. g[x].child = h[x].child
        BY <1>2, <3>2
      <4>2. h[x].child # i
        BY <1>5, <1>6, <3>2
      <4>3. h[x].child # Nil => h[x].child # c
        BY <1>0, <1>1, <1>4, <2>0
      <4>4. QED
        BY <1>2, <2>0, <4>1, <4>2, <4>3
    <3>3. QED
      BY <3>1, <3>2
  <2>4. QED
    BY <2>1, <2>2, <2>3
<1>10. \A x \in D : h[x].child = c => c = Nil
  BY <1>1, <1>4 DEF Good, Linked
<1>11. Single(g)
  BY <1>2, <1>10 DEF Good, Single
<1>12. Rooted(g, R \cup {i})
  <2>1. ASSUME NEW r \in R
        PROVE  g[r].next = Nil /\ g[r].prev = Nil /\ \A x \in D : g[x].child # r
    <3>1. r \in D /\ h[r].next = Nil /\ h[r].prev = Nil /\ \A x \in D : h[x].child # r
      BY DEF Good, Rooted
    <3>2. r # b /\ r # c
      BY <1>0, <1>1, <1>4, <3>1
    <3>3. QED
      BY <1>1, <1>2, <3>1, <3>2
  <2>2. g[i].next = Nil /\ g[i].prev = Nil
    BY <1>2
  <2>3. \A x \in D : g[x].child # i
    BY <1>2, <1>5, <1>6, <1>7
  <2>4. QED
    BY <1>1, <1>2, <2>1, <2>2, <2>3 DEF Rooted
<1>13. Ruled(g, R \cup {i})
  <2> SUFFICES ASSUME NEW x \in D, x \notin R, x # i, g[x].prev = Nil
               PROVE  \E y \in D : ~g[y].isReference /\ g[y].child = x
    BY <1>2 DEF Ruled
  <2>1. CASE x = c
    <3>1. b = Nil
      BY <1>2, <2>1
    <3>2. QED
      BY <1>2, <1>3, <1>5, <2>1, <3>1
  <2>2. CASE x # c
    <3>1. h[x].prev = Nil
      BY <1>2, <2>2
    <3>2. PICK y \in D : ~h[y].isReference /\ h[y].child = x
      BY <3>1 DEF Good, Ruled
    <3>3. QED
      BY <1>2, <3>2
  <2>3. QED
    BY <2>1, <2>2
<1>14. Grounded(g)
  <2> DEFINE u == IF b = Nil THEN p ELSE b
  <2> SUFFICES ASSUME NEW S \in SUBSET D, S # {}
               PROVE  \E x \in S : \A y \in S : ~Leads(g, y, x)
    BY <1>2 DEF Grounded
  <2>1. \A x, y \in D : Leads(g, x, y) => Leads(h, x, y) \/ (x = u /\ y = c)
    BY <1>1, <1>2, <1>6 DEF Leads
  <2>2. Leads(h, u, i) /\ u \in D /\ (c # Nil => Leads(h, i, c))
    BY <1>0, <1>3, <1>4, <1>5 DEF Leads
  <2> HIDE DEF u
  <2>3. CASE u \notin S
    <3>1. PICK x \in S : \A y \in S : ~Leads(h, y, x)
      BY DEF Good, Grounded
    <3>2. QED
      BY <2>1, <2>3, <3>1
  <2>4. CASE u \in S
    <3>1. S \cup {i} \in SUBSET D /\ S \cup {i} # {}
      OBVIOUS
    <3>2. PICK x \in S \cup {i} : \A y \in S \cup {i} : ~Leads(h, y, x)
      BY <3>1 DEF Good, Grounded
    <3>3. x \in S
      BY <2>2, <2>4, <3>2
    <3>4. x # c
      BY <1>1, <2>2, <3>2, <3>3
    <3>5. QED
      BY <2>1, <3>2, <3>3, <3>4
  <2>5. QED
    BY <2>3, <2>4
<1>15. QED
  BY <1>9, <1>11, <1>12, <1>13, <1>14 DEF Good

\* Two good heaps that have no item in common.
LEMMA GoodUnion ==
  ASSUME NEW h, NEW R, Good(h, R), NEW k, NEW Q, Good(k, Q), DOMAIN h \cap DOMAIN k = {},
         NEW g, DOMAIN g = DOMAIN h \cup DOMAIN k,
         \A x \in DOMAIN h : g[x] = h[x], \A x \in DOMAIN k : g[x] = k[x]
  PROVE  Good(g, R \cup Q)
<1>1. Nil \notin DOMAIN h /\ Nil \notin DOMAIN k
  BY NilAssumption DEF Good, Typed
<1>2. Typed(g)
  BY DEF Good, Typed
<1>3. /\ \A x \in DOMAIN h : /\ g[x].next \in DOMAIN h \cup {Nil}
                             /\ g[x].prev \in DOMAIN h \cup {Nil}
                             /\ g[x].child \in DOMAIN h \cup {Nil}
      /\ \A x \in DOMAIN k : /\ g[x].next \in DOMAIN k \cup {Nil}
                             /\ g[x].prev \in DOMAIN k \cup {Nil}
                             /\ g[x].child \in DOMAIN k \cup {Nil}
  BY DEF Good, Linked
<1>4. Linked(g)
  <2>1. ASSUME NEW x \in DOMAIN h
        PROVE  /\ g[x].next # Nil => g[x].next \in DOMAIN g /\ g[g[x].next].prev = x
               /\ g[x].prev # Nil => g[x].prev \in DOMAIN g /\ g[g[x].prev].next = x
               /\ g[x].child # Nil => g[x].child \in DOMAIN g /\ g[g[x].child].prev = Nil
    BY DEF Good, Linked
  <2>2. ASSUME NEW x \in DOMAIN k
        PROVE  /\ g[x].next # Nil => g[x].next \in DOMAIN g /\ g[g[x].next].prev = x
               /\ g[x].prev # Nil => g[x].prev \in DOMAIN g /\ g[g[x].prev].next = x
               /\ g[x].child # Nil => g[x].child \in DOMAIN g /\ g[g[x].child].prev = Nil
    BY DEF Good, Linked
  <2>3. QED
    BY <2>1, <2>2 DEF Linked
<1>5. Single(g)
  <2> SUFFICES ASSUME NEW x \in DOMAIN g, NEW y \in DOMAIN g, ~g[x].isReference,
                      ~g[y].isReference, g[x].child = g[y].child, g[x].child # Nil
               PROVE  x = y
    BY DEF Single
  <2>1. CASE x \in DOMAIN h /\ y \in DOMAIN h
    BY <2>1 DEF Good, Single
  <2>2. CASE x \in DOMAIN k /\ y \in DOMAIN k
    BY <2>2 DEF Good, Single
  <2>3. QED
    BY <1>3, <2>1, <2>2
<1>6. Rooted(g, R \cup Q)
  <2>1. R \subseteq DOMAIN h /\ Q \subseteq DOMAIN k
    BY DEF Good, Rooted
  <2>2. ASSUME NEW r \in R \cup Q, NEW x \in DOMAIN g PROVE g[x].child # r
    <3>1. CASE r \in R /\ x \in DOMAIN h
      BY <3>1 DEF Good, Rooted
    <3>2. CASE r \in Q /\ x \in DOMAIN k
      BY <3>2 DEF Good, Rooted
    <3>3. QED
      BY <1>1, <1>3, <2>1, <3>1, <3>2
  <2>3. QED
    BY <2>1, <2>2 DEF Good, Rooted
<1>7. Ruled(g, R \cup Q)
  BY DEF Good, Ruled
<1>8. Grounded(g)
  <2> SUFFICES ASSUME NEW S \in SUBSET DOMAIN g, S # {}
               PROVE  \E x \in S : \A y \in S : ~Leads(g, y, x)
    BY DEF Grounded
  <2>0. \A x \in DOMAIN g, y \in DOMAIN g :
          Leads(g, y, x) => (x \in DOMAIN h <=> y \in DOMAIN h)
    BY <1>1, <1>3 DEF Leads
  <2>1. CASE S \cap DOMAIN h # {}
    <3>1. PICK x \in S \cap DOMAIN h : \A y \in S \cap DOMAIN h : ~Leads(h, y, x)
      BY <2>1 DEF Good, Grounded
    <3>2. ASSUME NEW y \in S, Leads(g, y, x) PROVE FALSE
      <4>1. y \in DOMAIN h
        BY <2>0, <3>1, <3>2
      <4>2. Leads(h, y, x)
        BY <3>2, <4>1 DEF Leads
      <4>3. QED
        BY <3>1, <4>1, <4>2
    <3>3. QED
      BY <3>1, <3>2
  <2>2. CASE S \cap DOMAIN h = {}
    <3>1. S \in SUBSET DOMAIN k
      BY <2>2
    <3>2. PICK x \in S : \A y \in S : ~Leads(k, y, x)
      BY <3>1 DEF Good, Grounded
    <3>3. QED
      BY <3>1, <3>2 DEF Leads
  <2>3. QED
    BY <2>1, <2>2
<1>9. QED
  BY <1>2, <1>4, <1>5, <1>6, <1>7, <1>8 DEF Good

-----------------------------------------------------------------------------
(* The operations of cJSON.cc as such steps.                               *)

\* The items that are left have their names, and the same right to them.
SameNames(h, g) ==
  /\ DOMAIN g \subseteq DOMAIN h
  /\ \A x \in DOMAIN g : /\ g[x].string = h[x].string /\ g[x].copied = h[x].copied
                         /\ g[x].stringIsConst = h[x].stringIsConst

\* g is h with i behind the last member of a.
Appended(h, g, a, i) ==
  \E b : /\ Inserted(h, g, a, b, Nil, i)
         /\ IF h[a].child = Nil THEN b = Nil
            ELSE b # Nil /\ h[b].next = Nil /\ \E n \in Nat : b = GetArrayItem(h, a, n)

\* cJSON_AddItemToArray puts something held behind the last member.
LEMMA GoodAddToArray ==
  ASSUME NEW h, NEW R, Good(h, R), NEW a \in DOMAIN h, ~h[a].isReference,
         NEW i \in R, a \notin Freed(h, i)
  PROVE  /\ Good(AddToArray(h, a, i), R \ {i})
         /\ SameNames(h, AddToArray(h, a, i)) /\ DOMAIN AddToArray(h, a, i) = DOMAIN h
         /\ Appended(h, AddToArray(h, a, i), a, i)
<1> DEFINE g == AddToArray(h, a, i)
<1>1. Nil \notin DOMAIN h /\ R \subseteq DOMAIN h /\ i \in Items /\ DOMAIN h \subseteq Items
  BY NilAssumption DEF Good, Typed, Rooted
<1>2. \A x \in DOMAIN h : h[x] \in Item
  BY DEF Good, Typed
<1>2a. \A x \in Freed(h, i) : x \in DOMAIN h
  BY <1>1, GoodPoints, FreedIs DEF Good
<1>2b. i \in Freed(h, i)
  BY <1>1, GoodPoints, FreedIs DEF Good
<1>3. CASE h[a].child = Nil
  <2>1. g = [h EXCEPT ![a].child = i]
    BY <1>3 DEF AddToArray
  <2>2. Typed(g) /\ Inserted(h, g, a, Nil, Nil, i)
    <3>1. DOMAIN g = DOMAIN h /\ \A x \in DOMAIN h : g[x] = IF x = a THEN [h[a] EXCEPT !.child = i] ELSE h[x]
      BY <2>1
    <3> HIDE DEF g
    <3>2. Typed(g)
      BY <1>1, <1>2, <3>1 DEF Typed, Item
    <3>3. h[i].next = Nil /\ h[i].prev = Nil
      BY DEF Good, Rooted
    <3>4. Inserted(h, g, a, Nil, Nil, i)
      BY <1>1, <1>2, <3>1, <3>3 DEF Inserted, Item
    <3>5. QED
      BY <3>2, <3>4
  <2>3. Between(h, a, Nil, Nil)
    BY <1>3 DEF Between
  <2>4. Good(g, R \ {i})
    <3> HIDE DEF g
    <3>1. Nil \notin Freed(h, i) /\ Nil \notin R
      BY <1>1, <1>2a
    <3>2. QED
      BY <2>2, <2>3, <3>1, GoodInsert
  <2>5. Appended(h, g, a, i)
    <3> HIDE DEF g
    <3>1. QED
      BY <1>3, <2>2 DEF Appended
  <2>6. SameNames(h, g) /\ DOMAIN g = DOMAIN h
    BY <1>2, <2>1 DEF Item, SameNames
  <2>7. QED
    BY <2>4, <2>5, <2>6
<1>4. CASE h[a].child # Nil
  <2> DEFINE last == CHOOSE x \in {GetArrayItem(h, a, w) : w \in Index(h)} \ {Nil} : h[x].next = Nil
  <2>1. g = SuffixObject(h, last, i)
    BY <1>4 DEF AddToArray
  <2>2. \E n \in Nat : last = GetArrayItem(h, a, n) /\ last # Nil /\ h[last].next = Nil
    <3>1. PICK n \in Index(h) : GetArrayItem(h, a, n) # Nil /\ h[GetArrayItem(h, a, n)].next = Nil
      BY <1>4, LastMember
    <3>2. \E x \in {GetArrayItem(h, a, w) : w \in Index(h)} \ {Nil} : h[x].next = Nil
      BY <3>1
    <3>3. last \in {GetArrayItem(h, a, w) : w \in Index(h)} \ {Nil} /\ h[last].next = Nil
      BY <3>2
    <3>4. \A w \in Index(h) : w \in Nat
      BY DEF Index
    <3> HIDE DEF last
    <3>5. QED
      BY <3>3, <3>4
  <2> HIDE DEF last
  <2>3. last \in DOMAIN h \ R /\ last \notin Freed(h, i)
    BY <2>2, MemberOf
  <2>4. last # i
    BY <1>2b, <2>3
  <2>5. /\ DOMAIN g = DOMAIN h
        /\ \A x \in DOMAIN h : g[x] = IF x = last THEN [h[x] EXCEPT !.next = i]
                                      ELSE IF x = i THEN [h[x] EXCEPT !.prev = last] ELSE h[x]
    BY <1>1, <2>1, <2>3, <2>4 DEF SuffixObject
  <2> HIDE DEF g
  <2>6. Typed(g)
    BY <1>1, <1>2, <2>3, <2>5 DEF Typed, Item
  <2>7. h[i].next = Nil /\ h[i].prev = Nil
    BY DEF Good, Rooted
  <2>8. Inserted(h, g, a, last, Nil, i)
    BY <1>1, <1>2, <2>3, <2>4, <2>5, <2>7 DEF Inserted, Item
  <2>9. Between(h, a, last, Nil)
    BY <2>2, <2>3 DEF Between
  <2>10. Good(g, R \ {i})
    BY <2>3, <2>6, <2>8, <2>9, GoodInsert
  <2>11. Appended(h, g, a, i)
    BY <1>4, <2>2, <2>8 DEF Appended
  <2>12. SameNames(h, g) /\ DOMAIN g = DOMAIN h
    BY <1>2, <2>5 DEF Item, SameNames
  <2>13. QED
    BY <2>10, <2>11, <2>12 DEF g
<1>5. QED
  BY <1>3, <1>4

\* An item with new links, and what it has.
WithLinks(r, next, prev, child) == [r EXCEPT !.next = next, !.prev = prev, !.child = child]
HasLinks(q, r, next, prev, child) ==
  /\ q \in Item /\ q.next = next /\ q.prev = prev /\ q.child = child
  /\ q.isReference = r.isReference /\ q.string = r.string
  /\ q.copied = r.copied /\ q.stringIsConst = r.stringIsConst

\* It has the new links, and the rest of its fields from before.
LEMMA LinksSet ==
  ASSUME NEW r \in Item, NEW next \in Items \cup {Nil}, NEW prev \in Items \cup {Nil},
         NEW child \in Items \cup {Nil}
  PROVE  HasLinks(WithLinks(r, next, prev, child), r, next, prev, child)
BY DEF Item, WithLinks, HasLinks

\* cJSON_InsertItemInArray puts something held before a member.
LEMMA GoodInsertBefore ==
  ASSUME NEW h, NEW R, Good(h, R), NEW a, Alone(h, a), NEW i \in R, a \notin Freed(h, i),
         NEW n \in Nat, NEW after, after = GetArrayItem(h, a, n), after # Nil
  PROVE  LET g == InsertBefore(h, a, after, i)
         IN  Good(g, R \ {i}) /\ SameNames(h, g) /\ Inserted(h, g, a, h[after].prev, after, i)
<1> DEFINE g == InsertBefore(h, a, after, i)
           b == h[after].prev
<1>1. Nil \notin DOMAIN h /\ R \subseteq DOMAIN h /\ i \in Items /\ DOMAIN h \subseteq Items
  BY NilAssumption DEF Good, Typed, Rooted
<1>2. \A x \in DOMAIN h : h[x] \in Item
  BY DEF Good, Typed
<1>3. /\ a \in DOMAIN h /\ ~h[a].isReference
      /\ h[a].child = Nil \/ \A x \in DOMAIN h \ {a} : h[x].child # h[a].child
  BY DEF Alone
<1>4. after \in DOMAIN h \ R /\ (b = Nil => after = h[a].child) /\ after \notin Freed(h, i)
  BY <1>3, MemberOf
<1>5. after = h[a].child => b = Nil
  BY <1>3, <1>4, <1>1 DEF Good, Linked
<1>6. b # Nil => b \in DOMAIN h /\ h[b].next = after
  BY <1>4 DEF Good, Linked
<1>7. b \notin Freed(h, i) /\ b \notin R
  <2>1. Freed(h, i) \subseteq DOMAIN h /\ Keeps(h, Freed(h, i))
    BY <1>1, GoodPoints, FreedIs DEF Good
  <2>2. b \notin Freed(h, i)
    BY <1>1, <1>4, <1>6, <2>1 DEF Keeps, Leads
  <2>3. b \notin R
    BY <1>1, <1>4, <1>6 DEF Good, Rooted
  <2>4. QED
    BY <2>2, <2>3
<1>8. Between(h, a, b, after)
  BY <1>1, <1>3, <1>4, <1>5, <1>6 DEF Between
<1>9. /\ DOMAIN g = DOMAIN h
      /\ \A x \in DOMAIN h : g[x] =
           [h[x] EXCEPT
              !.next  = IF x = i THEN after ELSE IF x = b /\ ~(after = h[a].child) THEN i ELSE h[x].next,
              !.prev  = IF x = i THEN b ELSE IF x = after THEN i ELSE h[x].prev,
              !.child = IF x = a /\ after = h[a].child THEN i ELSE h[x].child]
  BY <1>2 DEF InsertBefore, Item
<1>10. b \in Items \cup {Nil}
  BY <1>1, <1>6
<1>10a. ASSUME NEW x \in DOMAIN h
        PROVE  /\ g[x] \in Item /\ g[x].isReference = h[x].isReference
               /\ g[x].next = IF x = i THEN after ELSE IF x = b /\ ~(after = h[a].child) THEN i ELSE h[x].next
               /\ g[x].prev = IF x = i THEN b ELSE IF x = after THEN i ELSE h[x].prev
               /\ g[x].child = IF x = a /\ after = h[a].child THEN i ELSE h[x].child
               /\ g[x].string = h[x].string /\ g[x].copied = h[x].copied
               /\ g[x].stringIsConst = h[x].stringIsConst
  <2>1. h[x].next \in Items \cup {Nil} /\ h[x].prev \in Items \cup {Nil} /\ h[x].child \in Items \cup {Nil}
    BY <1>2 DEF Item
  <2> DEFINE next  == IF x = i THEN after ELSE IF x = b /\ ~(after = h[a].child) THEN i ELSE h[x].next
             prev  == IF x = i THEN b ELSE IF x = after THEN i ELSE h[x].prev
             child == IF x = a /\ after = h[a].child THEN i ELSE h[x].child
  <2>2. next \in Items \cup {Nil} /\ prev \in Items \cup {Nil} /\ child \in Items \cup {Nil}
    BY <1>1, <1>4, <1>10, <2>1
  <2>3. g[x] = WithLinks(h[x], next, prev, child) /\ h[x] \in Item
    BY <1>2, <1>9 DEF WithLinks
  <2> HIDE DEF g, next, prev, child
  <2>4. HasLinks(g[x], h[x], next, prev, child)
    BY <2>2, <2>3, LinksSet
  <2>5. QED
    BY <2>4 DEF HasLinks, next, prev, child
<1> HIDE DEF g, b
<1>11. Typed(g) /\ SameNames(h, g)
  BY <1>1, <1>9, <1>10a DEF Typed, SameNames
<1>12. Inserted(h, g, a, b, after, i)
  <2>1. b = Nil <=> after = h[a].child
    BY <1>4, <1>5
  <2>2. ASSUME NEW x \in DOMAIN h
        PROVE  /\ g[x].next = IF x = i THEN after ELSE IF x = b THEN i ELSE h[x].next
               /\ g[x].child = IF x = a /\ b = Nil THEN i ELSE h[x].child
    BY <1>1, <1>10a, <2>1
  <2>3. QED
    BY <1>9, <1>10a, <2>2 DEF Inserted
<1>13. Good(g, R \ {i})
  BY <1>7, <1>8, <1>11, <1>12, GoodInsert
<1>14. QED
  BY <1>11, <1>12, <1>13 DEF g, b

\* cJSON_DetachItemViaPointer takes out a member, which is held then.
LEMMA GoodDetachViaPointer ==
  ASSUME NEW h, NEW R, Good(h, R), NEW p, Alone(h, p),
         NEW n \in Nat, NEW i, i = GetArrayItem(h, p, n), i # Nil
  PROVE  /\ i \in DOMAIN h \ R
         /\ Good(DetachViaPointer(h, p, i), R \cup {i})
         /\ SameNames(h, DetachViaPointer(h, p, i))
         /\ Detached(h, DetachViaPointer(h, p, i), p, h[i].prev, h[i].next, i)
<1> DEFINE g == DetachViaPointer(h, p, i)
<1>1. Nil \notin DOMAIN h /\ DOMAIN h \subseteq Items
  BY NilAssumption DEF Good, Typed
<1>2. \A x \in DOMAIN h : h[x] \in Item
  BY DEF Good, Typed
<1>3. i \in DOMAIN h \ R /\ (h[i].prev = Nil => i = h[p].child)
  BY MemberOf DEF Alone
<1>4. /\ DOMAIN g = DOMAIN h
      /\ \A x \in DOMAIN h : g[x] =
           [h[x] EXCEPT !.next  = IF x = i THEN Nil ELSE IF x = h[i].prev THEN h[i].next ELSE h[x].next,
                        !.prev  = IF x = i THEN Nil ELSE IF x = h[i].next THEN h[i].prev ELSE h[x].prev,
                        !.child = IF x = p /\ h[x].child = i THEN h[i].next ELSE h[x].child]
  BY <1>2 DEF DetachViaPointer, Item
<1> HIDE DEF g
<1>4a. ASSUME NEW x \in DOMAIN h
       PROVE  /\ g[x] \in Item /\ g[x].isReference = h[x].isReference
              /\ g[x].next = IF x = i THEN Nil ELSE IF x = h[i].prev THEN h[i].next ELSE h[x].next
              /\ g[x].prev = IF x = i THEN Nil ELSE IF x = h[i].next THEN h[i].prev ELSE h[x].prev
              /\ g[x].child = IF x = p /\ h[x].child = i THEN h[i].next ELSE h[x].child
              /\ g[x].string = h[x].string /\ g[x].copied = h[x].copied
              /\ g[x].stringIsConst = h[x].stringIsConst
  <2>1. /\ h[x].next \in Items \cup {Nil} /\ h[x].prev \in Items \cup {Nil} /\ h[x].child \in Items \cup {Nil}
        /\ h[i].next \in Items \cup {Nil} /\ h[i].prev \in Items \cup {Nil}
    BY <1>2, <1>3 DEF Item
  <2> DEFINE next  == IF x = i THEN Nil ELSE IF x = h[i].prev THEN h[i].next ELSE h[x].next
             prev  == IF x = i THEN Nil ELSE IF x = h[i].next THEN h[i].prev ELSE h[x].prev
             child == IF x = p /\ h[x].child = i THEN h[i].next ELSE h[x].child
  <2>2. next \in Items \cup {Nil} /\ prev \in Items \cup {Nil} /\ child \in Items \cup {Nil}
    BY <2>1
  <2>3. g[x] = WithLinks(h[x], next, prev, child) /\ h[x] \in Item
    BY <1>2, <1>4 DEF WithLinks
  <2> HIDE DEF next, prev, child
  <2>4. HasLinks(g[x], h[x], next, prev, child)
    BY <2>2, <2>3, LinksSet
  <2>5. QED
    BY <2>4 DEF HasLinks, next, prev, child
<1>5. Typed(g) /\ SameNames(h, g)
  BY <1>1, <1>4, <1>4a DEF Typed, SameNames
<1>6. Detached(h, g, p, h[i].prev, h[i].next, i)
  BY <1>4, <1>4a DEF Detached
<1>7. Good(g, R \cup {i})
  BY <1>3, <1>5, <1>6, GoodDetach
<1>8. QED
  BY <1>3, <1>5, <1>6, <1>7 DEF g

\* g is h with new in the place of i in the list of p.
Relinked(h, g, p, i, new) ==
  /\ DOMAIN g = DOMAIN h
  /\ \A x \in DOMAIN h :
       /\ g[x].isReference = h[x].isReference
       /\ g[x].next = IF x = new THEN h[i].next ELSE IF x = i THEN Nil
                      ELSE IF x = h[i].prev THEN new ELSE h[x].next
       /\ g[x].child = IF x = p /\ h[x].child = i THEN new ELSE h[x].child

\* The new item is put before the old one, which is then taken out.
LEMMA GoodRelink ==
  ASSUME NEW h, NEW R, Good(h, R), NEW p, Alone(h, p), NEW new \in R, p \notin Freed(h, new),
         NEW n \in Nat, NEW i, i = GetArrayItem(h, p, n), i # Nil
  PROVE  /\ i \in DOMAIN h \ R
         /\ Good(Relink(h, p, i, new), (R \ {new}) \cup {i})
         /\ SameNames(h, Relink(h, p, i, new)) /\ Relinked(h, Relink(h, p, i, new), p, i, new)
<1> DEFINE g == Relink(h, p, i, new)
           m == InsertBefore(h, p, i, new)
           b == h[i].prev
           c == h[i].next
<1>1. /\ Nil \notin DOMAIN h /\ R \subseteq DOMAIN h /\ DOMAIN h \subseteq Items
      /\ p \in DOMAIN h /\ ~h[p].isReference
  BY NilAssumption DEF Good, Typed, Rooted, Alone
<1>2. \A x \in DOMAIN h : h[x] \in Item
  BY DEF Good, Typed
<1>3. i \in DOMAIN h \ R /\ (b = Nil => i = h[p].child)
  BY MemberOf DEF Alone
<1>4. Good(m, R \ {new}) /\ Inserted(h, m, p, b, i, new)
  BY GoodInsertBefore
<1>5. /\ DOMAIN g = DOMAIN h
      /\ \A x \in DOMAIN h : g[x] =
           [h[x] EXCEPT
              !.next  = IF x = new THEN c ELSE IF x = i THEN Nil ELSE IF x = b THEN new ELSE h[x].next,
              !.prev  = IF x = new THEN b ELSE IF x = i THEN Nil ELSE IF x = c THEN new ELSE h[x].prev,
              !.child = IF x = p /\ h[x].child = i THEN new ELSE h[x].child]
  BY <1>2 DEF Relink, Item
<1> HIDE DEF g, m
<1>7. ASSUME NEW x \in DOMAIN h
      PROVE  /\ g[x] \in Item /\ g[x].isReference = h[x].isReference
             /\ g[x].next = IF x = new THEN c ELSE IF x = i THEN Nil ELSE IF x = b THEN new ELSE h[x].next
             /\ g[x].prev = IF x = new THEN b ELSE IF x = i THEN Nil ELSE IF x = c THEN new ELSE h[x].prev
             /\ g[x].child = IF x = p /\ h[x].child = i THEN new ELSE h[x].child
             /\ g[x].string = h[x].string /\ g[x].copied = h[x].copied
             /\ g[x].stringIsConst = h[x].stringIsConst
  <2>1. /\ h[x].next \in Items \cup {Nil} /\ h[x].prev \in Items \cup {Nil} /\ h[x].child \in Items \cup {Nil}
        /\ c \in Items \cup {Nil} /\ b \in Items \cup {Nil} /\ new \in Items
    BY <1>1, <1>2, <1>3 DEF Item
  <2> DEFINE next  == IF x = new THEN c ELSE IF x = i THEN Nil ELSE IF x = b THEN new ELSE h[x].next
             prev  == IF x = new THEN b ELSE IF x = i THEN Nil ELSE IF x = c THEN new ELSE h[x].prev
             child == IF x = p /\ h[x].child = i THEN new ELSE h[x].child
  <2>2. next \in Items \cup {Nil} /\ prev \in Items \cup {Nil} /\ child \in Items \cup {Nil}
    BY <2>1
  <2>3. g[x] = WithLinks(h[x], next, prev, child) /\ h[x] \in Item
    BY <1>2, <1>5 DEF WithLinks
  <2> HIDE DEF next, prev, child
  <2>4. HasLinks(g[x], h[x], next, prev, child)
    BY <2>2, <2>3, LinksSet
  <2>5. QED
    BY <2>4 DEF HasLinks, next, prev, child
<1>6. Typed(g) /\ SameNames(h, g)
  BY <1>1, <1>5, <1>7 DEF Typed, SameNames
<1>8. /\ DOMAIN m = DOMAIN h
      /\ \A x \in DOMAIN h :
           /\ m[x].isReference = h[x].isReference
           /\ m[x].next = IF x = new THEN i ELSE IF x = b THEN new ELSE h[x].next
           /\ m[x].prev = IF x = new THEN b ELSE IF x = i THEN new ELSE h[x].prev
           /\ m[x].child = IF x = p /\ b = Nil THEN new ELSE h[x].child
  BY <1>4 DEF Inserted
<1>9. /\ new \in DOMAIN h /\ new # i /\ new # Nil
      /\ h[new].next = Nil /\ h[new].prev = Nil
      /\ \A x \in DOMAIN h : h[x].child # new /\ h[x].next # new /\ h[x].prev # new
  BY <1>1, <1>3 DEF Good, Rooted, Linked
<1>10. /\ b # Nil => b \in DOMAIN h /\ h[b].next = i
       /\ c # Nil => c \in DOMAIN h /\ h[c].prev = i
       /\ b # new /\ c # new
       /\ h[p].child = i => b = Nil
  BY <1>1, <1>3, <1>9 DEF Good, Linked
<1>11. b # i
  <2>a. Grounded(h)
    BY DEF Good
  <2>b. {i} \in SUBSET DOMAIN h /\ {i} # {}
    BY <1>3
  <2>1. PICK x \in {i} : \A y \in {i} : ~Leads(h, y, x)
    BY <2>a, <2>b, Zenon DEF Grounded
  <2>2. QED
    BY <1>1, <1>3, <1>10, <2>1 DEF Leads
<1>12. m[i].prev = new /\ m[i].next = c
  BY <1>3, <1>8, <1>9, <1>11
<1>13. Detached(m, g, p, m[i].prev, m[i].next, i)
  <2>1. ASSUME NEW x \in DOMAIN h
        PROVE  /\ g[x].isReference = m[x].isReference
               /\ g[x].next = IF x = i THEN Nil ELSE IF x = new THEN c ELSE m[x].next
               /\ g[x].prev = IF x = i THEN Nil ELSE IF x = c THEN new ELSE m[x].prev
               /\ g[x].child = IF x = p /\ m[x].child = i THEN c ELSE m[x].child
    <3>1. g[x].isReference = m[x].isReference
      BY <1>7, <1>8
    <3>2. g[x].next = IF x = i THEN Nil ELSE IF x = new THEN c ELSE m[x].next
      BY <1>7, <1>8, <1>9, <1>11
    <3>3. g[x].prev = IF x = i THEN Nil ELSE IF x = c THEN new ELSE m[x].prev
      BY <1>7, <1>8, <1>9, <1>10
    <3>4. g[x].child = IF x = p /\ m[x].child = i THEN c ELSE m[x].child
      BY <1>3, <1>7, <1>8, <1>9, <1>10
    <3>5. QED
      BY <3>1, <3>2, <3>3, <3>4
  <2> HIDE DEF b, c
  <2>d. DOMAIN g = DOMAIN m
    BY <1>5, <1>8, Zenon
  <2>2. Detached(m, g, p, new, c, i)
    BY <1>8, <2>1, <2>d, Zenon DEF Detached
  <2> HIDE DEF c
  <2>3. QED
    BY <1>12, <2>2
<1>14. Alone(m, p)
  <2>1. p \in DOMAIN m /\ ~m[p].isReference
    BY <1>1, <1>8
  <2>2. CASE b = Nil
    BY <1>1, <1>8, <1>9, <2>1, <2>2 DEF Alone
  <2>3. CASE b # Nil
    BY <1>1, <1>8, <2>1, <2>3 DEF Alone
  <2>4. QED
    BY <2>2, <2>3
<1>15. m[i].prev = Nil => m[p].child = i
  BY <1>9, <1>12
<1>16. Good(g, (R \ {new}) \cup {i})
  <2>1. i \in DOMAIN m \ (R \ {new})
    BY <1>3, <1>8
  <2>2. QED
    BY <1>4, <1>6, <1>13, <1>14, <1>15, <2>1, GoodDetach
<1>17. Relinked(h, g, p, i, new)
  BY <1>5, <1>7 DEF Relinked
<1>18. QED
  BY <1>3, <1>6, <1>16, <1>17 DEF g

-----------------------------------------------------------------------------
(* New trees: what cJSON_CreateIntArray and its like and cJSON_Duplicate make. *)

\* The items at[0] ... at[count] of an array with count members.
ArrayAt(k, count, at) ==
  /\ DOMAIN k = {at[n] : n \in 0 .. count}
  /\ \A n \in 0 .. count :
       /\ ~k[at[n]].isReference /\ k[at[n]].string = NoName
       /\ k[at[n]].next = IF n = 0 \/ n = count THEN Nil ELSE at[n + 1]
       /\ k[at[n]].prev = IF n = 0 \/ n = 1 THEN Nil ELSE at[n - 1]
       /\ k[at[n]].child = IF n = 0 /\ count # 0 THEN at[1] ELSE Nil

\* An array of numbers is one good tree.
LEMMA GoodArray ==
  ASSUME NEW count \in Nat, NEW at, at \in Injections(0 .. count, Items),
         NEW k, Typed(k), ArrayAt(k, count, at)
  PROVE  Good(k, {at[0]})
<1> DEFINE D == {at[n] : n \in 0 .. count}
<1>1. /\ \A m, n \in 0 .. count : at[m] = at[n] => m = n
      /\ \A n \in 0 .. count : at[n] # Nil
  BY NilAssumption DEF Injections
<1>2. /\ DOMAIN k = D
      /\ \A n \in 0 .. count :
           /\ ~k[at[n]].isReference
           /\ k[at[n]].next = IF n = 0 \/ n = count THEN Nil ELSE at[n + 1]
           /\ k[at[n]].prev = IF n = 0 \/ n = 1 THEN Nil ELSE at[n - 1]
           /\ k[at[n]].child = IF n = 0 /\ count # 0 THEN at[1] ELSE Nil
  BY DEF ArrayAt
<1>3. /\ 0 \in 0 .. count
      /\ count # 0 => 1 \in 0 .. count
      /\ \A n \in 0 .. count : n # count => n + 1 \in 0 .. count
      /\ \A n \in 0 .. count : n # 0 => n - 1 \in 0 .. count
  OBVIOUS
<1>d. \A n \in 0 .. count : at[n] \in D
  OBVIOUS
<1>e. \A x \in D : \E n \in 0 .. count : x = at[n]
  OBVIOUS
<1> HIDE DEF D
<1>4. Linked(k)
  <2> SUFFICES ASSUME NEW n \in 0 .. count
               PROVE  LET x == at[n] IN
                      /\ k[x].next # Nil => k[x].next \in D /\ k[k[x].next].prev = x
                      /\ k[x].prev # Nil => k[x].prev \in D /\ k[k[x].prev].next = x
                      /\ k[x].child # Nil => k[x].child \in D /\ k[k[x].child].prev = Nil
    <3> DEFINE F(x) == /\ k[x].next # Nil => k[x].next \in D /\ k[k[x].next].prev = x
                       /\ k[x].prev # Nil => k[x].prev \in D /\ k[k[x].prev].next = x
                       /\ k[x].child # Nil => k[x].child \in D /\ k[k[x].child].prev = Nil
    <3>1. ASSUME \A n \in 0 .. count : F(at[n])
          PROVE  \A x \in D : F(x)
      <4> HIDE DEF F
      <4>1. QED
        BY <1>e, <3>1, Zenon
    <3>2. (\A x \in D : F(x)) => Linked(k)
      BY <1>2 DEF Linked
    <3>3. QED
      BY <3>1, <3>2, Zenon
  <2>1. CASE n = 0
    <3>1. k[at[n]].next = Nil /\ k[at[n]].prev = Nil
      BY <1>2, <2>1
    <3>2. count = 0 => k[at[n]].child = Nil
      BY <1>2, <2>1
    <3>3. count # 0 => k[at[n]].child = at[1] /\ at[1] \in D /\ k[at[1]].prev = Nil
      BY <1>2, <1>3, <1>d, <2>1
    <3>4. QED
      BY <3>1, <3>2, <3>3, Zenon
  <2>2. CASE n # 0
    <3>1. k[at[n]].child = Nil
      BY <1>2, <2>2
    <3>2. n # count => k[at[n]].next = at[n + 1] /\ at[n + 1] \in D /\ k[at[n + 1]].prev = at[n]
      <4> SUFFICES ASSUME n # count
                   PROVE  k[at[n]].next = at[n + 1] /\ at[n + 1] \in D /\ k[at[n + 1]].prev = at[n]
        OBVIOUS
      <4>1. n + 1 \in 0 .. count /\ n + 1 # 0 /\ n + 1 # 1 /\ n + 1 - 1 = n
        BY <2>2
      <4>2. k[at[n]].next = at[n + 1]
        BY <1>2, <2>2
      <4>3. k[at[n + 1]].prev = at[n + 1 - 1]
        BY <1>2, <4>1
      <4>4. QED
        BY <1>d, <4>1, <4>2, <4>3
    <3>3. n # 1 => k[at[n]].prev = at[n - 1] /\ at[n - 1] \in D /\ k[at[n - 1]].next = at[n]
      <4> SUFFICES ASSUME n # 1
                   PROVE  k[at[n]].prev = at[n - 1] /\ at[n - 1] \in D /\ k[at[n - 1]].next = at[n]
        OBVIOUS
      <4>1. n - 1 \in 0 .. count /\ n - 1 # 0 /\ n - 1 # count /\ n - 1 + 1 = n
        BY <2>2
      <4>2. k[at[n]].prev = at[n - 1]
        BY <1>2, <2>2
      <4>3. k[at[n - 1]].next = at[n - 1 + 1]
        BY <1>2, <4>1
      <4>4. QED
        BY <1>d, <4>1, <4>2, <4>3
    <3>4. /\ n = count => k[at[n]].next = Nil
          /\ n = 1 => k[at[n]].prev = Nil
      BY <1>2
    <3>5. QED
      BY <3>1, <3>2, <3>3, <3>4
  <2>3. QED
    BY <2>1, <2>2
<1>5. Single(k)
  <2>1. ASSUME NEW m \in 0 .. count, k[at[m]].child # Nil PROVE m = 0
    BY <1>2, <2>1
  <2>2. \A x \in D : k[x].child # Nil => x = at[0]
    BY <1>e, <2>1, Zenon
  <2>3. QED
    BY <1>2, <2>2, Zenon DEF Single
<1>6. Rooted(k, {at[0]})
  <2>1. \A n \in 0 .. count : k[at[n]].child # at[0]
    BY <1>1, <1>2, <1>3
  <2>2. \A x \in D : k[x].child # at[0]
    BY <1>e, <2>1, Zenon
  <2>3. k[at[0]].next = Nil /\ k[at[0]].prev = Nil /\ at[0] \in D
    BY <1>2, <1>3, <1>d
  <2>4. QED
    BY <1>2, <2>2, <2>3 DEF Rooted
<1>7. Ruled(k, {at[0]})
  <2> SUFFICES ASSUME NEW x \in D \ {at[0]}, k[x].prev = Nil
               PROVE  \E y \in D : ~k[y].isReference /\ k[y].child = x
    BY <1>2 DEF Ruled
  <2>0. PICK n \in 0 .. count : x = at[n]
    BY <1>e
  <2>1. n = 1
    <3>1. n # 0 /\ k[at[n]].prev = Nil
      BY <2>0
    <3>2. n # 1 => k[at[n]].prev = at[n - 1]
      BY <1>2, <3>1
    <3>3. n # 1 => at[n - 1] # Nil
      BY <1>1, <1>3, <3>1
    <3>4. QED
      BY <3>1, <3>2, <3>3
  <2>2. at[0] \in D /\ ~k[at[0]].isReference /\ k[at[0]].child = x
    <3>1. count # 0
      BY <2>1
    <3>2. QED
      BY <1>2, <1>3, <1>d, <2>0, <2>1, <3>1
  <2>3. QED
    BY <2>2
<1>8. \A m, n \in 0 .. count : Leads(k, at[m], at[n]) => m < n
  <2> SUFFICES ASSUME NEW m \in 0 .. count, NEW n \in 0 .. count, Leads(k, at[m], at[n])
               PROVE  m < n
    OBVIOUS
  <2>1. CASE m = 0
    <3>1. at[n] = at[1] /\ count # 0
      BY <1>1, <1>2, <2>1 DEF Leads
    <3>2. n = 1
      BY <1>1, <1>3, <3>1
    <3>3. QED
      BY <2>1, <3>2
  <2>2. CASE m # 0
    <3>1. m # count /\ at[n] = at[m + 1]
      BY <1>1, <1>2, <2>2 DEF Leads
    <3>2. n = m + 1
      BY <1>1, <1>3, <3>1
    <3>3. QED
      BY <3>2
  <2>3. QED
    BY <2>1, <2>2
<1>9. Grounded(k)
  <2> SUFFICES ASSUME NEW S \in SUBSET D, S # {}
               PROVE  \E x \in S : \A y \in S : ~Leads(k, y, x)
    BY <1>2 DEF Grounded
  <2> DEFINE M == {n \in 0 .. count : at[n] \in S}
  <2>1. M \subseteq Nat /\ M # {}
    BY <1>e
  <2>2. PICK n \in M : \A m \in M : n <= m
    BY <2>1, LeastNumber
  <2>3. ASSUME NEW m \in M PROVE ~Leads(k, at[m], at[n])
    <3>1. n <= m /\ m \in 0 .. count /\ n \in 0 .. count
      BY <2>2
    <3>2. QED
      BY <1>8, <3>1
  <2>4. ASSUME NEW y \in S PROVE ~Leads(k, y, at[n])
    <3>1. PICK m \in 0 .. count : y = at[m]
      BY <1>e
    <3>2. QED
      BY <2>3, <3>1
  <2>5. QED
    BY <2>2, <2>4
<1>10. QED
  BY <1>4, <1>5, <1>6, <1>7, <1>9 DEF Good

\* Ways down, as sequences that are not empty, and their last step.
Ext(s, x) == Append(s, x)
Ways(D) == {p \in Seq(D) : Len(p) # 0}

\* A way is its front and its last step, and grows by one step at a time.
LEMMA WayParts ==
  ASSUME NEW D
  PROVE  /\ \A p \in Ways(D) : Front(p) \in Seq(D) /\ Last(p) \in D /\ p = Ext(Front(p), Last(p))
         /\ \A s \in Seq(D), x \in D :
              /\ Ext(s, x) \in Ways(D) /\ Front(Ext(s, x)) = s /\ Last(Ext(s, x)) = x
              /\ Len(Ext(s, x)) = Len(s) + 1
         /\ \A s, t, x, y : s \in Seq(D) /\ t \in Ways(D) /\ Ext(s, x) = t => x \in D
<1>1. ASSUME NEW p \in Ways(D)
      PROVE  Front(p) \in Seq(D) /\ Last(p) \in D /\ p = Ext(Front(p), Last(p))
  <2>1. p \in Seq(D) /\ Len(p) \in Nat /\ Len(p) # 0
    BY DEF Ways
  <2>2. Len(p) \in 1 .. Len(p) /\ Len(p) - 1 \in 0 .. Len(p)
    BY <2>1
  <2>3. Front(p) \in Seq(D) /\ Len(Front(p)) = Len(p) - 1 /\ \A n \in 1 .. Len(p) - 1 : Front(p)[n] = p[n]
    <3>1. 1 \in Int /\ Len(p) - 1 \in Int /\ \A n \in 1 .. Len(p) - 1 : p[n] \in D
      BY <2>1
    <3>2. /\ Front(p) \in Seq(D)
          /\ Len(Front(p)) = IF 1 <= Len(p) - 1 THEN Len(p) - 1 - 1 + 1 ELSE 0
          /\ \A n \in 1 .. Len(p) - 1 - 1 + 1 : Front(p)[n] = p[1 + n - 1]
      BY <3>1, SubSeqProperties DEF Front
    <3>3. Len(Front(p)) = Len(p) - 1
      <4>1. \A n \in Nat : n # 0 => (IF 1 <= n - 1 THEN n - 1 - 1 + 1 ELSE 0) = n - 1
        OBVIOUS
      <4>2. QED
        BY <2>1, <3>2, <4>1
    <3>4. ASSUME NEW n \in 1 .. Len(p) - 1 PROVE Front(p)[n] = p[n]
      <4>1. n \in 1 .. Len(p) - 1 - 1 + 1 /\ 1 + n - 1 = n
        BY <2>1
      <4>2. QED
        BY <3>2, <4>1
    <3>5. QED
      BY <3>2, <3>3, <3>4
  <2>4. Last(p) \in D
    BY <2>1, <2>2 DEF Last
  <2>5. p = Append(Front(p), Last(p))
    BY <2>1, <2>2, <2>3, <2>4 DEF Last
  <2>6. QED
    BY <2>3, <2>4, <2>5 DEF Ext
<1>2. ASSUME NEW s \in Seq(D), NEW x \in D
      PROVE  /\ Ext(s, x) \in Ways(D) /\ Front(Ext(s, x)) = s /\ Last(Ext(s, x)) = x
             /\ Len(Ext(s, x)) = Len(s) + 1
  <2>1. Append(s, x) \in Seq(D) /\ Len(Append(s, x)) = Len(s) + 1 /\ Len(s) \in Nat
    OBVIOUS
  <2>2. Last(Append(s, x)) = x
    BY <2>1 DEF Last
  <2>3. Front(Append(s, x)) = s
    <3>1. Front(Append(s, x)) = SubSeq(Append(s, x), 1, Len(s))
      BY <2>1 DEF Front
    <3>2. QED
      BY <2>1, <3>1
  <2>4. QED
    BY <2>1, <2>2, <2>3 DEF Ext, Ways
<1>3. ASSUME NEW s \in Seq(D), NEW t \in Ways(D), NEW x, Ext(s, x) = t PROVE x \in D
  <2>1. t = Append(s, x) /\ t \in Seq(D) /\ Len(s) \in Nat
    BY <1>3 DEF Ext, Ways
  <2>2. Len(t) = Len(s) + 1 /\ t[Len(s) + 1] = x
    BY <2>1
  <2>3. Len(s) + 1 \in 1 .. Len(t)
    BY <2>1, <2>2
  <2>4. QED
    BY <2>1, <2>2, <2>3
<1>4. QED
  BY <1>1, <1>2, <1>3

\* The ways down from an item: to the first member of what is there, and on to the
\* next one of a list.
BelowIt(h, p)  == IF h[Last(p)].child = Nil THEN {} ELSE {Ext(p, h[Last(p)].child)}
BehindIt(h, p) == IF Len(p) = 1 \/ h[Last(p)].next = Nil THEN {}
                  ELSE {Ext(Front(p), h[Last(p)].next)}
Further(h, V)  == V \cup UNION {BelowIt(h, p) \cup BehindIt(h, p) : p \in V}
IsSearch(V, h, i) == V = [n \in Nat |-> IF n = 0 THEN {<<i>>} ELSE Further(h, V[n - 1])]

\* P holds ways from i, each of which goes on from another one of them.
WaysFrom(P, h, i) ==
  /\ P \subseteq Ways(DOMAIN h) /\ <<i>> \in P
  /\ \A p \in P : p # <<i>> => Len(p) # 1 /\ \E q \in P : p \in BelowIt(h, q) \cup BehindIt(h, q)

\* One round of the search finds ways that go on from the ways found before.
LEMMA FurtherWays ==
  ASSUME NEW h, Points(h), NEW i \in DOMAIN h, NEW P, WaysFrom(P, h, i)
  PROVE  WaysFrom(Further(h, P), h, i)
<1> DEFINE D == DOMAIN h
<1>1. ASSUME NEW q \in P, NEW p \in BelowIt(h, q) \cup BehindIt(h, q)
      PROVE  p \in Ways(D) /\ Len(p) # 1
  <2>1. q \in Ways(D) /\ q \in Seq(D) /\ Len(q) \in Nat /\ Len(q) # 0
    BY DEF WaysFrom, Ways
  <2>2. Last(q) \in D /\ Front(q) \in Seq(D) /\ q = Ext(Front(q), Last(q)) /\ Len(Front(q)) \in Nat
    BY <2>1, WayParts
  <2>3. Len(q) = Len(Front(q)) + 1
    BY <2>2, WayParts
  <2>4. CASE p \in BelowIt(h, q)
    <3>1. h[Last(q)].child \in D /\ p = Ext(q, h[Last(q)].child)
      BY <2>2, <2>4 DEF BelowIt, Points
    <3>2. p \in Ways(D) /\ Len(p) = Len(q) + 1
      BY <2>1, <3>1, WayParts
    <3>3. QED
      BY <2>1, <3>2
  <2>5. CASE p \in BehindIt(h, q)
    <3>1. h[Last(q)].next \in D /\ p = Ext(Front(q), h[Last(q)].next) /\ Len(q) # 1
      BY <2>2, <2>5 DEF BehindIt, Points
    <3>2. p \in Ways(D) /\ Len(p) = Len(Front(q)) + 1
      BY <2>2, <3>1, WayParts
    <3>3. QED
      BY <2>3, <3>1, <3>2
  <2>6. QED
    BY <2>4, <2>5
<1>2. P \subseteq Further(h, P)
  BY DEF Further
<1>3. \A p \in Further(h, P) : p \in P \/ \E q \in P : p \in BelowIt(h, q) \cup BehindIt(h, q)
  BY DEF Further
<1>4. QED
  BY <1>1, <1>2, <1>3 DEF WaysFrom

\* The places that cJSON_Duplicate copies are such ways.
LEMMA PlacesAre ==
  ASSUME Points(heap), NEW i \in DOMAIN heap, NEW recurse
  PROVE  WaysFrom(Places(i, recurse), heap, i)
<1> DEFINE D == DOMAIN heap
           X == {P \in SUBSET Ways(D) : WaysFrom(P, heap, i)}
           T == [P \in X |-> Further(heap, P)]
           V == CHOOSE W : IsSearch(W, heap, i)
<1>1. <<i>> \in Seq(D) /\ Len(<<i>>) = 1
  OBVIOUS
<1>2. {<<i>>} \in X
  <2>1. <<i>> \in Ways(D)
    BY <1>1 DEF Ways
  <2>2. WaysFrom({<<i>>}, heap, i)
    <3>1. \A p \in {<<i>>} : p = <<i>>
      OBVIOUS
    <3>2. <<i>> \in {<<i>>} /\ {<<i>>} \subseteq Ways(D)
      BY <2>1
    <3>3. QED
      BY <3>1, <3>2 DEF WaysFrom
  <2>3. QED
    BY <2>1, <2>2
<1>3. ASSUME NEW P \in X PROVE Further(heap, P) \in X
  <2>1. WaysFrom(Further(heap, P), heap, i)
    BY FurtherWays
  <2>2. QED
    BY <2>1 DEF WaysFrom
<1>4. T \in [X -> X] /\ \A P \in X : T[P] = Further(heap, P)
  BY <1>3
<1> HIDE DEF T, X, V
<1>5. PICK f : f \in [Nat -> X] /\ f[0] = {<<i>>} /\ \A n \in Nat : f[n + 1] = T[f[n]]
  <2>1. \E f : Orbit(f, X, {<<i>>}, T)
    BY <1>2, <1>4, Repetition
  <2>2. QED
    BY <2>1 DEF Orbit
<1>6. IsSearch(f, heap, i)
  <2>1. ASSUME NEW n \in Nat PROVE f[n] = IF n = 0 THEN {<<i>>} ELSE Further(heap, f[n - 1])
    <3>1. CASE n = 0
      BY <1>5, <3>1
    <3>2. CASE n # 0
      <4>1. n - 1 \in Nat /\ n - 1 + 1 = n
        BY <3>2
      <4>2. f[n - 1] \in X /\ f[n] = T[f[n - 1]]
        BY <1>5, <4>1
      <4>3. QED
        BY <1>4, <3>2, <4>2
    <3>3. QED
      BY <3>1, <3>2
  <2>2. QED
    BY <1>5, <2>1 DEF IsSearch
<1>7. IsSearch(V, heap, i)
  BY <1>6 DEF V
<1>8. Places(i, recurse) = IF recurse THEN V[Cardinality(Items)] ELSE {<<i>>}
  BY DEF Places, IsSearch, Further, BelowIt, BehindIt, Ext, V
<1>9. \A n \in Nat : V[n] \in X
  <2> DEFINE S == {n \in Nat : V[n] \in X}
  <2>0. \A n \in Nat : V[n] = IF n = 0 THEN {<<i>>} ELSE Further(heap, V[n - 1])
    BY <1>7 DEF IsSearch
  <2>1. 0 \in S
    BY <1>2, <2>0
  <2>2. ASSUME NEW n \in Nat, n \in S PROVE n + 1 \in S
    <3>1. n + 1 \in Nat /\ n + 1 # 0 /\ n + 1 - 1 = n
      OBVIOUS
    <3>2. V[n + 1] = Further(heap, V[n])
      BY <2>0, <3>1
    <3>3. QED
      BY <1>3, <2>2, <3>1, <3>2
  <2> HIDE DEF S
  <2>3. \A n \in Nat : n \in S
    BY <2>1, <2>2, SetInduction
  <2>4. QED
    BY <2>3 DEF S
<1>10. Cardinality(Items) \in Nat
  BY ItemsAssumption, FS_CardinalityType
<1>11. Places(i, recurse) \in X
  BY <1>2, <1>8, <1>9, <1>10
<1>12. QED
  BY <1>11 DEF X

\* The copies of the items at the places P, the one of place p at f[p].
CopyAt(f, P, p) == IF p \in P THEN f[p] ELSE Nil
CopiesOf(k, h, P, f) ==
  /\ DOMAIN k = {f[p] : p \in P}
  /\ \A p \in P : LET x == h[Last(p)] IN
       /\ ~k[f[p]].isReference
       /\ k[f[p]].child = CopyAt(f, P, Ext(p, x.child))
       /\ k[f[p]].next = CopyAt(f, P, Ext(Front(p), x.next))
       /\ k[f[p]].prev = CopyAt(f, P, Ext(Front(p), x.prev))

\* The copies are one good tree, although their originals may share lists: of the
\* shortest ways in a set of copies, the first along its list is led to by none of them.
LEMMA GoodCopies ==
  ASSUME NEW h, NEW R, Good(h, R), NEW i \in DOMAIN h, NEW P, WaysFrom(P, h, i),
         NEW f, f \in Injections(P, Items), NEW k, Typed(k), CopiesOf(k, h, P, f)
  PROVE  Good(k, {f[<<i>>]})
<1> DEFINE D == DOMAIN h
           E == {f[p] : p \in P}
<1>1. /\ \A p, q \in P : f[p] = f[q] => p = q
      /\ \A p \in P : f[p] # Nil
  BY NilAssumption DEF Injections
<1>2. /\ DOMAIN k = E
      /\ \A p \in P :
           /\ ~k[f[p]].isReference
           /\ k[f[p]].child = CopyAt(f, P, Ext(p, h[Last(p)].child))
           /\ k[f[p]].next = CopyAt(f, P, Ext(Front(p), h[Last(p)].next))
           /\ k[f[p]].prev = CopyAt(f, P, Ext(Front(p), h[Last(p)].prev))
  BY DEF CopiesOf
<1>3. /\ \A q : CopyAt(f, P, q) # Nil => q \in P /\ CopyAt(f, P, q) = f[q]
      /\ \A q \in P : CopyAt(f, P, q) = f[q]
      /\ \A q, p : p \in P /\ CopyAt(f, P, q) = f[p] => q = p
  BY <1>1 DEF CopyAt
<1>4. /\ <<i>> \in P /\ P \subseteq Ways(D)
      /\ \A p \in P : p # <<i>> => Len(p) # 1 /\ \E q \in P : p \in BelowIt(h, q) \cup BehindIt(h, q)
  BY DEF WaysFrom
<1>5. \A p \in P : /\ Front(p) \in Seq(D) /\ Last(p) \in D /\ p = Ext(Front(p), Last(p))
                   /\ p \in Seq(D) /\ Len(p) \in Nat /\ Len(p) # 0
                   /\ Len(p) = Len(Front(p)) + 1 /\ Len(Front(p)) \in Nat
  <2> SUFFICES ASSUME NEW p \in P
               PROVE  /\ Front(p) \in Seq(D) /\ Last(p) \in D /\ p = Ext(Front(p), Last(p))
                      /\ p \in Seq(D) /\ Len(p) \in Nat /\ Len(p) # 0
                      /\ Len(p) = Len(Front(p)) + 1 /\ Len(Front(p)) \in Nat
    OBVIOUS
  <2>1. p \in Ways(D) /\ p \in Seq(D) /\ Len(p) \in Nat /\ Len(p) # 0
    BY <1>4 DEF Ways
  <2>2. Front(p) \in Seq(D) /\ Last(p) \in D /\ p = Ext(Front(p), Last(p))
    BY <2>1, WayParts
  <2>3. Len(Front(p)) \in Nat /\ Len(p) = Len(Front(p)) + 1
    BY <2>2, WayParts
  <2>4. QED
    BY <2>1, <2>2, <2>3
<1>6. \A s, x : s \in Seq(D) /\ Ext(s, x) \in P =>
         x \in D /\ Front(Ext(s, x)) = s /\ Last(Ext(s, x)) = x /\ Len(Ext(s, x)) = Len(s) + 1
  BY <1>4, WayParts
<1>7. Nil \notin D /\ <<i>> \in Seq(D) /\ Len(<<i>>) = 1
  BY NilAssumption DEF Good, Typed
<1> HIDE DEF D, E
<1>8. Linked(k)
  <2> SUFFICES ASSUME NEW p \in P
               PROVE  LET y == f[p] IN
                      /\ k[y].next # Nil => k[y].next \in E /\ k[k[y].next].prev = y
                      /\ k[y].prev # Nil => k[y].prev \in E /\ k[k[y].prev].next = y
                      /\ k[y].child # Nil => k[y].child \in E /\ k[k[y].child].prev = Nil
    BY <1>2 DEF Linked, E
  <2> DEFINE x == Last(p)
  <2>0. x \in D /\ Front(p) \in Seq(D) /\ p = Ext(Front(p), x) /\ p \in Seq(D)
    BY <1>5
  <2>1. ASSUME k[f[p]].next # Nil
        PROVE  k[f[p]].next \in E /\ k[k[f[p]].next].prev = f[p]
    <3> DEFINE q == Ext(Front(p), h[x].next)
    <3>1. q \in P /\ k[f[p]].next = f[q]
      BY <1>2, <1>3, <2>1
    <3>2. h[x].next \in D /\ Front(q) = Front(p) /\ Last(q) = h[x].next
      BY <1>6, <2>0, <3>1
    <3>3. h[h[x].next].prev = x
      BY <1>7, <2>0, <3>2 DEF Good, Linked, D
    <3>4. k[f[q]].prev = CopyAt(f, P, p)
      BY <1>2, <2>0, <3>1, <3>2, <3>3
    <3> HIDE DEF q
    <3>5. QED
      BY <1>3, <3>1, <3>4 DEF E
  <2>2. ASSUME k[f[p]].prev # Nil
        PROVE  k[f[p]].prev \in E /\ k[k[f[p]].prev].next = f[p]
    <3> DEFINE q == Ext(Front(p), h[x].prev)
    <3>1. q \in P /\ k[f[p]].prev = f[q]
      BY <1>2, <1>3, <2>2
    <3>2. h[x].prev \in D /\ Front(q) = Front(p) /\ Last(q) = h[x].prev
      BY <1>6, <2>0, <3>1
    <3>3. h[h[x].prev].next = x
      BY <1>7, <2>0, <3>2 DEF Good, Linked, D
    <3>4. k[f[q]].next = CopyAt(f, P, p)
      BY <1>2, <2>0, <3>1, <3>2, <3>3
    <3> HIDE DEF q
    <3>5. QED
      BY <1>3, <3>1, <3>4 DEF E
  <2>3. ASSUME k[f[p]].child # Nil
        PROVE  k[f[p]].child \in E /\ k[k[f[p]].child].prev = Nil
    <3> DEFINE q == Ext(p, h[x].child)
    <3>1. q \in P /\ k[f[p]].child = f[q]
      BY <1>2, <1>3, <2>3
    <3>2. h[x].child \in D /\ Front(q) = p /\ Last(q) = h[x].child
      BY <1>6, <2>0, <3>1
    <3>3. h[h[x].child].prev = Nil
      BY <1>7, <2>0, <3>2 DEF Good, Linked, D
    <3>4. k[f[q]].prev = CopyAt(f, P, Ext(p, Nil))
      BY <1>2, <2>0, <3>1, <3>2, <3>3
    <3>5. Ext(p, Nil) \notin P
      BY <1>6, <1>7, <2>0
    <3> HIDE DEF q
    <3>6. QED
      BY <1>3, <3>1, <3>4, <3>5 DEF E
  <2>4. QED
    BY <2>1, <2>2, <2>3
<1>9. Single(k)
  <2> SUFFICES ASSUME NEW p \in P, NEW q \in P, k[f[p]].child = k[f[q]].child, k[f[p]].child # Nil
               PROVE  f[p] = f[q]
    BY <1>2 DEF Single, E
  <2>1. Ext(p, h[Last(p)].child) \in P /\ k[f[p]].child = f[Ext(p, h[Last(p)].child)]
    BY <1>2, <1>3
  <2>2. Ext(q, h[Last(q)].child) \in P /\ k[f[q]].child = f[Ext(q, h[Last(q)].child)]
    BY <1>2, <1>3
  <2>3. Ext(p, h[Last(p)].child) = Ext(q, h[Last(q)].child)
    BY <1>1, <2>1, <2>2
  <2>4. Front(Ext(p, h[Last(p)].child)) = p /\ Front(Ext(q, h[Last(q)].child)) = q
    BY <1>5, <1>6, <2>1, <2>2
  <2>5. QED
    BY <2>3, <2>4
<1>10. /\ i \in D /\ <<i>> \in Ways(D) /\ <<>> \in Seq(D)
       /\ Front(<<i>>) = <<>> /\ Last(<<i>>) = i /\ <<i>> = Ext(<<>>, i)
  BY <1>4 DEF D, Front, Last, Ext
<1>11. Rooted(k, {f[<<i>>]})
  <2>1. ASSUME NEW x, Ext(<<>>, x) \in P PROVE x = i
    <3>1. Len(Ext(<<>>, x)) = Len(<<>>) + 1 /\ Last(Ext(<<>>, x)) = x
      BY <1>6, <1>10, <2>1
    <3>2. Len(Ext(<<>>, x)) = 1
      BY <3>1
    <3>3. Ext(<<>>, x) = <<i>>
      BY <1>4, <2>1, <3>2
    <3>4. QED
      BY <1>10, <3>1, <3>3
  <2>2. h[i].next # i /\ h[i].prev # i
    <3>0. {i} \in SUBSET DOMAIN h /\ {i} # {} /\ Grounded(h)
      BY DEF Good
    <3>1. PICK x \in {i} : \A y \in {i} : ~Leads(h, y, x)
      BY <3>0 DEF Grounded
    <3>2. h[i].next # i
      BY <3>1 DEF Leads
    <3>3. QED
      BY <1>7, <1>10, <3>2 DEF Good, Linked, D
  <2>3. k[f[<<i>>]].next = Nil /\ k[f[<<i>>]].prev = Nil
    <3>1. /\ k[f[<<i>>]].next = CopyAt(f, P, Ext(<<>>, h[i].next))
          /\ k[f[<<i>>]].prev = CopyAt(f, P, Ext(<<>>, h[i].prev))
      BY <1>2, <1>4, <1>10
    <3>2. QED
      BY <1>3, <2>1, <2>2, <3>1
  <2>4. ASSUME NEW p \in P PROVE k[f[p]].child # f[<<i>>]
    <3> SUFFICES ASSUME k[f[p]].child = f[<<i>>] PROVE FALSE
      OBVIOUS
    <3>1. Ext(p, h[Last(p)].child) = <<i>>
      BY <1>2, <1>3, <1>4
    <3>2. Len(<<i>>) = Len(p) + 1
      BY <1>4, <1>5, <1>6, <3>1
    <3>3. QED
      BY <1>5, <1>7, <3>2
  <2>5. f[<<i>>] \in E /\ \A y \in E : k[y].child # f[<<i>>]
    BY <1>4, <2>4 DEF E
  <2>6. QED
    BY <1>2, <2>3, <2>5 DEF Rooted
<1>12. Ruled(k, {f[<<i>>]})
  <2> SUFFICES ASSUME NEW y \in E, y # f[<<i>>], k[y].prev = Nil
               PROVE  \E z \in E : ~k[z].isReference /\ k[z].child = y
    BY <1>2 DEF Ruled
  <2>1. PICK p \in P : y = f[p]
    BY DEF E
  <2>2. PICK q \in P : p \in BelowIt(h, q) \cup BehindIt(h, q)
    BY <1>4, <2>1
  <2>3. CASE p \in BelowIt(h, q)
    <3>1. p = Ext(q, h[Last(q)].child)
      BY <2>3 DEF BelowIt
    <3>2. k[f[q]].child = f[p] /\ ~k[f[q]].isReference
      BY <1>2, <1>3, <3>1
    <3>3. QED
      BY <2>1, <3>2 DEF E
  <2>4. CASE p \in BehindIt(h, q)
    <3>1. p = Ext(Front(q), h[Last(q)].next)
      BY <2>4 DEF BehindIt
    <3>2. h[Last(q)].next \in D /\ Front(p) = Front(q) /\ Last(p) = h[Last(q)].next
      BY <1>5, <1>6, <3>1
    <3>3. h[Last(p)].prev = Last(q)
      BY <1>5, <1>7, <3>2 DEF Good, Linked, D
    <3>4. k[f[p]].prev = CopyAt(f, P, q)
      BY <1>2, <1>5, <3>2, <3>3
    <3>5. QED
      BY <1>1, <1>3, <2>1, <3>4
  <2>5. QED
    BY <2>2, <2>3, <2>4
<1>13. \A p, q \in P : Leads(k, f[q], f[p]) =>
         Len(p) = Len(q) + 1 \/ (Front(p) = Front(q) /\ Leads(h, Last(q), Last(p)))
  <2> SUFFICES ASSUME NEW p \in P, NEW q \in P, Leads(k, f[q], f[p])
               PROVE  Len(p) = Len(q) + 1 \/ (Front(p) = Front(q) /\ Leads(h, Last(q), Last(p)))
    OBVIOUS
  <2>1. CASE k[f[q]].next = f[p]
    <3>1. p = Ext(Front(q), h[Last(q)].next)
      BY <1>2, <1>3, <2>1
    <3>2. Front(p) = Front(q) /\ Last(p) = h[Last(q)].next
      BY <1>5, <1>6, <3>1
    <3>3. QED
      BY <3>2 DEF Leads
  <2>2. CASE k[f[q]].child = f[p]
    <3>1. p = Ext(q, h[Last(q)].child)
      BY <1>2, <1>3, <2>2
    <3>2. QED
      BY <1>5, <1>6, <3>1
  <2>3. QED
    BY <2>1, <2>2 DEF Leads
<1>14. Grounded(k)
  <2> SUFFICES ASSUME NEW S \in SUBSET E, S # {}
               PROVE  \E x \in S : \A y \in S : ~Leads(k, y, x)
    BY <1>2 DEF Grounded
  <2> DEFINE Q == {p \in P : f[p] \in S}
             M == {Len(p) : p \in Q}
  <2>1. Q # {} /\ Q \subseteq P /\ \A y \in S : \E p \in Q : y = f[p]
    BY DEF E
  <2>2. M \subseteq Nat /\ M # {}
    BY <1>5, <2>1
  <2>3. PICK m \in M : \A n \in M : m <= n
    BY <2>2, LeastNumber
  <2>4. PICK p \in Q : \A q \in Q : Len(p) <= Len(q)
    BY <2>3
  <2> DEFINE L == {Last(q) : q \in {r \in Q : Front(r) = Front(p)}}
  <2> HIDE DEF Q
  <2>5. L \in SUBSET D /\ L # {}
    BY <1>5, <2>1, <2>4
  <2>6. PICK x \in L : \A y \in L : ~Leads(h, y, x)
    BY <2>5 DEF Good, Grounded, D
  <2>7. PICK o \in Q : Front(o) = Front(p) /\ Last(o) = x
    BY <2>6
  <2>8. Len(o) = Len(p)
    BY <1>5, <2>1, <2>4, <2>7
  <2>9. ASSUME NEW q \in Q, Leads(k, f[q], f[o]) PROVE FALSE
    <3>1. CASE Len(o) = Len(q) + 1
      <4>1. Len(p) <= Len(q) /\ Len(p) \in Nat /\ Len(q) \in Nat
        BY <1>5, <2>1, <2>4
      <4>2. QED
        BY <2>8, <3>1, <4>1
    <3>2. CASE Front(o) = Front(q) /\ Leads(h, Last(q), Last(o))
      <4>1. Last(q) \in L
        BY <2>7, <3>2
      <4>2. QED
        BY <2>6, <2>7, <3>2, <4>1
    <3>3. QED
      BY <1>13, <2>1, <2>9, <3>1, <3>2
  <2>10. f[o] \in S
    BY <2>7 DEF Q
  <2>11. QED
    BY <2>1, <2>9, <2>10
<1>15. QED
  BY <1>8, <1>9, <1>11, <1>12, <1>14 DEF Good

-----------------------------------------------------------------------------
(* Names.                                                                  *)

\* The flag tells whose the name is, but on the items L.
Named(h, L) ==
  \A x \in DOMAIN h \ L : h[x].string # NoName => (h[x].copied <=> ~h[x].stringIsConst)

\* Names that stay what they were stay right.
LEMMA NamedSame ==
  ASSUME NEW h, NEW L, Named(h, L), NEW g, SameNames(h, g)
  PROVE  Named(g, L)
BY DEF Named, SameNames

\* In g the item i has a name of its own, and the others have theirs.
NamedAnew(h, g, i, name, copied, const) ==
  /\ DOMAIN g = DOMAIN h
  /\ g[i].string = name /\ g[i].copied = copied /\ g[i].stringIsConst = const
  /\ \A x \in DOMAIN h \ {i} : /\ g[x].string = h[x].string /\ g[x].copied = h[x].copied
                               /\ g[x].stringIsConst = h[x].stringIsConst

WithName(h, i, name, isCopy, const) ==
  [h EXCEPT ![i].string = name, ![i].copied = isCopy, ![i].stringIsConst = const]

\* g is h with another name for i, and as good.
Renamed(h, g, R, i, name, isCopy, const) ==
  /\ Good(g, R) /\ NamedAnew(h, g, i, name, isCopy, const)
  /\ SameLinks(h, g) /\ Freed(g, i) = Freed(h, i)

\* Giving an item a name changes no link.
LEMMA GoodName ==
  ASSUME NEW h, NEW R, Good(h, R), NEW i \in DOMAIN h, NEW name \in Names \cup {NoName},
         NEW isCopy \in BOOLEAN, NEW const \in BOOLEAN
  PROVE  Renamed(h, WithName(h, i, name, isCopy, const), R, i, name, isCopy, const)
<1> DEFINE g == WithName(h, i, name, isCopy, const)
           r == [h[i] EXCEPT !.string = name, !.copied = isCopy, !.stringIsConst = const]
<1>1. \A x \in DOMAIN h : h[x] \in Item
  BY DEF Good, Typed
<1>2. DOMAIN g = DOMAIN h /\ g[i] = r /\ \A x \in DOMAIN h \ {i} : g[x] = h[x]
  BY <1>1 DEF WithName, Item
<1>3. h[i] \in Item
  BY <1>1
<1>4. /\ r \in Item /\ r.string = name /\ r.copied = isCopy /\ r.stringIsConst = const
      /\ r.next = h[i].next /\ r.prev = h[i].prev /\ r.child = h[i].child
      /\ r.isReference = h[i].isReference
  BY <1>3 DEF Item
<1> HIDE DEF g, r
<1>5. Typed(g)
  BY <1>1, <1>2, <1>4 DEF Good, Typed
<1>6. SameLinks(h, g)
  BY <1>2, <1>4 DEF SameLinks
<1>7. NamedAnew(h, g, i, name, isCopy, const)
  BY <1>2, <1>4 DEF NamedAnew
<1>8. Good(g, R) /\ Freed(g, i) = Freed(h, i)
  BY <1>5, <1>6, GoodSameLinks
<1>9. QED
  BY <1>6, <1>7, <1>8 DEF g, Renamed

\* Neither does clearing cJSON_StringIsConst.
LEMMA GoodFlag ==
  ASSUME NEW h, NEW R, Good(h, R), NEW i \in DOMAIN h
  PROVE  LET g == [h EXCEPT ![i].stringIsConst = FALSE]
         IN  Good(g, R) /\ NamedAnew(h, g, i, h[i].string, h[i].copied, FALSE) /\ SameLinks(h, g)
<1> DEFINE g == [h EXCEPT ![i].stringIsConst = FALSE]
           r == [h[i] EXCEPT !.stringIsConst = FALSE]
<1>1. \A x \in DOMAIN h : h[x] \in Item
  BY DEF Good, Typed
<1>2. DOMAIN g = DOMAIN h /\ g[i] = r /\ \A x \in DOMAIN h \ {i} : g[x] = h[x]
  OBVIOUS
<1>3. h[i] \in Item
  BY <1>1
<1>4. /\ r \in Item /\ r.string = h[i].string /\ r.copied = h[i].copied /\ r.stringIsConst = FALSE
      /\ r.next = h[i].next /\ r.prev = h[i].prev /\ r.child = h[i].child
      /\ r.isReference = h[i].isReference
  BY <1>3 DEF Item
<1> HIDE DEF g, r
<1>5. Typed(g)
  BY <1>1, <1>2, <1>4 DEF Good, Typed
<1>6. SameLinks(h, g)
  BY <1>2, <1>4 DEF SameLinks
<1>7. NamedAnew(h, g, i, h[i].string, h[i].copied, FALSE)
  BY <1>2, <1>4 DEF NamedAnew
<1>8. Good(g, R)
  BY <1>5, <1>6, GoodSameLinks
<1>9. QED
  BY <1>6, <1>7, <1>8 DEF g

\* cJSON_AddItemToObjectCS names an item that is held and appends it.
LEMMA GoodAddToObjectCS ==
  ASSUME NEW h, NEW R, Good(h, R), NEW o \in DOMAIN h, ~h[o].isReference,
         NEW i \in R, o \notin Freed(h, i), NEW n \in Names, NEW isCopy \in BOOLEAN
  PROVE  LET g == AddToObjectCS(h, o, n, i, isCopy)
         IN  Good(g, R \ {i}) /\ NamedAnew(h, g, i, n, isCopy, TRUE)
<1> DEFINE m == WithName(h, i, n, isCopy, TRUE)
           g == AddToArray(m, o, i)
<1>1. AddToObjectCS(h, o, n, i, isCopy) = g
  BY DEF AddToObjectCS, WithName
<1>2. i \in DOMAIN h
  BY DEF Good, Rooted
<1> HIDE DEF m
<1>3. /\ Good(m, R) /\ NamedAnew(h, m, i, n, isCopy, TRUE)
      /\ SameLinks(h, m) /\ Freed(m, i) = Freed(h, i)
  <2>1. n \in Names \cup {NoName} /\ TRUE \in BOOLEAN
    OBVIOUS
  <2>2. Renamed(h, WithName(h, i, n, isCopy, TRUE), R, i, n, isCopy, TRUE)
    BY <1>2, <2>1, GoodName, Zenon
  <2>3. QED
    BY <2>2 DEF Renamed, m
<1>4. o \in DOMAIN m /\ ~m[o].isReference /\ o \notin Freed(m, i)
  BY <1>3 DEF SameLinks
<1>5. Good(g, R \ {i}) /\ SameNames(m, g) /\ DOMAIN g = DOMAIN m
  BY <1>3, <1>4, GoodAddToArray
<1> HIDE DEF g
<1>6. NamedAnew(h, g, i, n, isCopy, TRUE)
  BY <1>2, <1>3, <1>5 DEF NamedAnew, SameNames
<1>7. QED
  BY <1>1, <1>5, <1>6

\* A member that is found by its name is found by an index.
LEMMA ObjectItem ==
  ASSUME NEW h, IsFiniteSet(DOMAIN h), NEW o, NEW n, NEW caseSensitive,
         GetObjectItem(h, o, n, caseSensitive) # Nil
  PROVE  \E w \in Nat : GetObjectItem(h, o, n, caseSensitive) = GetArrayItem(h, o, w)
<1> DEFINE hits == {w \in Index(h) : /\ GetArrayItem(h, o, w) # Nil
                                     /\ SameName(n, h[GetArrayItem(h, o, w)].string, caseSensitive)}
<1>1. hits \subseteq Nat
  BY DEF Index
<1>2. /\ hits # {}
      /\ GetObjectItem(h, o, n, caseSensitive) = GetArrayItem(h, o, Min(hits))
  BY DEF GetObjectItem
<1> HIDE DEF hits
<1>3. Min(hits) \in hits
  <2>1. PICK x \in hits : \A y \in hits : x <= y
    BY <1>1, <1>2, LeastNumber
  <2>2. QED
    BY <2>1 DEF Min
<1>4. QED
  BY <1>1, <1>2, <1>3

-----------------------------------------------------------------------------
(* The inductive invariant and the calls that keep it.                     *)

HeapInv == Good(heap, held \cup lost) /\ held \cap lost = {} /\ Named(heap, lost)

\* What the contract says of a container, and of an item that is put into it.
LEMMA Contract ==
  ASSUME HeapInv, NEW c \in Live
  PROVE  /\ Unshared(c) => Alone(heap, c) /\ ~heap[c].isReference
         /\ \A i : MayAdd(c, i) => /\ i \in held /\ i \in held \cup lost /\ i \in Live
                                   /\ c \notin Freed(heap, i) /\ Unshared(c)
BY DEF HeapInv, Good, Rooted, Unshared, Alone, MayAdd, Own, Live

\* cJSON_CreateNull ... cJSON_CreateObject.
LEMMA CreateKeeps ==
  ASSUME HeapInv, NEW i \in Items, NEW t \in Kinds, Create(i, t)
  PROVE  HeapInv'
<1>1. /\ NewItem(t) \in Item /\ NewItem(t).next = Nil /\ NewItem(t).prev = Nil
      /\ NewItem(t).child = Nil /\ NewItem(t).string = NoName
  BY DEF NewItem, Item
<1>2. /\ i \in Items \ DOMAIN heap /\ heap' = Alloc(heap, i, NewItem(t))
      /\ held' = held \cup {i} /\ lost' = lost
  BY DEF Create, Free, Live
<1> HIDE DEF NewItem
<1>3. Good(heap', (held \cup lost) \cup {i})
  BY <1>1, <1>2, GoodAlloc DEF HeapInv
<1>4. (held \cup lost) \cup {i} = held' \cup lost'
  BY <1>2
<1>5. held' \cap lost' = {}
  BY <1>2 DEF HeapInv, Good, Rooted
<1>6. Named(heap', lost')
  BY <1>1, <1>2 DEF HeapInv, Named, Alloc
<1>7. QED
  BY <1>3, <1>4, <1>5, <1>6 DEF HeapInv

\* The number and the array that cJSON_CreateIntArray makes.
Member(prev, next) == [NewItem("leaf") EXCEPT !.prev = prev, !.next = next]
IsMember(r, prev, next) ==
  /\ r \in Item /\ ~r.isReference /\ r.next = next /\ r.prev = prev
  /\ r.child = Nil /\ r.string = NoName
\* A number is an item with the links it is given, and no more.
LEMMA NewMember ==
  ASSUME NEW prev \in Items \cup {Nil}, NEW next \in Items \cup {Nil}
  PROVE  IsMember(Member(prev, next), prev, next)
<1>1. NewItem("leaf") \in Item
  BY DEF NewItem, Item, Kinds
<1>2. /\ NewItem("leaf").child = Nil /\ NewItem("leaf").string = NoName
      /\ ~NewItem("leaf").isReference
  BY DEF NewItem
<1>3. QED
  BY <1>1, <1>2 DEF Item, Member, IsMember

Array(child) == [NewItem("array") EXCEPT !.child = child]
IsArray(r, child) ==
  /\ r \in Item /\ ~r.isReference /\ r.next = Nil /\ r.prev = Nil
  /\ r.child = child /\ r.string = NoName
\* So is the array.
LEMMA NewArray ==
  ASSUME NEW child \in Items \cup {Nil}
  PROVE  IsArray(Array(child), child)
<1>1. NewItem("array") \in Item
  BY DEF NewItem, Item, Kinds
<1>2. /\ NewItem("array").next = Nil /\ NewItem("array").prev = Nil
      /\ NewItem("array").string = NoName /\ ~NewItem("array").isReference
  BY DEF NewItem
<1>3. QED
  BY <1>1, <1>2 DEF Item, Array, IsArray

\* cJSON_CreateIntArray and its like make the items of an array, linked in their order.
Created(count, at) ==
  LET k == [x \in {at[n] : n \in 0 .. count} |-> heap'[x]]
  IN  /\ Typed(k) /\ ArrayAt(k, count, at)
      /\ DOMAIN heap' = DOMAIN heap \cup DOMAIN k /\ \A x \in DOMAIN heap : heap'[x] = heap[x]
      /\ held' = held \cup {at[0]} /\ lost' = lost

LEMMA ArrayCreated ==
  ASSUME NEW count \in Nat, NEW at, at \in Injections(0 .. count, Free), CreateArrayOf(count, at)
  PROVE  Created(count, at)
<1> DEFINE E == {at[n] : n \in 0 .. count}
           k == [x \in E |-> heap'[x]]
           linked(n) == Member(IF n = 1 THEN Nil ELSE at[n - 1],
                               IF n = count THEN Nil ELSE at[n + 1])
           array == Array(IF count = 0 THEN Nil ELSE at[1])
           number(x) == CHOOSE m \in 0 .. count : at[m] = x
<1>1. /\ at \in [0 .. count -> Free] /\ \A m, n \in 0 .. count : at[m] = at[n] => m = n
      /\ \A n \in 0 .. count : at[n] \in Items \ DOMAIN heap
  BY DEF Injections, Free, Live
<1>3. /\ heap' = [x \in Live \cup E |-> IF x \in Live THEN heap[x]
                    ELSE IF number(x) = 0 THEN array ELSE linked(number(x))]
      /\ held' = held \cup {at[0]} /\ lost' = lost
  BY DEF CreateArrayOf, Member, Array
<1>4. ASSUME NEW n \in 0 .. count
      PROVE  k[at[n]] = (IF n = 0 THEN array ELSE linked(n)) /\ at[n] \in E
  <2>1. number(at[n]) = n
    BY <1>1
  <2>2. at[n] \in E /\ at[n] \notin Live
    BY <1>1 DEF Live
  <2> HIDE DEF array, linked, number
  <2>3. heap'[at[n]] = IF n = 0 THEN array ELSE linked(n)
    BY <1>3, <2>1, <2>2
  <2> HIDE DEF E
  <2>4. QED
    BY <2>2, <2>3
<1>5. /\ array \in Item /\ array.next = Nil /\ array.prev = Nil /\ ~array.isReference
      /\ array.child = (IF count = 0 THEN Nil ELSE at[1]) /\ array.string = NoName
  <2>1. count # 0 => at[1] \in Items
    BY <1>1
  <2> DEFINE child == IF count = 0 THEN Nil ELSE at[1]
  <2>2. child \in Items \cup {Nil}
    BY <2>1
  <2>3. array = Array(child)
    OBVIOUS
  <2> HIDE DEF child, array
  <2>4. IsArray(array, child)
    BY <2>2, <2>3, NewArray
  <2>5. QED
    BY <2>4 DEF IsArray, child
<1>6. ASSUME NEW n \in 0 .. count, n # 0
      PROVE  /\ linked(n) \in Item /\ ~linked(n).isReference
             /\ linked(n).next = (IF n = count THEN Nil ELSE at[n + 1])
             /\ linked(n).prev = (IF n = 1 THEN Nil ELSE at[n - 1])
             /\ linked(n).child = Nil /\ linked(n).string = NoName
  <2>1. n - 1 \in 0 .. count /\ (n # count => n + 1 \in 0 .. count)
    BY <1>6
  <2>2. at[n - 1] \in Items /\ (n # count => at[n + 1] \in Items)
    BY <1>1, <2>1
  <2> DEFINE prev == IF n = 1 THEN Nil ELSE at[n - 1]
             next == IF n = count THEN Nil ELSE at[n + 1]
  <2>3. prev \in Items \cup {Nil} /\ next \in Items \cup {Nil}
    BY <2>2
  <2>4. linked(n) = Member(prev, next)
    OBVIOUS
  <2> HIDE DEF prev, next, linked
  <2>5. IsMember(linked(n), prev, next)
    BY <2>3, <2>4, NewMember
  <2>6. QED
    BY <2>5 DEF IsMember, prev, next
<1> HIDE DEF array, linked, number
<1>7. DOMAIN k = E
  OBVIOUS
<1>8. \A n \in 0 .. count : at[n] \in Items /\ k[at[n]] \in Item
  <2>1. ASSUME NEW n \in 0 .. count, n = 0 PROVE k[at[n]] \in Item
    BY <1>4, <1>5, <2>1
  <2>2. ASSUME NEW n \in 0 .. count, n # 0 PROVE k[at[n]] \in Item
    BY <1>4, <1>6, <2>2
  <2>3. QED
    BY <1>1, <2>1, <2>2
<1>9. ArrayAt(k, count, at)
  <2> SUFFICES ASSUME NEW n \in 0 .. count
               PROVE  /\ ~k[at[n]].isReference /\ k[at[n]].string = NoName
                      /\ k[at[n]].next = IF n = 0 \/ n = count THEN Nil ELSE at[n + 1]
                      /\ k[at[n]].prev = IF n = 0 \/ n = 1 THEN Nil ELSE at[n - 1]
                      /\ k[at[n]].child = IF n = 0 /\ count # 0 THEN at[1] ELSE Nil
    BY <1>7 DEF ArrayAt
  <2>1. CASE n = 0
    <3>1. k[at[n]] = array
      BY <1>4, <2>1
    <3>2. QED
      BY <1>5, <2>1, <3>1
  <2>2. CASE n # 0
    <3>1. k[at[n]] = linked(n)
      BY <1>4, <2>2
    <3>2. QED
      BY <1>6, <2>2, <3>1
  <2>3. QED
    BY <2>1, <2>2
<1>10. Typed(k)
  BY <1>7, <1>8 DEF Typed
<1>11. DOMAIN heap' = DOMAIN heap \cup E /\ \A x \in DOMAIN heap : heap'[x] = heap[x]
  BY <1>3 DEF Live
<1>12. QED
  BY <1>3, <1>7, <1>9, <1>10, <1>11 DEF Created

\* cJSON_CreateIntArray and its like, with any number of members.
LEMMA CreateArrayOfKeeps ==
  ASSUME HeapInv, NEW count \in Nat, NEW at, at \in Injections(0 .. count, Free),
         CreateArrayOf(count, at)
  PROVE  HeapInv'
<1> DEFINE k == [x \in {at[n] : n \in 0 .. count} |-> heap'[x]]
<1>1. /\ \A n \in 0 .. count : at[n] \in Items \ DOMAIN heap
      /\ at \in Injections(0 .. count, Items) /\ 0 \in 0 .. count
  BY DEF Injections, Free, Live
<1>2. /\ Typed(k) /\ ArrayAt(k, count, at)
      /\ DOMAIN heap' = DOMAIN heap \cup DOMAIN k /\ \A x \in DOMAIN heap : heap'[x] = heap[x]
      /\ held' = held \cup {at[0]} /\ lost' = lost
  BY ArrayCreated DEF Created
<1>3. \A x \in DOMAIN k : heap'[x] = k[x]
  OBVIOUS
<1> HIDE DEF k
<1>4. DOMAIN heap \cap DOMAIN k = {}
  BY <1>1, <1>2 DEF ArrayAt
<1>5. Good(k, {at[0]})
  BY <1>1, <1>2, GoodArray
<1>6. Good(heap', (held \cup lost) \cup {at[0]})
  BY <1>2, <1>3, <1>4, <1>5, GoodUnion DEF HeapInv
<1>7. (held \cup lost) \cup {at[0]} = held' \cup lost'
  BY <1>2
<1>8. held' \cap lost' = {}
  <2>1. at[0] \notin DOMAIN heap
    BY <1>1
  <2>2. QED
    BY <1>2, <2>1 DEF HeapInv, Good, Rooted
<1>9. Named(heap', lost')
  <2>1. \A x \in DOMAIN k : k[x].string = NoName
    BY <1>2 DEF ArrayAt
  <2>2. QED
    BY <1>2, <1>3, <2>1 DEF HeapInv, Named
<1>10. QED
  BY <1>6, <1>7, <1>8, <1>9 DEF HeapInv

\* cJSON_AddItemToArray.
LEMMA AddItemToArrayKeeps ==
  ASSUME HeapInv, NEW a, NEW i, AddItemToArray(a, i)
  PROVE  HeapInv'
<1>1. /\ a \in Live /\ MayAdd(a, i) /\ heap' = AddToArray(heap, a, i)
      /\ held' = held \ {i} /\ lost' = lost
  BY DEF AddItemToArray, Containers, Known
<1>2. /\ i \in held /\ i \in held \cup lost /\ a \notin Freed(heap, i) /\ ~heap[a].isReference
  BY <1>1, Contract
<1>3. Good(heap', (held \cup lost) \ {i}) /\ SameNames(heap, heap')
  BY <1>1, <1>2, GoodAddToArray DEF HeapInv, Live
<1>4. (held \cup lost) \ {i} = held' \cup lost' /\ held' \cap lost' = {}
  BY <1>1, <1>2 DEF HeapInv
<1>5. Named(heap', lost')
  BY <1>1, <1>3, NamedSame DEF HeapInv
<1>6. QED
  BY <1>3, <1>4, <1>5 DEF HeapInv

\* cJSON_InsertItemInArray, before a member or past the end.
LEMMA InsertItemInArrayKeeps ==
  ASSUME HeapInv, NEW a, NEW which \in Nat, NEW i, InsertItemInArray(a, which, i)
  PROVE  HeapInv'
<1> DEFINE after == GetArrayItem(heap, a, which)
<1>1. /\ a \in Live /\ MayAdd(a, i) /\ held' = held \ {i} /\ lost' = lost
      /\ heap' = IF after = Nil THEN AddToArray(heap, a, i) ELSE InsertBefore(heap, a, after, i)
  BY DEF InsertItemInArray, Containers, Known
<1>2. /\ i \in held /\ i \in held \cup lost /\ a \notin Freed(heap, i) /\ ~heap[a].isReference
      /\ Alone(heap, a)
  BY <1>1, Contract
<1>3. Good(heap', (held \cup lost) \ {i}) /\ SameNames(heap, heap')
  <2>1. CASE after = Nil
    BY <1>1, <1>2, <2>1, GoodAddToArray DEF HeapInv, Live
  <2>2. CASE after # Nil
    <3>1. PICK m : m = after
      OBVIOUS
    <3>2. heap' = InsertBefore(heap, a, m, i) /\ m = GetArrayItem(heap, a, which) /\ m # Nil
      BY <1>1, <2>2, <3>1
    <3> HIDE DEF after
    <3>3. QED
      BY <1>2, <3>2, GoodInsertBefore DEF HeapInv
  <2>3. QED
    BY <2>1, <2>2
<1>4. (held \cup lost) \ {i} = held' \cup lost' /\ held' \cap lost' = {}
  BY <1>1, <1>2 DEF HeapInv
<1>5. Named(heap', lost')
  BY <1>1, <1>3, NamedSame DEF HeapInv
<1>6. QED
  BY <1>3, <1>4, <1>5 DEF HeapInv

\* A member is taken out of a list, to be held or to be deleted.
LEMMA DetachKeeps ==
  ASSUME HeapInv, NEW a \in Live, Unshared(a), NEW n \in Nat, NEW i,
         i = GetArrayItem(heap, a, n), i # Nil, lost' = lost,
         \/ heap' = DetachViaPointer(heap, a, i) /\ held' = held \cup {i}
         \/ /\ Deletable(DetachViaPointer(heap, a, i), i)
            /\ heap' = Delete(DetachViaPointer(heap, a, i), i) /\ held' = held
  PROVE  HeapInv'
<1> DEFINE m == DetachViaPointer(heap, a, i)
           R == held \cup lost
<1>1. Alone(heap, a)
  BY Contract
<1>2. i \in DOMAIN heap \ R /\ Good(m, R \cup {i}) /\ SameNames(heap, m)
  BY <1>1, GoodDetachViaPointer DEF HeapInv
<1> HIDE DEF m
<1>3. Named(m, lost)
  BY <1>2, NamedSame DEF HeapInv
<1>4. CASE heap' = m /\ held' = held \cup {i}
  <2>1. R \cup {i} = held' \cup lost' /\ held' \cap lost' = {}
    BY <1>2, <1>4 DEF HeapInv
  <2>2. QED
    BY <1>2, <1>3, <1>4, <2>1 DEF HeapInv
<1>5. CASE Deletable(m, i) /\ heap' = Delete(m, i) /\ held' = held
  <2>1. Good(heap', (R \cup {i}) \ {i})
    BY <1>2, <1>5, GoodDelete
  <2>2. (R \cup {i}) \ {i} = held' \cup lost' /\ held' \cap lost' = {}
    BY <1>2, <1>5 DEF HeapInv
  <2>3. Named(heap', lost')
    BY <1>3, <1>5 DEF Named, Delete
  <2>4. QED
    BY <2>1, <2>2, <2>3 DEF HeapInv
<1>6. QED
  BY <1>4, <1>5 DEF m

\* cJSON_Delete of something held.
LEMMA DeleteItemKeeps ==
  ASSUME HeapInv, NEW i, DeleteItem(i)
  PROVE  HeapInv'
<1>1. /\ i \in held /\ Deletable(heap, i) /\ heap' = Delete(heap, i)
      /\ held' = held \ {i} /\ lost' = lost
  BY DEF DeleteItem
<1>2. Good(heap', (held \cup lost) \ {i})
  BY <1>1, GoodDelete DEF HeapInv
<1>3. (held \cup lost) \ {i} = held' \cup lost' /\ held' \cap lost' = {}
  BY <1>1 DEF HeapInv
<1>4. Named(heap', lost')
  BY <1>1 DEF HeapInv, Named, Delete
<1>5. QED
  BY <1>2, <1>3, <1>4 DEF HeapInv

\* A member is replaced by what was held, and deleted; h is the heap, or the heap
\* with the new item's name.
LEMMA ReplaceKeeps ==
  ASSUME HeapInv, NEW h, Good(h, held \cup lost), Named(h, lost), NEW a, Alone(h, a),
         NEW new \in held, a \notin Freed(h, new), NEW n \in Nat, NEW i,
         i = GetArrayItem(h, a, n), i # Nil, Deletable(Relink(h, a, i, new), i),
         heap' = ReplaceViaPointer(h, a, i, new), held' = held \ {new}, lost' = lost
  PROVE  HeapInv'
<1> DEFINE m == Relink(h, a, i, new)
           R == held \cup lost
<1>1. /\ i \in DOMAIN h \ R /\ Good(m, (R \ {new}) \cup {i}) /\ SameNames(h, m)
  BY GoodRelink
<1>2. heap' = Delete(m, i) /\ Deletable(m, i)
  BY DEF ReplaceViaPointer
<1> HIDE DEF m
<1>3. Named(m, lost)
  BY <1>1, NamedSame
<1>4. Good(heap', ((R \ {new}) \cup {i}) \ {i})
  BY <1>1, <1>2, GoodDelete
<1>5. ((R \ {new}) \cup {i}) \ {i} = held' \cup lost' /\ held' \cap lost' = {}
  BY <1>1 DEF HeapInv
<1>6. Named(heap', lost')
  BY <1>2, <1>3 DEF Named, Delete
<1>7. QED
  BY <1>4, <1>5, <1>6 DEF HeapInv

\* cJSON_ReplaceItemInArray: the new item is linked, or lost.
LEMMA ReplaceItemInArrayKeeps ==
  ASSUME HeapInv, NEW a, NEW which \in Nat, NEW new, ReplaceItemInArray(a, which, new)
  PROVE  HeapInv'
<1>0. PICK i : i = GetArrayItem(heap, a, which)
  OBVIOUS
<1>1. /\ a \in Live /\ MayAdd(a, new) /\ held' = held \ {new}
      /\ i # Nil => Deletable(Relink(heap, a, i, new), i)
      /\ heap' = IF i = Nil THEN heap ELSE ReplaceViaPointer(heap, a, i, new)
      /\ lost' = IF i = Nil THEN lost \cup {new} ELSE lost
  BY <1>0 DEF ReplaceItemInArray, Containers, Known
<1>2. new \in held /\ a \notin Freed(heap, new) /\ Alone(heap, a)
  BY <1>1, Contract
<1>3. CASE i = Nil
  <2>1. held' \cup lost' = held \cup lost /\ held' \cap lost' = {}
    BY <1>1, <1>2, <1>3 DEF HeapInv
  <2>2. Named(heap', lost')
    BY <1>1, <1>3 DEF HeapInv, Named
  <2>3. QED
    BY <1>1, <1>3, <2>1, <2>2 DEF HeapInv
<1>4. CASE i # Nil
  BY <1>0, <1>1, <1>2, <1>4, ReplaceKeeps DEF HeapInv
<1>5. QED
  BY <1>3, <1>4

\* replace_item_in_object: the new item is renamed, then linked or lost.
LEMMA ReplaceItemInObjectKeeps ==
  ASSUME HeapInv, NEW o, NEW n \in Names, NEW new, NEW cs \in BOOLEAN, NEW copied \in BOOLEAN,
         ReplaceItemInObject(o, n, new, cs, copied)
  PROVE  HeapInv'
<1> DEFINE name == IF copied THEN n ELSE NoName
           named == WithName(heap, new, name, copied, FALSE)
<1>0. PICK i : i = GetObjectItem(named, o, n, cs)
  OBVIOUS
<1>1. /\ o \in Live /\ MayAdd(o, new) /\ held' = held \ {new}
      /\ i # Nil => Deletable(Relink(named, o, i, new), i)
      /\ heap' = IF i = Nil THEN named ELSE ReplaceViaPointer(named, o, i, new)
      /\ lost' = IF i = Nil THEN lost \cup {new} ELSE lost
  BY <1>0 DEF ReplaceItemInObject, Containers, Known, WithName
<1>2. new \in held /\ new \in Live /\ o \notin Freed(heap, new) /\ Alone(heap, o)
  BY <1>1, Contract
<1>3. name \in Names \cup {NoName}
  OBVIOUS
<1> HIDE DEF name
<1>4. /\ Good(named, held \cup lost) /\ NamedAnew(heap, named, new, name, copied, FALSE)
      /\ SameLinks(heap, named) /\ Freed(named, new) = Freed(heap, new)
  <2>1. Good(heap, held \cup lost) /\ new \in DOMAIN heap /\ FALSE \in BOOLEAN
    BY <1>2 DEF HeapInv, Live
  <2>2. Renamed(heap, named, held \cup lost, new, name, copied, FALSE)
    BY <1>3, <2>1, GoodName, Zenon
  <2>3. QED
    BY <2>2, Zenon DEF Renamed
<1> HIDE DEF named
<1>5. Alone(named, o)
  BY <1>2, <1>4 DEF Alone, SameLinks
<1>6. Named(named, lost)
  <2>1. ASSUME NEW x \in DOMAIN named \ lost, named[x].string # NoName
        PROVE  named[x].copied <=> ~named[x].stringIsConst
    <3>1. CASE x = new
      <4>1. named[x].copied = copied /\ named[x].stringIsConst = FALSE /\ name # NoName
        BY <1>4, <2>1, <3>1 DEF NamedAnew
      <4>2. copied
        BY <4>1 DEF name
      <4>3. QED
        BY <4>1, <4>2
    <3>2. CASE x # new
      BY <1>4, <2>1, <3>2 DEF HeapInv, Named, NamedAnew
    <3>3. QED
      BY <3>1, <3>2
  <2>2. QED
    BY <2>1 DEF Named
<1>7. CASE i = Nil
  <2>1. held' \cup lost' = held \cup lost /\ held' \cap lost' = {}
    BY <1>1, <1>2, <1>7 DEF HeapInv
  <2>2. Named(heap', lost')
    BY <1>1, <1>6, <1>7 DEF Named
  <2>3. QED
    BY <1>1, <1>4, <1>7, <2>1, <2>2 DEF HeapInv
<1>8. CASE i # Nil
  <2>1. IsFiniteSet(DOMAIN named)
    BY <1>4, GoodPoints DEF Good, Points
  <2>2. PICK w \in Nat : i = GetArrayItem(named, o, w)
    BY <1>0, <1>8, <2>1, ObjectItem
  <2>3. QED
    BY <1>1, <1>2, <1>4, <1>5, <1>6, <1>8, <2>2, ReplaceKeeps
<1>9. QED
  BY <1>7, <1>8

\* cJSON_AddItemToObjectCS.
LEMMA AddItemToObjectCSKeeps ==
  ASSUME HeapInv, NEW o, NEW n \in Names, NEW i, AddItemToObjectCS(o, n, i)
  PROVE  HeapInv'
<1>1. /\ o \in Live /\ MayAdd(o, i) /\ heap' = AddToObjectCS(heap, o, n, i, FALSE)
      /\ held' = held \ {i} /\ lost' = lost
  BY DEF AddItemToObjectCS, Containers, Known
<1>2. /\ i \in held /\ i \in held \cup lost /\ o \notin Freed(heap, i) /\ ~heap[o].isReference
  BY <1>1, Contract
<1>3. Good(heap', (held \cup lost) \ {i}) /\ NamedAnew(heap, heap', i, n, FALSE, TRUE)
  <2>1. Good(heap, held \cup lost) /\ o \in DOMAIN heap /\ FALSE \in BOOLEAN
    BY <1>1 DEF HeapInv, Live
  <2>2. QED
    BY <1>1, <1>2, <2>1, GoodAddToObjectCS
<1>4. (held \cup lost) \ {i} = held' \cup lost' /\ held' \cap lost' = {}
  BY <1>1, <1>2 DEF HeapInv
<1>5. Named(heap', lost')
  <2> SUFFICES ASSUME NEW x \in DOMAIN heap' \ lost', heap'[x].string # NoName
               PROVE  heap'[x].copied <=> ~heap'[x].stringIsConst
    BY Zenon DEF Named
  <2>1. CASE x = i
    BY <1>3, <2>1 DEF NamedAnew
  <2>2. CASE x # i
    BY <1>1, <1>3, <2>2 DEF HeapInv, Named, NamedAnew
  <2>3. QED
    BY <2>1, <2>2
<1>6. QED
  BY <1>3, <1>4, <1>5 DEF HeapInv

\* cJSON_AddItemToObject, with a copy of the name or without.
LEMMA AddItemToObjectKeeps ==
  ASSUME HeapInv, NEW o, NEW n \in Names, NEW i, NEW copied \in BOOLEAN,
         AddItemToObject(o, n, i, copied)
  PROVE  HeapInv'
<1> DEFINE R == held \cup lost
           added == IF copied THEN AddToObjectCS(heap, o, n, i, TRUE) ELSE heap
<1>1. /\ o \in Live /\ MayAdd(o, i) /\ heap' = [added EXCEPT ![i].stringIsConst = FALSE]
      /\ held' = held \ {i} /\ lost' = IF copied THEN lost ELSE lost \cup {i}
  BY DEF AddItemToObject, Containers, Known
<1>2. /\ i \in held /\ i \in R /\ i \in Live /\ o \notin Freed(heap, i) /\ ~heap[o].isReference
  BY <1>1, Contract
<1>3. CASE copied
  <2>1. Good(added, R \ {i}) /\ NamedAnew(heap, added, i, n, TRUE, TRUE)
    <3>1. added = AddToObjectCS(heap, o, n, i, TRUE)
      BY <1>3
    <3>2. Good(heap, R) /\ o \in DOMAIN heap /\ TRUE \in BOOLEAN
      BY <1>1 DEF HeapInv, Live
    <3> HIDE DEF added
    <3>3. QED
      BY <1>2, <3>1, <3>2, GoodAddToObjectCS
  <2> HIDE DEF added
  <2>2. i \in DOMAIN added /\ added[i].string = n /\ added[i].copied = TRUE
    BY <1>2, <2>1 DEF NamedAnew, Live
  <2>3. Good(heap', R \ {i}) /\ NamedAnew(added, heap', i, n, TRUE, FALSE)
    BY <1>1, <2>1, <2>2, GoodFlag
  <2>4. R \ {i} = held' \cup lost' /\ held' \cap lost' = {} /\ lost' = lost
    BY <1>1, <1>2, <1>3 DEF HeapInv
  <2>5. Named(heap', lost')
    BY <2>1, <2>3, <2>4 DEF HeapInv, Named, NamedAnew
  <2>6. QED
    BY <2>3, <2>4, <2>5 DEF HeapInv
<1>4. CASE ~copied
  <2>1. heap' = [heap EXCEPT ![i].stringIsConst = FALSE]
    BY <1>1, <1>4
  <2>2. Good(heap', R) /\ NamedAnew(heap, heap', i, heap[i].string, heap[i].copied, FALSE)
    <3>1. Good(heap, R) /\ i \in DOMAIN heap
      BY <1>2 DEF HeapInv, Live
    <3>2. QED
      BY <2>1, <3>1, GoodFlag
  <2>3. R = held' \cup lost' /\ held' \cap lost' = {} /\ lost' = lost \cup {i}
    BY <1>1, <1>2, <1>4 DEF HeapInv
  <2>4. Named(heap', lost')
    BY <2>2, <2>3 DEF HeapInv, Named, NamedAnew
  <2>5. QED
    BY <2>2, <2>3, <2>4 DEF HeapInv
<1>5. QED
  BY <1>3, <1>4

\* A new reference to the list of i, for a container that no reference shares and
\* that is not below i.
LEMMA NewReference ==
  ASSUME HeapInv, NEW c \in Live, Unshared(c), NEW i \in Live,
         c \notin Freed([heap EXCEPT ![i].next = Nil], i), NEW r \in Free
  PROVE  LET h == Alloc(heap, r, Reference(heap, i))
         IN  /\ Good(h, held \cup lost \cup {r}) /\ Named(h, lost) /\ DOMAIN h = Live \cup {r}
             /\ r \notin held \cup lost /\ c # r /\ ~h[c].isReference /\ c \notin Freed(h, r)
             /\ h[r].string = NoName
<1> DEFINE q == Reference(heap, i)
           h == Alloc(heap, r, q)
           R == held \cup lost
<1>1. Good(heap, R) /\ i \in DOMAIN heap /\ c \in DOMAIN heap /\ r \in Items \ DOMAIN heap
  BY DEF HeapInv, Live, Free
<1>2. heap[i] \in Item
  BY <1>1 DEF Good, Typed
<1>3. /\ q \in Item /\ q.next = Nil /\ q.prev = Nil /\ q.child = heap[i].child
      /\ q.isReference /\ q.string = NoName
  BY <1>2 DEF Reference, Item
<1> HIDE DEF q
<1>4. \/ q.child = Nil
      \/ q.isReference /\ q.child \in DOMAIN heap \ R /\ heap[q.child].prev = Nil
  BY <1>1, <1>3 DEF Good, Linked, Rooted
<1>5. Good(h, R \cup {r})
  BY <1>1, <1>3, <1>4, GoodAlloc
<1>6. DOMAIN h = Live \cup {r} /\ h[r] = q /\ \A x \in Live : h[x] = heap[x]
  BY <1>1 DEF Alloc, Live
<1> HIDE DEF h
<1>7. Named(h, lost)
  BY <1>3, <1>6 DEF HeapInv, Named, Live
<1>8. r \notin R /\ c # r
  BY <1>1 DEF Good, Rooted
<1>9. ~h[c].isReference
  BY <1>6 DEF Unshared
<1>10. c \notin Freed(h, r)
  <2>1. \A S : r \in S /\ Keeps(h, S) => Freed(h, r) \subseteq S
    BY <1>5, <1>6, GoodPoints, FreedIs DEF Good
  <2>2. Nil \notin DOMAIN h
    BY <1>5, GoodPoints DEF Good, Points
  <2>3. Keeps(h, {r})
    BY <1>3, <1>6, <2>2 DEF Keeps, Leads
  <2>4. QED
    BY <1>8, <2>1, <2>3
<1>11. QED
  BY <1>3, <1>5, <1>6, <1>7, <1>8, <1>9, <1>10 DEF h, q

\* cJSON_AddItemReferenceToArray.
LEMMA AddItemReferenceToArrayKeeps ==
  ASSUME HeapInv, NEW a, NEW i, NEW r, AddItemReferenceToArray(a, i, r)
  PROVE  HeapInv'
<1> DEFINE h == Alloc(heap, r, Reference(heap, i))
           R == held \cup lost
<1>1. /\ a \in Live /\ Unshared(a) /\ i \in Live /\ r \in Free
      /\ a \notin Freed([heap EXCEPT ![i].next = Nil], i)
      /\ heap' = AddToArray(h, a, r) /\ held' = held /\ lost' = lost
  BY DEF AddItemReferenceToArray, Containers, Known
<1>2. /\ Good(h, R \cup {r}) /\ Named(h, lost) /\ DOMAIN h = Live \cup {r}
      /\ r \notin R /\ ~h[a].isReference /\ a \notin Freed(h, r)
  BY <1>1, NewReference
<1> HIDE DEF h
<1>3. Good(heap', (R \cup {r}) \ {r}) /\ SameNames(h, heap')
  <2>1. a \in DOMAIN h /\ r \in R \cup {r}
    BY <1>1, <1>2
  <2>2. Good(AddToArray(h, a, r), (R \cup {r}) \ {r}) /\ SameNames(h, AddToArray(h, a, r))
    BY <1>2, <2>1, GoodAddToArray
  <2>3. QED
    BY <1>1, <2>2
<1>4. (R \cup {r}) \ {r} = held' \cup lost' /\ held' \cap lost' = {}
  BY <1>1, <1>2 DEF HeapInv
<1>5. Named(heap', lost')
  BY <1>1, <1>2, <1>3, NamedSame
<1>6. QED
  BY <1>3, <1>4, <1>5 DEF HeapInv

\* cJSON_AddItemReferenceToObject: the reference is linked, or lost.
LEMMA AddItemReferenceToObjectKeeps ==
  ASSUME HeapInv, NEW o, NEW n \in Names, NEW i, NEW r, NEW copied \in BOOLEAN,
         AddItemReferenceToObject(o, n, i, r, copied)
  PROVE  HeapInv'
<1> DEFINE new == Alloc(heap, r, Reference(heap, i))
           R == held \cup lost
           added == IF copied THEN AddToObjectCS(new, o, n, r, TRUE) ELSE new
<1>1. /\ o \in Live /\ Unshared(o) /\ i \in Live /\ r \in Free
      /\ o \notin Freed([heap EXCEPT ![i].next = Nil], i)
      /\ heap' = [added EXCEPT ![r].stringIsConst = FALSE]
      /\ held' = held /\ lost' = IF copied THEN lost ELSE lost \cup {r}
  BY DEF AddItemReferenceToObject, Containers, Known
<1>2. /\ Good(new, R \cup {r}) /\ Named(new, lost) /\ DOMAIN new = Live \cup {r}
      /\ r \notin R /\ ~new[o].isReference /\ o \notin Freed(new, r) /\ new[r].string = NoName
  BY <1>1, NewReference
<1> HIDE DEF new
<1>3. CASE copied
  <2>1. Good(added, (R \cup {r}) \ {r}) /\ NamedAnew(new, added, r, n, TRUE, TRUE)
    <3>1. added = AddToObjectCS(new, o, n, r, TRUE)
      BY <1>3
    <3>2. o \in DOMAIN new /\ r \in R \cup {r} /\ TRUE \in BOOLEAN
      BY <1>1, <1>2
    <3> HIDE DEF added
    <3>3. QED
      BY <1>2, <3>1, <3>2, GoodAddToObjectCS
  <2> HIDE DEF added
  <2>2. r \in DOMAIN added /\ added[r].string = n /\ added[r].copied = TRUE
    BY <1>2, <2>1 DEF NamedAnew
  <2>3. Good(heap', (R \cup {r}) \ {r}) /\ NamedAnew(added, heap', r, n, TRUE, FALSE)
    BY <1>1, <2>1, <2>2, GoodFlag
  <2>4. (R \cup {r}) \ {r} = held' \cup lost' /\ held' \cap lost' = {} /\ lost' = lost
    BY <1>1, <1>2, <1>3 DEF HeapInv
  <2>5. Named(heap', lost')
    BY <1>2, <2>1, <2>3, <2>4 DEF Named, NamedAnew
  <2>6. QED
    BY <2>3, <2>4, <2>5 DEF HeapInv
<1>4. CASE ~copied
  <2>1. heap' = [new EXCEPT ![r].stringIsConst = FALSE]
    BY <1>1, <1>4
  <2>2. Good(heap', R \cup {r}) /\ NamedAnew(new, heap', r, new[r].string, new[r].copied, FALSE)
    <3>1. r \in DOMAIN new
      BY <1>2
    <3>2. QED
      BY <1>2, <2>1, <3>1, GoodFlag
  <2>3. R \cup {r} = held' \cup lost' /\ held' \cap lost' = {} /\ lost' = lost \cup {r}
    BY <1>1, <1>2, <1>4 DEF HeapInv
  <2>4. Named(heap', lost')
    BY <1>2, <2>2, <2>3 DEF Named, NamedAnew
  <2>5. QED
    BY <2>2, <2>3, <2>4 DEF HeapInv
<1>5. QED
  BY <1>3, <1>4

\* The copy of an item.
Copy(x, child, next, prev) ==
  [x EXCEPT !.isReference = FALSE, !.child = child, !.next = next, !.prev = prev,
            !.copied = x.string # NoName /\ ~x.stringIsConst]
IsCopy(y, x, child, next, prev) ==
  /\ y \in Item /\ ~y.isReference /\ y.child = child /\ y.next = next /\ y.prev = prev
  /\ y.string # NoName => (y.copied <=> ~y.stringIsConst)
\* It is no reference, has the links it is given, and owns its name if it copied it.
LEMMA CopyIs ==
  ASSUME NEW x \in Item, NEW child \in Items \cup {Nil}, NEW next \in Items \cup {Nil},
         NEW prev \in Items \cup {Nil}
  PROVE  IsCopy(Copy(x, child, next, prev), x, child, next, prev)
<1> DEFINE y == Copy(x, child, next, prev)
           c == x.string # NoName /\ ~x.stringIsConst
<1>0. c \in BOOLEAN
  OBVIOUS
<1>1. y \in Item
  <2> HIDE DEF c
  <2>1. y = [x EXCEPT !.isReference = FALSE, !.child = child, !.next = next, !.prev = prev, !.copied = c]
    BY DEF Copy, c
  <2> HIDE DEF y
  <2>2. QED
    BY <1>0, <2>1 DEF Item
<1>2. /\ y.isReference = FALSE /\ y.child = child /\ y.next = next /\ y.prev = prev
      /\ y.string = x.string /\ y.stringIsConst = x.stringIsConst
      /\ y.copied = (x.string # NoName /\ ~x.stringIsConst)
  BY DEF Copy, Item
<1> HIDE DEF y
<1>3. y.string # NoName => (y.copied <=> ~y.stringIsConst)
  BY <1>2
<1>4. QED
  BY <1>1, <1>2, <1>3, Zenon DEF IsCopy, y

\* cJSON_Duplicate.
LEMMA DuplicateKeeps ==
  ASSUME HeapInv, NEW i \in Live, NEW recurse \in BOOLEAN, NEW f,
         f \in Injections(Places(i, recurse), Free), Duplicate(i, recurse, f)
  PROVE  HeapInv'
<1> DEFINE P == DOMAIN f
           E == {f[p] : p \in P}
           k == [y \in E |-> heap'[y]]
           which(y) == CHOOSE p \in P : f[p] = y
           item(p) == heap[Last(p)]
           child(p) == CopyAt(f, P, Ext(p, item(p).child))
           next(p) == CopyAt(f, P, Ext(Front(p), item(p).next))
           prev(p) == CopyAt(f, P, Ext(Front(p), item(p).prev))
           copy(p) == Copy(item(p), child(p), next(p), prev(p))
<1>1. /\ P = Places(i, recurse) /\ \A p \in P : f[p] \in Items \ DOMAIN heap
      /\ \A p, q \in P : f[p] = f[q] => p = q
      /\ f \in Injections(P, Items)
  BY DEF Injections, Free, Live
<1>2. /\ heap' = [y \in Live \cup E |-> IF y \in Live THEN heap[y] ELSE copy(which(y))]
      /\ held' = held \cup {f[<<i>>]} /\ lost' = lost
  BY Zenon DEF Duplicate, Copy, CopyAt, Ext
<1>3. Good(heap, held \cup lost) /\ i \in DOMAIN heap /\ Points(heap)
  BY GoodPoints DEF HeapInv, Good, Live
<1>4. WaysFrom(P, heap, i)
  BY <1>1, <1>3, PlacesAre
<1> HIDE DEF P
<1>5. ASSUME NEW p \in P PROVE k[f[p]] = copy(p) /\ f[p] \in E
  <2>1. which(f[p]) = p
    BY <1>1
  <2>2. f[p] \in E /\ f[p] \notin Live
    BY <1>1 DEF Live
  <2> HIDE DEF copy, which
  <2>3. heap'[f[p]] = copy(p)
    BY <1>2, <2>1, <2>2
  <2> HIDE DEF E
  <2>4. QED
    BY <2>2, <2>3
<1>6. ASSUME NEW p \in P PROVE IsCopy(k[f[p]], item(p), child(p), next(p), prev(p))
  <2>1. \A q : CopyAt(f, P, q) \in Items \cup {Nil}
    BY <1>1 DEF CopyAt
  <2>2. Last(p) \in DOMAIN heap
    BY <1>4, WayParts DEF WaysFrom
  <2>3. item(p) \in Item
    BY <1>3, <2>2 DEF Good, Typed
  <2>4. child(p) \in Items \cup {Nil} /\ next(p) \in Items \cup {Nil} /\ prev(p) \in Items \cup {Nil}
    BY <2>1
  <2>5. k[f[p]] = Copy(item(p), child(p), next(p), prev(p))
    BY <1>5
  <2> HIDE DEF k, item, child, next, prev
  <2>6. QED
    BY <2>3, <2>4, <2>5, CopyIs
<1>7. DOMAIN k = E
  OBVIOUS
<1>8. DOMAIN heap' = DOMAIN heap \cup E /\ \A x \in DOMAIN heap : heap'[x] = heap[x]
  BY <1>2 DEF Live
<1>9. DOMAIN heap \cap E = {}
  BY <1>1
<1>10. \A x \in E : heap'[x] = k[x]
  OBVIOUS
<1> HIDE DEF k
<1>11. CopiesOf(k, heap, P, f)
  BY <1>6, <1>7 DEF CopiesOf, IsCopy
<1>12. Typed(k)
  <2>1. \A p \in P : k[f[p]] \in Item /\ f[p] \in Items
    BY <1>1, <1>6 DEF IsCopy
  <2>2. QED
    BY <1>7, <2>1 DEF Typed
<1>13. \A x \in E : k[x].string # NoName => (k[x].copied <=> ~k[x].stringIsConst)
  BY <1>6 DEF IsCopy
<1> HIDE DEF E
<1>14. Good(k, {f[<<i>>]})
  BY <1>1, <1>3, <1>4, <1>11, <1>12, GoodCopies
<1>15. Good(heap', (held \cup lost) \cup {f[<<i>>]})
  BY <1>3, <1>7, <1>8, <1>9, <1>10, <1>14, GoodUnion
<1>16. (held \cup lost) \cup {f[<<i>>]} = held' \cup lost'
  BY <1>2
<1>17. held' \cap lost' = {}
  <2>1. f[<<i>>] \notin DOMAIN heap
    BY <1>1, <1>4 DEF WaysFrom
  <2>2. QED
    BY <1>2, <2>1 DEF HeapInv, Good, Rooted
<1>18. Named(heap', lost')
  <2>1. ASSUME NEW x \in DOMAIN heap' \ lost', heap'[x].string # NoName
        PROVE  heap'[x].copied <=> ~heap'[x].stringIsConst
    <3>1. CASE x \in E
      BY <1>10, <1>13, <2>1, <3>1, Zenon
    <3>2. CASE x \in DOMAIN heap
      <4>1. x \in DOMAIN heap \ lost /\ heap'[x] = heap[x]
        BY <1>2, <1>8, <2>1, <3>2, Zenon
      <4>2. QED
        BY <2>1, <4>1, Zenon DEF HeapInv, Named
    <3>3. QED
      BY <1>8, <2>1, <3>1, <3>2, Zenon
  <2>2. QED
    BY <2>1, Zenon DEF Named
<1>19. QED
  BY <1>15, <1>16, <1>17, <1>18 DEF HeapInv

\* Every call keeps the invariant.
LEMMA NextKeeps ==
  ASSUME HeapInv, Next
  PROVE  HeapInv'
<1>1. ASSUME NEW i \in Items, NEW t \in Kinds, Create(i, t) PROVE HeapInv'
  BY <1>1, CreateKeeps
<1>2. ASSUME NEW count \in 0 .. MaxCount, NEW at \in Injections(0 .. count, Free), CreateArrayOf(count, at)
      PROVE  HeapInv'
  BY <1>2, CreateArrayOfKeeps, MaxCountAssumption
<1>3. IsFiniteSet(DOMAIN heap)
  BY GoodPoints DEF HeapInv, Good, Points
<1>4. Index(heap) \subseteq Nat
  BY DEF Index
<1>5. Known \subseteq Live /\ \A t : Containers(t) \subseteq Live
  BY DEF Known, Containers
<1>6. ASSUME NEW a, NEW i, AddItemToArray(a, i) PROVE HeapInv'
  BY <1>6, AddItemToArrayKeeps
<1>7. ASSUME NEW a, NEW i, NEW r, AddItemReferenceToArray(a, i, r) PROVE HeapInv'
  BY <1>7, AddItemReferenceToArrayKeeps
<1>8. ASSUME NEW a, NEW w \in Index(heap), DetachItemFromArray(a, w) \/ DeleteItemFromArray(a, w)
      PROVE  HeapInv'
  <2>1. PICK i : i = GetArrayItem(heap, a, w)
    OBVIOUS
  <2>2. a \in Live /\ Unshared(a) /\ i # Nil /\ lost' = lost
    BY <1>5, <1>8, <2>1 DEF DetachItemFromArray, DeleteItemFromArray
  <2>3. \/ heap' = DetachViaPointer(heap, a, i) /\ held' = held \cup {i}
        \/ /\ Deletable(DetachViaPointer(heap, a, i), i)
           /\ heap' = Delete(DetachViaPointer(heap, a, i), i) /\ held' = held
    BY <1>8, <2>1 DEF DetachItemFromArray, DeleteItemFromArray
  <2>4. w \in Nat
    BY <1>4
  <2>5. QED
    BY <2>1, <2>2, <2>3, <2>4, DetachKeeps
<1>9. ASSUME NEW a, NEW w \in Index(heap), NEW i, InsertItemInArray(a, w, i) PROVE HeapInv'
  BY <1>4, <1>9, InsertItemInArrayKeeps
<1>10. ASSUME NEW a, NEW w \in Index(heap), NEW i, ReplaceItemInArray(a, w, i) PROVE HeapInv'
  BY <1>4, <1>10, ReplaceItemInArrayKeeps
<1>11. ASSUME NEW o, NEW n \in Names, NEW i, NEW copied \in BOOLEAN, AddItemToObject(o, n, i, copied)
       PROVE  HeapInv'
  BY <1>11, AddItemToObjectKeeps
<1>12. ASSUME NEW o, NEW n \in Names, NEW i, AddItemToObjectCS(o, n, i) PROVE HeapInv'
  BY <1>12, AddItemToObjectCSKeeps
<1>13. ASSUME NEW o, NEW n \in Names, NEW i, NEW r, NEW copied \in BOOLEAN,
              AddItemReferenceToObject(o, n, i, r, copied)
       PROVE  HeapInv'
  BY <1>13, AddItemReferenceToObjectKeeps
<1>14. ASSUME NEW o, NEW n \in Names, NEW cs \in BOOLEAN,
              DetachItemFromObject(o, n, cs) \/ DeleteItemFromObject(o, n, cs)
       PROVE  HeapInv'
  <2>1. PICK i : i = GetObjectItem(heap, o, n, cs)
    OBVIOUS
  <2>2. o \in Live /\ Unshared(o) /\ i # Nil /\ lost' = lost
    BY <1>5, <1>14, <2>1 DEF DetachItemFromObject, DeleteItemFromObject
  <2>3. \/ heap' = DetachViaPointer(heap, o, i) /\ held' = held \cup {i}
        \/ /\ Deletable(DetachViaPointer(heap, o, i), i)
           /\ heap' = Delete(DetachViaPointer(heap, o, i), i) /\ held' = held
    BY <1>14, <2>1 DEF DetachItemFromObject, DeleteItemFromObject
  <2>4. PICK w \in Nat : i = GetArrayItem(heap, o, w)
    BY <1>3, <2>1, <2>2, ObjectItem
  <2>5. QED
    BY <2>2, <2>3, <2>4, DetachKeeps
<1>15. ASSUME NEW o, NEW n \in Names, NEW i, NEW cs \in BOOLEAN, NEW copied \in BOOLEAN,
              ReplaceItemInObject(o, n, i, cs, copied)
       PROVE  HeapInv'
  BY <1>15, ReplaceItemInObjectKeeps
<1>16. ASSUME NEW i \in Known, NEW recurse \in BOOLEAN,
              NEW f \in Injections(Places(i, recurse), Free), Duplicate(i, recurse, f)
       PROVE  HeapInv'
  BY <1>5, <1>16, DuplicateKeeps
<1>17. ASSUME NEW i \in held, DeleteItem(i) PROVE HeapInv'
  BY <1>17, DeleteItemKeeps
<1>18. QED
  BY <1>1, <1>2, <1>6, <1>7, <1>8, <1>9, <1>10, <1>11, <1>12, <1>13, <1>14, <1>15, <1>16, <1>17 DEF Next

\* Nothing is allocated at first.
LEMMA InitGood ==
  ASSUME Init
  PROVE  HeapInv
<1>1. DOMAIN heap = {} /\ held = {} /\ lost = {}
  BY DEF Init
<1>2. QED
  BY <1>1 DEF HeapInv, Good, Typed, Linked, Single, Rooted, Ruled, Grounded, Named

\* Whatever calls the caller makes within the contract, the heap stays a forest of lists
\* with one owner each, and flags of names are right.
THEOREM Invariance == Spec => []HeapInv
<1>1. Init => HeapInv
  BY InitGood
<1>2. HeapInv /\ [Next]_vars => HeapInv'
  <2> SUFFICES ASSUME HeapInv, [Next]_vars PROVE HeapInv'
    OBVIOUS
  <2>1. CASE Next
    BY <2>1, NextKeeps
  <2>2. CASE UNCHANGED vars
    BY <2>2 DEF vars, HeapInv
  <2>3. QED
    BY <2>1, <2>2
<1>3. QED
  BY <1>1, <1>2, PTL DEF Spec

-----------------------------------------------------------------------------
(* What follows from it.                                                   *)

\* The members of every container form one list, linked both ways: ListsLinked holds
\* whatever calls the caller makes, on any number of items.
THEOREM ListsAlwaysLinked == Spec => []ListsLinked
<1>1. HeapInv => ListsLinked
  BY DEF HeapInv, Good, Typed, Linked, Rooted, ListsLinked, TypeOK, Live
<1>2. QED
  BY <1>1, Invariance, PTL

\* The flag of a name is right on every item that was not lost: cJSON_Delete frees the
\* names that are the library's own and no others.
THEOREM NamesAlwaysFreedRight == Spec => []NamesFreedRight
<1>1. HeapInv => NamesFreedRight
  BY DEF HeapInv, Named, NamesFreedRight, Live
<1>2. QED
  BY <1>1, Invariance, PTL

\* A set with at most one element.
LEMMA AtMostOne ==
  ASSUME NEW S, \A x, y \in S : x = y
  PROVE  /\ S = {} => Cardinality(S) = 0
         /\ S # {} => Cardinality(S) = 1
<1>1. S = {} => Cardinality(S) = 0
  BY FS_EmptySet
<1>2. ASSUME S # {} PROVE Cardinality(S) = 1
  <2>1. PICK x : S = {x}
    BY <1>2
  <2>2. QED
    BY <2>1, FS_Singleton
<1>3. QED
  BY <1>1, <1>2

\* What leads to an item, or holds it, is one thing.
LEMMA OneOwner ==
  ASSUME HeapInv, NEW i \in Live
  PROVE  Cardinality({x \in Live : heap[x].next = i})
           + Cardinality({x \in Live : ~heap[x].isReference /\ heap[x].child = i})
           + (IF i \in held THEN 1 ELSE 0) + (IF i \in lost THEN 1 ELSE 0) = 1
<1> DEFINE A == {x \in Live : heap[x].next = i}
           B == {x \in Live : ~heap[x].isReference /\ heap[x].child = i}
<1>1. /\ Good(heap, held \cup lost) /\ held \cap lost = {} /\ Live = DOMAIN heap
      /\ Nil \notin Live /\ i # Nil
  BY NilAssumption DEF HeapInv, Good, Typed, Live
<1>2. A # {} <=> heap[i].prev # Nil
  BY <1>1 DEF Good, Linked
<1>3. \A x, y \in A : x = y
  BY <1>1 DEF Good, Linked
<1>4. \A x, y \in B : x = y
  BY <1>1 DEF Good, Single
<1>5. B # {} => heap[i].prev = Nil
  BY <1>1 DEF Good, Linked
<1>6. i \in held \cup lost => heap[i].prev = Nil /\ B = {}
  BY <1>1 DEF Good, Rooted
<1>7. i \notin held \cup lost => heap[i].prev # Nil \/ B # {}
  BY <1>1 DEF Good, Ruled
<1> HIDE DEF A, B
<1>8. /\ A = {} => Cardinality(A) = 0
      /\ A # {} => Cardinality(A) = 1
  BY <1>3, AtMostOne
<1>9. /\ B = {} => Cardinality(B) = 0
      /\ B # {} => Cardinality(B) = 1
  BY <1>4, AtMostOne
<1>10. Cardinality(A) + Cardinality(B) + (IF i \in held THEN 1 ELSE 0) + (IF i \in lost THEN 1 ELSE 0) = 1
  <2>1. CASE i \in held
    <3>1. A = {} /\ B = {} /\ i \notin lost
      BY <1>1, <1>2, <1>6, <2>1
    <3>2. QED
      BY <1>8, <1>9, <2>1, <3>1
  <2>2. CASE i \in lost
    <3>1. A = {} /\ B = {} /\ i \notin held
      BY <1>1, <1>2, <1>6, <2>2
    <3>2. QED
      BY <1>8, <1>9, <2>2, <3>1
  <2>3. CASE i \notin held /\ i \notin lost
    <3>1. (A = {} /\ B # {}) \/ (A # {} /\ B = {})
      BY <1>2, <1>5, <1>7, <2>3
    <3>2. QED
      BY <1>8, <1>9, <2>3, <3>1
  <2>4. QED
    BY <2>1, <2>2, <2>3
<1>11. QED
  BY <1>10 DEF A, B

\* Deleting all that is held or lost leaves nothing: what it leaves would have no item
\* to which none of the others leads.
LEMMA NothingLeft ==
  ASSUME HeapInv
  PROVE  Live = UNION {Freed(heap, r) : r \in held \cup lost}
<1> DEFINE R == held \cup lost
           U == UNION {Freed(heap, r) : r \in R}
           S == Live \ U
<1>1. Good(heap, R) /\ Points(heap) /\ Live = DOMAIN heap /\ R \subseteq Live /\ Nil \notin Live
  BY GoodPoints DEF HeapInv, Good, Live, Rooted, Points
<1>2. \A r \in R : r \in Freed(heap, r) /\ Freed(heap, r) \subseteq Live /\ Keeps(heap, Freed(heap, r))
  BY <1>1, FreedIs
<1>3. U \subseteq Live /\ R \subseteq U
  BY <1>2
<1>4. \A x \in U, y \in Live : Leads(heap, x, y) => y \in U
  BY <1>1, <1>2 DEF Keeps
<1> HIDE DEF R, U
<1>5. S = {}
  <2> SUFFICES ASSUME S # {} PROVE FALSE
    OBVIOUS
  <2>1. PICK x \in S : \A y \in S : ~Leads(heap, y, x)
    BY <1>1 DEF Good, Grounded
  <2>2. x \in Live /\ x \notin R
    BY <1>3
  <2>3. \E y \in Live : Leads(heap, y, x)
    <3>1. CASE heap[x].prev # Nil
      <4>1. heap[x].prev \in Live /\ Leads(heap, heap[x].prev, x)
        BY <1>1, <2>2, <3>1 DEF Good, Linked, Leads
      <4>2. QED
        BY <4>1
    <3>2. CASE heap[x].prev = Nil
      BY <1>1, <2>2, <3>2 DEF Good, Ruled, Leads
    <3>3. QED
      BY <3>1, <3>2
  <2>4. PICK y \in Live : Leads(heap, y, x)
    BY <2>3
  <2>5. y \notin U
    BY <1>4, <2>4
  <2>6. QED
    BY <2>1, <2>4, <2>5
<1>6. QED
  BY <1>3, <1>5 DEF R, U

\* Every item has exactly one owner, and deleting what is held or lost leaves nothing:
\* cJSON_Delete frees every item once, whatever lists and references were built before.
THEOREM AlwaysOwnedOnce == Spec => []OwnedOnce
<1>1. HeapInv => OwnedOnce
  BY OneOwner, NothingLeft DEF OwnedOnce
<1>2. QED
  BY <1>1, Invariance, PTL

-----------------------------------------------------------------------------
(* The list of a container as a sequence.                                  *)

\* The members of a container of a heap; Members is this for the present heap.
MembersOf(h, i) ==
  IF h[i].isReference THEN <<>>
  ELSE LET n == Cardinality({w \in Index(h) : GetArrayItem(h, i, w) # Nil})
       IN  [k \in 1..n |-> GetArrayItem(h, i, k - 1)]

\* s is the list of a, from its first member to its last.
IsList(h, a, s) ==
  /\ s \in Seq(DOMAIN h)
  /\ h[a].child = IF Len(s) = 0 THEN Nil ELSE s[1]
  /\ \A k \in 1 .. Len(s) : h[s[k]].next = IF k = Len(s) THEN Nil ELSE s[k + 1]

\* The walk of get_array_item has its members, one after the other, and then NULL.
LEMMA WalkEnds ==
  ASSUME NEW h, NEW R, Good(h, R), NEW a \in DOMAIN h, ~h[a].isReference
  PROVE  \E m \in Nat : /\ \A n \in Nat : GetArrayItem(h, a, n) # Nil <=> n < m
                        /\ m <= Cardinality(DOMAIN h) + 1
<1> DEFINE w(n) == GetArrayItem(h, a, n)
<1>1. Points(h)
  BY GoodPoints DEF Good
<1>2. w(0) = h[a].child /\ \A n \in Nat : w(n + 1) = IF w(n) = Nil THEN Nil ELSE h[w(n)].next
  BY <1>1, WalkSteps
<1>3. Cardinality(DOMAIN h) \in Nat /\ Index(h) = 0 .. Cardinality(DOMAIN h)
  BY <1>1, FS_CardinalityType DEF Points, Index
<1>4. \E m \in Nat : w(m) = Nil /\ m <= Cardinality(DOMAIN h) + 1
  <2>1. CASE h[a].child = Nil
    BY <1>2, <1>3, <2>1
  <2>2. CASE h[a].child # Nil
    <3>1. PICK n \in Index(h) : w(n) # Nil /\ h[w(n)].next = Nil
      BY <2>2, LastMember
    <3> HIDE DEF w
    <3>2. n \in Nat /\ n + 1 \in Nat /\ n + 1 <= Cardinality(DOMAIN h) + 1
      BY <1>3
    <3>3. w(n + 1) = Nil
      BY <1>2, <3>1, <3>2
    <3>4. QED
      BY <3>2, <3>3
  <2>3. QED
    BY <2>1, <2>2
<1> HIDE DEF w
<1> DEFINE T == {m \in Nat : w(m) = Nil}
<1>5. PICK m \in T : \A n \in T : m <= n
  <2>1. T \subseteq Nat /\ T # {}
    BY <1>4
  <2>2. QED
    BY <2>1, LeastNumber
<1>6. m \in Nat /\ w(m) = Nil /\ m <= Cardinality(DOMAIN h) + 1
  <2>1. PICK n \in Nat : w(n) = Nil /\ n <= Cardinality(DOMAIN h) + 1
    BY <1>4
  <2>2. m <= n /\ m \in Nat /\ w(m) = Nil
    BY <1>5, <2>1
  <2>3. QED
    BY <1>3, <2>1, <2>2
<1>7. \A d \in Nat : w(m + d) = Nil
  <2> DEFINE Q == {d \in Nat : w(m + d) = Nil}
  <2>1. 0 \in Q
    BY <1>6
  <2>2. ASSUME NEW d \in Nat, d \in Q PROVE d + 1 \in Q
    <3>1. m + d \in Nat /\ m + (d + 1) = m + d + 1 /\ d + 1 \in Nat
      BY <1>6
    <3>2. w(m + d + 1) = Nil
      BY <1>2, <2>2, <3>1
    <3>3. QED
      BY <3>1, <3>2
  <2> HIDE DEF Q
  <2>3. \A d \in Nat : d \in Q
    BY <2>1, <2>2, SetInduction
  <2>4. QED
    BY <2>3 DEF Q
<1>8. ASSUME NEW n \in Nat PROVE w(n) # Nil <=> n < m
  <2>1. n < m => w(n) # Nil
    BY <1>5, <1>6
  <2>2. ~(n < m) => w(n) = Nil
    <3>1. ~(n < m) => n - m \in Nat /\ m + (n - m) = n
      BY <1>6
    <3>2. QED
      BY <1>7, <3>1
  <2>3. QED
    BY <2>1, <2>2
<1>9. QED
  BY <1>6, <1>8 DEF w

\* Members are in the sequence by their index.
LEMMA MembersAre ==
  ASSUME NEW h, NEW R, Good(h, R), NEW a \in DOMAIN h, ~h[a].isReference
  PROVE  /\ Len(MembersOf(h, a)) \in Nat
         /\ MembersOf(h, a) \in Seq(DOMAIN h \ R)
         /\ \A n \in Nat : GetArrayItem(h, a, n) # Nil <=> n < Len(MembersOf(h, a))
         /\ \A n \in Nat : n < Len(MembersOf(h, a)) => MembersOf(h, a)[n + 1] = GetArrayItem(h, a, n)
<1> DEFINE w(n) == GetArrayItem(h, a, n)
           N == Cardinality(DOMAIN h)
           s == MembersOf(h, a)
<1>1. PICK m \in Nat : (\A n \in Nat : w(n) # Nil <=> n < m) /\ m <= N + 1
  BY WalkEnds
<1>2. N \in Nat /\ Index(h) = 0 .. N
  BY GoodPoints, FS_CardinalityType DEF Good, Points, Index
<1>3. \A n \in Nat : w(n) # Nil => w(n) \in DOMAIN h \ R
  BY MemberOf
<1>4. s = [k \in 1 .. Cardinality({n \in Index(h) : w(n) # Nil}) |-> w(k - 1)]
  BY DEF MembersOf
<1> HIDE DEF w, N, s
<1>5. {n \in Index(h) : w(n) # Nil} = 0 .. m - 1
  BY <1>1, <1>2
<1>6. Cardinality(0 .. m - 1) = m
  BY <1>1, FS_Interval
<1>7. s = [k \in 1 .. m |-> w(k - 1)]
  BY <1>4, <1>5, <1>6
<1>8. \A k \in 1 .. m : k - 1 \in Nat /\ k - 1 < m /\ w(k - 1) \in DOMAIN h \ R
  BY <1>1, <1>3
<1>9. s \in Seq(DOMAIN h \ R) /\ Len(s) = m
  BY <1>7, <1>8
<1>10. ASSUME NEW n \in Nat, n < m PROVE s[n + 1] = w(n)
  <2>1. n + 1 \in 1 .. m /\ n + 1 - 1 = n
    BY <1>10
  <2>2. QED
    BY <1>7, <2>1
<1>11. QED
  BY <1>1, <1>9, <1>10 DEF s, w

\* The sequence is the list.
LEMMA MembersList ==
  ASSUME NEW h, NEW R, Good(h, R), NEW a \in DOMAIN h, ~h[a].isReference
  PROVE  IsList(h, a, MembersOf(h, a))
<1> DEFINE w(n) == GetArrayItem(h, a, n)
           s == MembersOf(h, a)
<1>1. /\ Len(s) \in Nat /\ s \in Seq(DOMAIN h \ R)
      /\ \A n \in Nat : w(n) # Nil <=> n < Len(s)
      /\ \A n \in Nat : n < Len(s) => s[n + 1] = w(n)
  BY MembersAre
<1>2. w(0) = h[a].child /\ \A n \in Nat : w(n + 1) = IF w(n) = Nil THEN Nil ELSE h[w(n)].next
  BY GoodPoints, WalkSteps DEF Good
<1> HIDE DEF w, s
<1>1a. Len(s) \in Nat
  BY <1>1
<1>3. s \in Seq(DOMAIN h)
  BY <1>1, SeqMonotonic
<1>4. h[a].child = IF Len(s) = 0 THEN Nil ELSE s[1]
  <2>1. 0 < Len(s) => s[0 + 1] = w(0)
    BY <1>1
  <2>2. QED
    BY <1>1, <1>2, <2>1
<1>5. ASSUME NEW k \in 1 .. Len(s)
      PROVE  h[s[k]].next = IF k = Len(s) THEN Nil ELSE s[k + 1]
  <2>1. k - 1 \in Nat /\ k - 1 < Len(s) /\ k - 1 + 1 = k /\ k \in Nat
    BY <1>1a
  <2>1a. k - 1 < Len(s) => s[k - 1 + 1] = w(k - 1)
    BY <1>1, <2>1
  <2>2. s[k] = w(k - 1) /\ w(k - 1) # Nil
    BY <1>1, <2>1, <2>1a
  <2>3. w(k) = h[w(k - 1)].next
    BY <1>2, <2>1, <2>2
  <2>4. k < Len(s) => s[k + 1] = w(k)
    BY <1>1, <2>1
  <2>5. ~(k < Len(s)) => w(k) = Nil
    BY <1>1, <2>1
  <2>6. k # Len(s) <=> k < Len(s)
    BY <1>1
  <2>7. QED
    BY <2>2, <2>3, <2>4, <2>5, <2>6
<1>6. QED
  BY <1>3, <1>4, <1>5 DEF IsList, s

\* A list is no longer than another one of the same container, and starts like it.
LEMMA ListStarts ==
  ASSUME NEW h, Nil \notin DOMAIN h, NEW a, NEW s, IsList(h, a, s), NEW t, IsList(h, a, t)
  PROVE  \A k \in 1 .. Len(s) : k <= Len(t) /\ s[k] = t[k]
<1>1. Len(s) \in Nat /\ Len(t) \in Nat
  BY LenProperties DEF IsList
<1>2. \A k \in 1 .. Len(s) : s[k] # Nil
  BY ElementOfSeq DEF IsList
<1>3. /\ h[a].child = IF Len(s) = 0 THEN Nil ELSE s[1]
      /\ h[a].child = IF Len(t) = 0 THEN Nil ELSE t[1]
      /\ \A k \in 1 .. Len(s) : h[s[k]].next = IF k = Len(s) THEN Nil ELSE s[k + 1]
      /\ \A k \in 1 .. Len(t) : h[t[k]].next = IF k = Len(t) THEN Nil ELSE t[k + 1]
  BY DEF IsList
<1> DEFINE Q == {k \in Nat : k + 1 <= Len(s) => k + 1 <= Len(t) /\ s[k + 1] = t[k + 1]}
<1>4. 0 \in Q
  <2> SUFFICES ASSUME 1 <= Len(s) PROVE 1 <= Len(t) /\ s[1] = t[1]
    OBVIOUS
  <2>1. 1 \in 1 .. Len(s) /\ Len(s) # 0
    BY <1>1
  <2>2. Len(t) # 0 /\ s[1] = t[1]
    BY <1>2, <1>3, <2>1
  <2>3. QED
    BY <1>1, <2>2
<1>5. ASSUME NEW k \in Nat, k \in Q PROVE k + 1 \in Q
  <2> SUFFICES ASSUME k + 1 + 1 <= Len(s) PROVE k + 1 + 1 <= Len(t) /\ s[k + 1 + 1] = t[k + 1 + 1]
    OBVIOUS
  <2>1. /\ k + 1 \in 1 .. Len(s) /\ k + 1 # Len(s) /\ k + 1 <= Len(s) /\ k + 1 + 1 \in 1 .. Len(s)
    BY <1>1
  <2>2. k + 1 <= Len(t) /\ s[k + 1] = t[k + 1]
    BY <1>5, <2>1
  <2>3. k + 1 \in 1 .. Len(t)
    BY <1>1, <2>2
  <2>4. s[k + 1 + 1] # Nil /\ h[s[k + 1]].next = s[k + 1 + 1]
    BY <1>2, <1>3, <2>1
  <2>5. h[t[k + 1]].next = IF k + 1 = Len(t) THEN Nil ELSE t[k + 1 + 1]
    BY <1>3, <2>3
  <2>6. k + 1 # Len(t) /\ s[k + 1 + 1] = t[k + 1 + 1]
    BY <2>2, <2>4, <2>5
  <2>7. QED
    BY <1>1, <2>2, <2>6
<1> HIDE DEF Q
<1>6. \A k \in Nat : k \in Q
  BY <1>4, <1>5, SetInduction
<1>7. ASSUME NEW k \in 1 .. Len(s) PROVE k <= Len(t) /\ s[k] = t[k]
  <2>1. k - 1 \in Nat /\ k - 1 + 1 = k /\ k <= Len(s)
    BY <1>1
  <2>2. k - 1 \in Q
    BY <1>6, <2>1
  <2>3. QED
    BY <2>1, <2>2 DEF Q
<1>8. QED
  BY <1>7

\* A container has one list.
LEMMA ListUnique ==
  ASSUME NEW h, Nil \notin DOMAIN h, NEW a, NEW s, IsList(h, a, s), NEW t, IsList(h, a, t)
  PROVE  s = t
<1>1. s \in Seq(DOMAIN h) /\ t \in Seq(DOMAIN h)
  BY DEF IsList
<1>2. Len(s) \in Nat /\ Len(t) \in Nat
  BY <1>1, LenProperties
<1>3. /\ \A k \in 1 .. Len(s) : k <= Len(t) /\ s[k] = t[k]
      /\ \A k \in 1 .. Len(t) : k <= Len(s) /\ t[k] = s[k]
  BY ListStarts
<1>4. Len(s) <= Len(t) /\ Len(t) <= Len(s)
  <2>1. Len(s) # 0 => Len(s) \in 1 .. Len(s)
    BY <1>2
  <2>2. Len(t) # 0 => Len(t) \in 1 .. Len(t)
    BY <1>2
  <2>3. QED
    BY <1>2, <1>3, <2>1, <2>2
<1>5. Len(s) = Len(t)
  BY <1>2, <1>4
<1>6. QED
  BY <1>1, <1>3, <1>5, SeqEqual

\* The k-th member of the list s has the one before it as its predecessor.
BackAt(h, s, k) ==
  /\ s[k] \in DOMAIN h /\ s[k] # Nil
  /\ k = 1 => h[s[k]].prev = Nil
  /\ k # 1 => k - 1 \in 1 .. Len(s) /\ h[s[k]].prev = s[k - 1] /\ s[k - 1] # Nil

\* The members of a list have their predecessors.
LEMMA ListBack ==
  ASSUME NEW h, NEW R, Good(h, R), NEW a \in DOMAIN h, NEW s, IsList(h, a, s), NEW k \in 1 .. Len(s)
  PROVE  BackAt(h, s, k)
<1>0. Len(s) \in Nat
  BY LenProperties DEF IsList
<1>1. s[k] \in DOMAIN h /\ s[k] # Nil
  BY ElementOfSeq, NilAssumption DEF IsList, Good, Typed
<1>2. CASE k = 1
  <2>1. h[a].child = s[1]
    BY <1>0, <1>2 DEF IsList
  <2>2. h[s[1]].prev = Nil
    BY <1>1, <1>2, <2>1 DEF Good, Linked
  <2>3. QED
    BY <1>1, <1>2, <2>2 DEF BackAt
<1>3. CASE k # 1
  <2>1. k - 1 \in 1 .. Len(s) /\ k - 1 # Len(s) /\ k - 1 + 1 = k
    BY <1>0, <1>3
  <2>2. s[k - 1] \in DOMAIN h /\ s[k - 1] # Nil
    BY <2>1, ElementOfSeq, NilAssumption DEF IsList, Good, Typed
  <2>3. h[s[k - 1]].next = s[k]
    BY <2>1 DEF IsList
  <2>4. h[s[k]].prev = s[k - 1]
    BY <1>1, <2>2, <2>3 DEF Good, Linked
  <2>5. QED
    BY <1>1, <1>3, <2>1, <2>2, <2>4 DEF BackAt
<1>4. QED
  BY <1>2, <1>3

\* An item is in one list, at one place.
LEMMA OnePlace ==
  ASSUME NEW h, NEW R, Good(h, R), NEW a \in DOMAIN h, ~h[a].isReference, NEW s, IsList(h, a, s),
         NEW c \in DOMAIN h, ~h[c].isReference, NEW t, IsList(h, c, t)
  PROVE  \A j \in 1 .. Len(s), k \in 1 .. Len(t) : s[j] = t[k] => a = c /\ j = k
<1>0. Len(s) \in Nat /\ Len(t) \in Nat
  BY LenProperties DEF IsList
<1>1. \A j \in 1 .. Len(s) : BackAt(h, s, j)
  BY ListBack
<1>2. \A k \in 1 .. Len(t) : BackAt(h, t, k)
  BY ListBack
<1>3. /\ Len(s) # 0 => h[a].child = s[1]
      /\ Len(t) # 0 => h[c].child = t[1]
  BY DEF IsList
<1> DEFINE Q == {j \in Nat : j + 1 \in 1 .. Len(s) =>
                   \A k \in 1 .. Len(t) : s[j + 1] = t[k] => a = c /\ j + 1 = k}
<1>4. 0 \in Q
  <2> SUFFICES ASSUME 1 \in 1 .. Len(s), NEW k \in 1 .. Len(t), s[1] = t[k] PROVE a = c /\ 1 = k
    OBVIOUS
  <2>0. BackAt(h, s, 1) /\ BackAt(h, t, k)
    BY <1>1, <1>2
  <2>1. k = 1
    BY <2>0 DEF BackAt
  <2>2. Len(s) # 0 /\ Len(t) # 0
    BY <1>0, <2>1
  <2>3. h[a].child = h[c].child /\ h[a].child # Nil
    BY <1>3, <2>0, <2>1, <2>2 DEF BackAt
  <2>4. a = c
    BY <2>3 DEF Good, Single
  <2>5. QED
    BY <2>1, <2>4
<1>5. ASSUME NEW j \in Nat, j \in Q PROVE j + 1 \in Q
  <2> SUFFICES ASSUME j + 1 + 1 \in 1 .. Len(s), NEW k \in 1 .. Len(t), s[j + 1 + 1] = t[k]
               PROVE  a = c /\ j + 1 + 1 = k
    OBVIOUS
  <2>1. j + 1 \in 1 .. Len(s) /\ j + 1 + 1 # 1 /\ j + 1 + 1 - 1 = j + 1
    BY <1>0
  <2>a. BackAt(h, s, j + 1 + 1) /\ BackAt(h, t, k)
    BY <1>1, <1>2
  <2>2. h[t[k]].prev = s[j + 1] /\ s[j + 1] # Nil
    BY <2>1, <2>a DEF BackAt
  <2>3. k # 1 /\ t[k - 1] = s[j + 1] /\ k - 1 \in 1 .. Len(t)
    BY <2>2, <2>a DEF BackAt
  <2>4. a = c /\ j + 1 = k - 1
    BY <1>5, <2>1, <2>3
  <2>5. QED
    BY <1>0, <2>4
<1> HIDE DEF Q
<1>6. \A j \in Nat : j \in Q
  BY <1>4, <1>5, SetInduction
<1>7. ASSUME NEW j \in 1 .. Len(s), NEW k \in 1 .. Len(t), s[j] = t[k] PROVE a = c /\ j = k
  <2>1. j - 1 \in Nat /\ j - 1 + 1 = j
    BY <1>0
  <2>2. j - 1 \in Q
    BY <1>6, <2>1
  <2>3. QED
    BY <1>7, <2>1, <2>2 DEF Q
<1>8. QED
  BY <1>7

\* What is a list of a container is the sequence of its members.
LEMMA ListIsMembers ==
  ASSUME NEW h, NEW R, Good(h, R), NEW a \in DOMAIN h, ~h[a].isReference, NEW s, IsList(h, a, s)
  PROVE  MembersOf(h, a) = s
<1>1. Nil \notin DOMAIN h
  BY NilAssumption DEF Good, Typed
<1>2. IsList(h, a, MembersOf(h, a))
  BY MembersList
<1>3. QED
  BY <1>1, <1>2, ListUnique

-----------------------------------------------------------------------------
(* What the steps on a heap do to the sequences.                           *)

\* The sequences of all containers: what the refinement takes for kids.
KidsOf(h) == [i \in DOMAIN h |-> MembersOf(h, i)]

\* g has the items of h with their links, and perhaps others.
Extends(h, g) ==
  /\ DOMAIN h \subseteq DOMAIN g
  /\ \A x \in DOMAIN h : /\ g[x].next = h[x].next /\ g[x].child = h[x].child
                         /\ g[x].isReference = h[x].isReference

\* Then they have the same members in both.
LEMMA MembersExtend ==
  ASSUME NEW h, NEW R, Good(h, R), NEW g, NEW Q, Good(g, Q), Extends(h, g)
  PROVE  \A x \in DOMAIN h : x \in DOMAIN g /\ MembersOf(g, x) = MembersOf(h, x)
<1> SUFFICES ASSUME NEW x \in DOMAIN h PROVE x \in DOMAIN g /\ MembersOf(g, x) = MembersOf(h, x)
  OBVIOUS
<1>1. /\ x \in DOMAIN g /\ g[x].child = h[x].child /\ g[x].isReference = h[x].isReference
      /\ DOMAIN h \subseteq DOMAIN g /\ \A y \in DOMAIN h : g[y].next = h[y].next
  BY DEF Extends
<1>2. CASE h[x].isReference
  <2>1. g[x].isReference
    BY <1>1, <1>2
  <2>2. QED
    BY <1>1, <1>2, <2>1 DEF MembersOf
<1>3. CASE ~h[x].isReference
  <2>1. PICK s : s = MembersOf(h, x)
    OBVIOUS
  <2>2. IsList(h, x, s)
    BY <1>3, <2>1, MembersList
  <2>3. s \in Seq(DOMAIN h) /\ s \in Seq(DOMAIN g)
    BY <1>1, <2>2, SeqMonotonic DEF IsList
  <2>4. \A k \in 1 .. Len(s) : s[k] \in DOMAIN h
    BY <2>3, ElementOfSeq
  <2>5. \A k \in 1 .. Len(s) : g[s[k]].next = h[s[k]].next
    BY <1>1, <2>4
  <2>6. IsList(g, x, s)
    BY <1>1, <2>2, <2>3, <2>5 DEF IsList
  <2>7. ~g[x].isReference
    BY <1>1, <1>3
  <2>8. QED
    BY <1>1, <2>1, <2>6, <2>7, ListIsMembers
<1>4. QED
  BY <1>2, <1>3

\* A container keeps its members when none of them gets another successor.
LEMMA MembersStay ==
  ASSUME NEW h, NEW R, Good(h, R), NEW g, NEW Q, Good(g, Q), DOMAIN g = DOMAIN h, NEW x \in DOMAIN h,
         g[x].child = h[x].child, g[x].isReference = h[x].isReference,
         ~h[x].isReference => \A k \in 1 .. Len(MembersOf(h, x)) :
           g[MembersOf(h, x)[k]].next = h[MembersOf(h, x)[k]].next
  PROVE  MembersOf(g, x) = MembersOf(h, x)
<1>1. CASE h[x].isReference
  BY <1>1 DEF MembersOf
<1>2. CASE ~h[x].isReference
  <2>1. PICK s : s = MembersOf(h, x)
    OBVIOUS
  <2>2. IsList(h, x, s) /\ \A k \in 1 .. Len(s) : g[s[k]].next = h[s[k]].next
    BY <1>2, <2>1, MembersList
  <2>3. IsList(g, x, s)
    BY <2>2 DEF IsList
  <2>4. ~g[x].isReference /\ x \in DOMAIN g
    BY <1>2
  <2>5. QED
    BY <2>1, <2>3, <2>4, ListIsMembers
<1>3. QED
  BY <1>1, <1>2

\* When only the members of a change.
LEMMA OneListChanges ==
  ASSUME NEW h, NEW g, DOMAIN g = DOMAIN h, NEW a \in DOMAIN h, NEW t, MembersOf(g, a) = t,
         \A x \in DOMAIN h : x # a => MembersOf(g, x) = MembersOf(h, x)
  PROVE  KidsOf(g) = [KidsOf(h) EXCEPT ![a] = t]
<1>1. \A x \in DOMAIN h : MembersOf(g, x) = IF x = a THEN t ELSE MembersOf(h, x)
  OBVIOUS
<1>2. QED
  BY <1>1 DEF KidsOf

\* A root is put into the list of a, before its n-th member or behind the last.
LEMMA KidsInserted ==
  ASSUME NEW h, NEW R, Good(h, R), NEW g, NEW Q, Good(g, Q), NEW a \in DOMAIN h, ~h[a].isReference,
         NEW i \in R, NEW s, s = MembersOf(h, a), NEW n \in 1 .. Len(s) + 1, NEW b, NEW c,
         b = IF n = 1 THEN Nil ELSE s[n - 1], c = IF n = Len(s) + 1 THEN Nil ELSE s[n],
         Inserted(h, g, a, b, c, i)
  PROVE  KidsOf(g) = [KidsOf(h) EXCEPT ![a] = InsertAt(s, n, i)]
<1>1. IsList(h, a, s) /\ Nil \notin DOMAIN h /\ R \subseteq DOMAIN h
  BY MembersList, NilAssumption DEF Good, Typed, Rooted
<1>2. s \in Seq(DOMAIN h) /\ s \in Seq(DOMAIN h \ R)
  BY <1>1, MembersAre DEF IsList
<1>3. Len(s) \in Nat /\ n \in Nat /\ \A k \in 1 .. Len(s) : s[k] \in DOMAIN h \ R
  BY <1>2, LenProperties, ElementOfSeq
<1>4. \A j, k \in 1 .. Len(s) : s[j] = s[k] => j = k
  BY <1>1, OnePlace
<1>5. /\ DOMAIN g = DOMAIN h
      /\ \A x \in DOMAIN h :
           /\ g[x].isReference = h[x].isReference
           /\ g[x].next = IF x = i THEN c ELSE IF x = b THEN i ELSE h[x].next
           /\ g[x].child = IF x = a /\ b = Nil THEN i ELSE h[x].child
  BY DEF Inserted
<1>6. /\ n # 1 => n - 1 \in 1 .. Len(s) /\ b = s[n - 1] /\ b # Nil
      /\ n # Len(s) + 1 => n \in 1 .. Len(s)
  BY <1>1, <1>3
<1>7. MembersOf(g, a) = InsertAt(s, n, i)
  <2>1. PICK t : t = InsertAt(s, n, i)
    OBVIOUS
  <2>2. i \in DOMAIN h
    BY <1>1
  <2>3. t \in Seq(DOMAIN h) /\ InsertedAt(t, s, n, i)
    BY <1>2, <2>1, <2>2, InsertAtIs
  <2>4. Len(t) = Len(s) + 1 /\ Len(t) # 0
    BY <1>3, <2>3 DEF InsertedAt
  <2>5. \A k \in 1 .. Len(s) + 1 : t[k] = IF k < n THEN s[k] ELSE IF k = n THEN i ELSE s[k - 1]
    BY <2>3 DEF InsertedAt
  <2>6. g[a].child = t[1]
    <3>1. CASE n = 1
      BY <1>3, <1>5, <2>5, <3>1
    <3>2. CASE n # 1
      <4>1. 1 < n /\ 1 \in 1 .. Len(s) + 1 /\ Len(s) # 0
        BY <1>3, <3>2
      <4>2. t[1] = s[1]
        BY <2>5, <4>1
      <4>3. h[a].child = s[1]
        BY <1>1, <4>1 DEF IsList
      <4>4. QED
        BY <1>5, <1>6, <3>2, <4>2, <4>3
    <3>3. QED
      BY <3>1, <3>2
  <2>7. ASSUME NEW k \in 1 .. Len(t)
        PROVE  g[t[k]].next = IF k = Len(t) THEN Nil ELSE t[k + 1]
    <3>0. k \in 1 .. Len(s) + 1 /\ k \in Nat
      BY <1>3, <2>4
    <3>1. CASE k = n
      <4>1. t[k] = i
        BY <1>3, <2>5, <3>0, <3>1
      <4>2. g[t[k]].next = c
        BY <1>5, <2>2, <4>1
      <4>3. n # Len(s) + 1 => k + 1 \in 1 .. Len(s) + 1 /\ ~(k + 1 < n) /\ k + 1 # n /\ k + 1 - 1 = n
        BY <1>3, <3>1
      <4>4. n # Len(s) + 1 => t[k + 1] = s[n]
        BY <2>5, <4>3
      <4>5. QED
        BY <2>4, <3>1, <4>2, <4>4
    <3>2. CASE k < n
      <4>1. k \in 1 .. Len(s) /\ t[k] = s[k] /\ k # Len(t) /\ k + 1 \in 1 .. Len(s) + 1
        BY <1>3, <2>4, <2>5, <3>0, <3>2
      <4>2. s[k] \in DOMAIN h /\ s[k] # i /\ s[k] # Nil
        BY <1>1, <1>3, <4>1
      <4>3. CASE k = n - 1
        <5>1. n # 1 /\ k + 1 = n
          BY <1>3, <3>0, <4>3
        <5>2. t[k + 1] = i /\ b = s[k]
          BY <1>3, <1>6, <2>5, <4>1, <4>3, <5>1
        <5>3. QED
          BY <1>5, <4>1, <4>2, <5>2
      <4>4. CASE k # n - 1
        <5>1. k + 1 < n /\ k + 1 \in 1 .. Len(s) /\ k # Len(s) /\ n # 1
          BY <1>3, <3>0, <3>2, <4>1, <4>4
        <5>2. t[k + 1] = s[k + 1]
          BY <2>5, <4>1, <5>1
        <5>3. s[k] # b
          BY <1>4, <1>6, <4>1, <4>4, <5>1
        <5>4. h[s[k]].next = s[k + 1]
          BY <1>1, <4>1, <5>1 DEF IsList
        <5>5. QED
          BY <1>5, <4>1, <4>2, <5>2, <5>3, <5>4
      <4>5. QED
        BY <4>3, <4>4
    <3>3. CASE n < k
      <4>1. k - 1 \in 1 .. Len(s) /\ ~(k < n) /\ k # n /\ k - 1 # n - 1 /\ k - 1 + 1 = k
        BY <1>3, <3>0, <3>3
      <4>2. t[k] = s[k - 1]
        BY <2>5, <3>0, <4>1
      <4>3. s[k - 1] \in DOMAIN h /\ s[k - 1] # i
        BY <1>3, <4>1
      <4>4. s[k - 1] # b
        BY <1>1, <1>3, <1>4, <1>6, <4>1, <4>3
      <4>5. g[t[k]].next = h[s[k - 1]].next
        BY <1>5, <4>2, <4>3, <4>4
      <4>6. h[s[k - 1]].next = IF k - 1 = Len(s) THEN Nil ELSE s[k - 1 + 1]
        BY <1>1, <4>1 DEF IsList
      <4>7. k # Len(t) => k + 1 \in 1 .. Len(s) + 1 /\ ~(k + 1 < n) /\ k + 1 # n /\ k + 1 - 1 = k
        BY <1>3, <2>4, <3>0, <3>3
      <4>8. k # Len(t) => t[k + 1] = s[k]
        BY <2>5, <4>7
      <4>9. k - 1 = Len(s) <=> k = Len(t)
        BY <1>3, <2>4, <3>0
      <4>10. QED
        BY <4>1, <4>5, <4>6, <4>8, <4>9
    <3>4. QED
      BY <1>3, <3>0, <3>1, <3>2, <3>3
  <2>8. IsList(g, a, t)
    BY <1>5, <2>3, <2>4, <2>6, <2>7 DEF IsList
  <2>9. ~g[a].isReference /\ a \in DOMAIN g
    BY <1>5
  <2>10. QED
    BY <2>1, <2>8, <2>9, ListIsMembers
<1>8. ASSUME NEW x \in DOMAIN h, x # a PROVE MembersOf(g, x) = MembersOf(h, x)
  <2>1. g[x].child = h[x].child /\ g[x].isReference = h[x].isReference
    BY <1>5, <1>8
  <2>2. ASSUME ~h[x].isReference, NEW k \in 1 .. Len(MembersOf(h, x))
        PROVE  g[MembersOf(h, x)[k]].next = h[MembersOf(h, x)[k]].next
    <3>1. PICK t : t = MembersOf(h, x)
      OBVIOUS
    <3>2. IsList(h, x, t) /\ t \in Seq(DOMAIN h \ R)
      BY <2>2, <3>1, MembersList, MembersAre
    <3>3. k \in 1 .. Len(t) /\ t[k] \in DOMAIN h \ R
      BY <2>2, <3>1, <3>2, ElementOfSeq
    <3>4. \A j \in 1 .. Len(s) : s[j] # t[k]
      BY <1>1, <1>8, <2>2, <3>2, <3>3, OnePlace
    <3>5. t[k] # b
      BY <1>1, <1>6, <3>3, <3>4
    <3>6. QED
      BY <1>5, <3>1, <3>3, <3>5
  <2>3. QED
    BY <1>5, <2>1, <2>2, MembersStay
<1>9. QED
  BY <1>5, <1>7, <1>8, OneListChanges

\* The neighbours of the n-th member of a list.
LEMMA Neighbours ==
  ASSUME NEW h, NEW R, Good(h, R), NEW p \in DOMAIN h, ~h[p].isReference,
         NEW s, s = MembersOf(h, p), NEW n \in 1 .. Len(s), NEW i, i = s[n],
         NEW b, b = h[i].prev, NEW c, c = h[i].next
  PROVE  /\ IsList(h, p, s) /\ Len(s) \in Nat /\ Nil \notin DOMAIN h
         /\ s \in Seq(DOMAIN h) /\ \A k \in 1 .. Len(s) : s[k] \in DOMAIN h \ R
         /\ \A j, k \in 1 .. Len(s) : s[j] = s[k] => j = k
         /\ n # 1 => n - 1 \in 1 .. Len(s) /\ b = s[n - 1] /\ b # Nil
         /\ n = 1 => b = Nil
         /\ n # Len(s) => n + 1 \in 1 .. Len(s) /\ c = s[n + 1]
         /\ n = Len(s) => c = Nil
         /\ h[p].child = s[1] /\ Len(s) # 0 /\ i \in DOMAIN h
<1>1. IsList(h, p, s) /\ Nil \notin DOMAIN h
  BY MembersList, NilAssumption DEF Good, Typed
<1>2. s \in Seq(DOMAIN h) /\ s \in Seq(DOMAIN h \ R)
  BY <1>1, MembersAre DEF IsList
<1>3. Len(s) \in Nat /\ \A k \in 1 .. Len(s) : s[k] \in DOMAIN h \ R
  BY <1>2, LenProperties, ElementOfSeq
<1>4. \A j, k \in 1 .. Len(s) : s[j] = s[k] => j = k
  BY <1>1, OnePlace
<1>5. BackAt(h, s, n)
  BY <1>1, ListBack
<1>6. /\ n # 1 => n - 1 \in 1 .. Len(s) /\ b = s[n - 1] /\ b # Nil
      /\ n = 1 => b = Nil
  BY <1>5 DEF BackAt
<1>7. h[s[n]].next = IF n = Len(s) THEN Nil ELSE s[n + 1]
  BY <1>1 DEF IsList
<1>8. Len(s) # 0 /\ (n # Len(s) => n + 1 \in 1 .. Len(s))
  BY <1>3
<1>9. h[p].child = s[1]
  BY <1>1, <1>8 DEF IsList
<1>10. QED
  BY <1>1, <1>2, <1>3, <1>4, <1>6, <1>7, <1>8, <1>9

\* The members of any other container are not among those of p.
LEMMA Elsewhere ==
  ASSUME NEW h, NEW R, Good(h, R), NEW p \in DOMAIN h, ~h[p].isReference,
         NEW s, s = MembersOf(h, p), NEW x \in DOMAIN h, x # p, ~h[x].isReference,
         NEW k \in 1 .. Len(MembersOf(h, x))
  PROVE  MembersOf(h, x)[k] \in DOMAIN h \ R /\ \A j \in 1 .. Len(s) : s[j] # MembersOf(h, x)[k]
<1>1. PICK t : t = MembersOf(h, x)
  OBVIOUS
<1>2. IsList(h, x, t) /\ t \in Seq(DOMAIN h \ R) /\ IsList(h, p, s)
  BY <1>1, MembersList, MembersAre
<1>3. k \in 1 .. Len(t) /\ t[k] \in DOMAIN h \ R
  BY <1>1, <1>2, ElementOfSeq
<1>4. \A j \in 1 .. Len(s) : s[j] # t[k]
  BY <1>2, <1>3, OnePlace
<1>5. QED
  BY <1>1, <1>3, <1>4

\* The n-th member of p is taken out.
LEMMA KidsDetached ==
  ASSUME NEW h, NEW R, Good(h, R), NEW g, NEW Q, Good(g, Q), NEW p \in DOMAIN h, ~h[p].isReference,
         NEW s, s = MembersOf(h, p), NEW n \in 1 .. Len(s), NEW i, i = s[n],
         NEW b, b = h[i].prev, NEW c, c = h[i].next, Detached(h, g, p, b, c, i)
  PROVE  KidsOf(g) = [KidsOf(h) EXCEPT ![p] = RemoveAt(s, n)]
<1>1. /\ IsList(h, p, s) /\ Len(s) \in Nat /\ Nil \notin DOMAIN h
      /\ s \in Seq(DOMAIN h) /\ \A k \in 1 .. Len(s) : s[k] \in DOMAIN h \ R
  BY Neighbours
<1>2. \A j, k \in 1 .. Len(s) : s[j] = s[k] => j = k
  BY Neighbours
<1>3. /\ n # 1 => n - 1 \in 1 .. Len(s) /\ b = s[n - 1] /\ b # Nil
      /\ n = 1 => b = Nil
      /\ n # Len(s) => n + 1 \in 1 .. Len(s) /\ c = s[n + 1]
      /\ n = Len(s) => c = Nil
      /\ h[p].child = s[1] /\ Len(s) # 0
  BY Neighbours
<1>5. /\ DOMAIN g = DOMAIN h
      /\ \A x \in DOMAIN h :
           /\ g[x].isReference = h[x].isReference
           /\ g[x].next = IF x = i THEN Nil ELSE IF x = b THEN c ELSE h[x].next
           /\ g[x].child = IF x = p /\ h[x].child = i THEN c ELSE h[x].child
  BY DEF Detached
<1>6. n \in Nat /\ n # 0 /\ n <= Len(s)
  BY <1>1
<1>7. MembersOf(g, p) = RemoveAt(s, n)
  <2>1. PICK t : t = RemoveAt(s, n)
    OBVIOUS
  <2>3. t \in Seq(DOMAIN h) /\ RemovedAt(t, s, n)
    BY <1>1, <2>1, RemoveAtIs
  <2>4. Len(t) = Len(s) - 1
    BY <2>3 DEF RemovedAt
  <2>5. \A k \in 1 .. Len(s) - 1 : t[k] = IF k < n THEN s[k] ELSE s[k + 1]
    BY <2>3 DEF RemovedAt
  <2>6. g[p].child = IF Len(t) = 0 THEN Nil ELSE t[1]
    <3>1. CASE n = 1
      <4>1. g[p].child = c
        BY <1>3, <1>5, <3>1
      <4>2. Len(t) = 0 <=> n = Len(s)
        BY <1>1, <2>4, <3>1
      <4>3. Len(t) # 0 => 1 \in 1 .. Len(s) - 1 /\ ~(1 < n) /\ 1 + 1 = n + 1
        BY <1>1, <2>4, <3>1
      <4>4. Len(t) # 0 => t[1] = s[1 + 1]
        BY <2>5, <4>3
      <4>5. QED
        BY <1>3, <4>1, <4>2, <4>3, <4>4
    <3>2. CASE n # 1
      <4>1. 1 < n /\ 1 \in 1 .. Len(s) - 1 /\ Len(t) # 0 /\ 1 \in 1 .. Len(s)
        BY <1>1, <1>6, <2>4, <3>2
      <4>2. t[1] = s[1] /\ s[1] # i
        BY <1>2, <2>5, <3>2, <4>1
      <4>3. QED
        BY <1>3, <1>5, <4>1, <4>2
    <3>3. QED
      BY <3>1, <3>2
  <2>7. ASSUME NEW k \in 1 .. Len(t)
        PROVE  g[t[k]].next = IF k = Len(t) THEN Nil ELSE t[k + 1]
    <3>0. k \in 1 .. Len(s) - 1 /\ k \in Nat /\ k \in 1 .. Len(s) /\ k # Len(s) /\ k + 1 \in 1 .. Len(s)
      BY <1>1, <2>4
    <3>1. CASE k = n - 1
      <4>1. k < n /\ n # 1 /\ k # n /\ k + 1 = n
        BY <1>6, <3>0, <3>1
      <4>a. t[k] = s[k] /\ s[k] = b
        BY <1>3, <2>5, <3>0, <3>1, <4>1
      <4>2. t[k] = s[k] /\ s[k] # i /\ s[k] = b /\ s[k] \in DOMAIN h
        BY <1>1, <1>2, <3>0, <4>1, <4>a
      <4>3. g[t[k]].next = c
        BY <1>5, <4>2
      <4>4. k = Len(t) <=> n = Len(s)
        BY <1>1, <1>6, <2>4, <3>1
      <4>5. k # Len(t) => k + 1 \in 1 .. Len(s) - 1 /\ ~(k + 1 < n) /\ k + 1 + 1 = n + 1
        BY <1>1, <2>4, <3>0, <4>1
      <4>6. k # Len(t) => t[k + 1] = s[k + 1 + 1]
        BY <2>5, <4>5
      <4>7. QED
        BY <1>3, <4>3, <4>4, <4>5, <4>6
    <3>2. CASE k < n - 1
      <4>1. /\ k < n /\ k + 1 < n /\ k + 1 \in 1 .. Len(s) - 1 /\ k # Len(t) /\ k # n /\ k # n - 1
            /\ n # 1
        BY <1>1, <1>6, <2>4, <3>0, <3>2
      <4>2. t[k] = s[k] /\ t[k + 1] = s[k + 1]
        BY <2>5, <3>0, <4>1
      <4>3a. s[k] # i /\ s[k] \in DOMAIN h
        BY <1>1, <1>2, <3>0, <4>1
      <4>3b. s[k] # s[n - 1]
        BY <1>2, <1>3, <3>0, <4>1
      <4>3. s[k] # i /\ s[k] # b /\ s[k] \in DOMAIN h
        BY <1>3, <4>1, <4>3a, <4>3b
      <4>4. h[s[k]].next = s[k + 1]
        BY <1>1, <3>0 DEF IsList
      <4>5. QED
        BY <1>5, <4>1, <4>2, <4>3, <4>4
    <3>3. CASE n <= k
      <4>1. ~(k < n) /\ k + 1 # n /\ k + 1 # n - 1
        BY <1>6, <3>0, <3>3
      <4>2. t[k] = s[k + 1]
        BY <2>5, <3>0, <4>1
      <4>3. s[k + 1] # i /\ s[k + 1] \in DOMAIN h
        BY <1>1, <1>2, <3>0, <4>1
      <4>4. s[k + 1] # b
        BY <1>1, <1>2, <1>3, <3>0, <4>1, <4>3
      <4>5. h[s[k + 1]].next = IF k + 1 = Len(s) THEN Nil ELSE s[k + 1 + 1]
        BY <1>1, <3>0 DEF IsList
      <4>6. k + 1 = Len(s) <=> k = Len(t)
        BY <1>1, <2>4, <3>0
      <4>7. k # Len(t) => k + 1 \in 1 .. Len(s) - 1 /\ ~(k + 1 < n)
        BY <1>1, <1>6, <2>4, <3>0, <3>3
      <4>8. k # Len(t) => t[k + 1] = s[k + 1 + 1]
        BY <2>5, <4>7
      <4>9. QED
        BY <1>5, <4>2, <4>3, <4>4, <4>5, <4>6, <4>8
    <3>4. QED
      BY <1>6, <3>0, <3>1, <3>2, <3>3
  <2>8. IsList(g, p, t)
    BY <1>5, <2>3, <2>6, <2>7 DEF IsList
  <2>9. ~g[p].isReference /\ p \in DOMAIN g
    BY <1>5
  <2>10. QED
    BY <2>1, <2>8, <2>9, ListIsMembers
<1>8. ASSUME NEW x \in DOMAIN h, x # p PROVE MembersOf(g, x) = MembersOf(h, x)
  <2>1. g[x].child = h[x].child /\ g[x].isReference = h[x].isReference
    BY <1>5, <1>8
  <2>2. ASSUME ~h[x].isReference, NEW k \in 1 .. Len(MembersOf(h, x))
        PROVE  g[MembersOf(h, x)[k]].next = h[MembersOf(h, x)[k]].next
    <3>1. PICK y : y = MembersOf(h, x)[k]
      OBVIOUS
    <3>2. y \in DOMAIN h /\ \A j \in 1 .. Len(s) : s[j] # y
      BY <1>8, <2>2, <3>1, Elsewhere
    <3>3. y # i /\ y # b
      BY <1>1, <1>3, <3>2
    <3>4. QED
      BY <1>5, <3>1, <3>2, <3>3
  <2>3. QED
    BY <1>5, <2>1, <2>2, MembersStay
<1>9. QED
  BY <1>5, <1>7, <1>8, OneListChanges

\* A root takes the place of the n-th member of p.
LEMMA KidsRelinked ==
  ASSUME NEW h, NEW R, Good(h, R), NEW g, NEW Q, Good(g, Q), NEW p \in DOMAIN h, ~h[p].isReference,
         NEW s, s = MembersOf(h, p), NEW n \in 1 .. Len(s), NEW i, i = s[n], NEW new \in R,
         Relinked(h, g, p, i, new)
  PROVE  KidsOf(g) = [KidsOf(h) EXCEPT ![p] = [s EXCEPT ![n] = new]]
<1>0. PICK b, c : b = h[i].prev /\ c = h[i].next
  OBVIOUS
<1>1. /\ IsList(h, p, s) /\ Len(s) \in Nat /\ Nil \notin DOMAIN h
      /\ s \in Seq(DOMAIN h) /\ \A k \in 1 .. Len(s) : s[k] \in DOMAIN h \ R
  BY Neighbours
<1>2. \A j, k \in 1 .. Len(s) : s[j] = s[k] => j = k
  BY Neighbours
<1>3. /\ n # 1 => n - 1 \in 1 .. Len(s) /\ b = s[n - 1] /\ b # Nil
      /\ n = 1 => b = Nil
      /\ n # Len(s) => n + 1 \in 1 .. Len(s) /\ c = s[n + 1]
      /\ n = Len(s) => c = Nil
      /\ h[p].child = s[1] /\ Len(s) # 0
  BY <1>0, Neighbours
<1>4. new \in DOMAIN h
  BY DEF Good, Rooted
<1>5. /\ DOMAIN g = DOMAIN h
      /\ \A x \in DOMAIN h :
           /\ g[x].isReference = h[x].isReference
           /\ g[x].next = IF x = new THEN c ELSE IF x = i THEN Nil ELSE IF x = b THEN new ELSE h[x].next
           /\ g[x].child = IF x = p /\ h[x].child = i THEN new ELSE h[x].child
  BY <1>0 DEF Relinked
<1>6. n \in Nat /\ n # 0 /\ n <= Len(s)
  BY <1>1
<1>7. MembersOf(g, p) = [s EXCEPT ![n] = new]
  <2>1. PICK t : t = [s EXCEPT ![n] = new]
    OBVIOUS
  <2>2. t \in Seq(DOMAIN h) /\ Len(t) = Len(s) /\ \A k \in 1 .. Len(s) : t[k] = IF k = n THEN new ELSE s[k]
    BY <1>1, <1>4, <2>1, ExceptSeq
  <2>3. g[p].child = t[1]
    <3>1. 1 \in 1 .. Len(s)
      BY <1>1, <1>3
    <3>2. QED
      BY <1>2, <1>3, <1>5, <2>2, <3>1
  <2>4. ASSUME NEW k \in 1 .. Len(t)
        PROVE  g[t[k]].next = IF k = Len(t) THEN Nil ELSE t[k + 1]
    <3>0. k \in 1 .. Len(s) /\ k \in Nat /\ (k # Len(s) => k + 1 \in 1 .. Len(s))
      BY <1>1, <2>2
    <3>1. CASE k = n
      <4>1. t[k] = new /\ g[t[k]].next = c /\ k + 1 # n
        BY <1>4, <1>5, <1>6, <2>2, <3>0, <3>1
      <4>2. k # Len(s) => t[k + 1] = s[n + 1]
        BY <2>2, <3>0, <3>1, <4>1
      <4>3. QED
        BY <1>3, <2>2, <3>1, <4>1, <4>2
    <3>2. CASE k = n - 1
      <4>1. k # n /\ n # 1 /\ k + 1 = n /\ k # Len(s)
        BY <1>6, <3>0, <3>2
      <4>2. t[k] = s[k] /\ s[k] = b /\ s[k] # i /\ s[k] \in DOMAIN h \ R
        BY <1>1, <1>2, <1>3, <2>2, <3>0, <3>2, <4>1
      <4>3. t[k + 1] = new
        BY <2>2, <4>1
      <4>4. QED
        BY <1>5, <2>2, <4>1, <4>2, <4>3
    <3>3. CASE k # n /\ k # n - 1
      <4>1. t[k] = s[k] /\ s[k] # i /\ s[k] \in DOMAIN h \ R /\ k + 1 # n
        BY <1>1, <1>2, <1>6, <2>2, <3>0, <3>3
      <4>2. s[k] # b
        BY <1>1, <1>2, <1>3, <3>0, <3>3, <4>1
      <4>3. h[s[k]].next = IF k = Len(s) THEN Nil ELSE s[k + 1]
        BY <1>1, <3>0 DEF IsList
      <4>4. k # Len(s) => t[k + 1] = s[k + 1]
        BY <2>2, <3>0, <4>1
      <4>5. QED
        BY <1>5, <2>2, <4>1, <4>2, <4>3, <4>4
    <3>4. QED
      BY <3>1, <3>2, <3>3
  <2>5. IsList(g, p, t)
    BY <1>3, <1>5, <2>2, <2>3, <2>4 DEF IsList
  <2>6. ~g[p].isReference /\ p \in DOMAIN g
    BY <1>5
  <2>7. QED
    BY <2>1, <2>5, <2>6, ListIsMembers
<1>8. ASSUME NEW x \in DOMAIN h, x # p PROVE MembersOf(g, x) = MembersOf(h, x)
  <2>1. g[x].child = h[x].child /\ g[x].isReference = h[x].isReference
    BY <1>5, <1>8
  <2>2. ASSUME ~h[x].isReference, NEW k \in 1 .. Len(MembersOf(h, x))
        PROVE  g[MembersOf(h, x)[k]].next = h[MembersOf(h, x)[k]].next
    <3>1. PICK y : y = MembersOf(h, x)[k]
      OBVIOUS
    <3>2. y \in DOMAIN h \ R /\ \A j \in 1 .. Len(s) : s[j] # y
      BY <1>8, <2>2, <3>1, Elsewhere
    <3>3. y # i /\ y # b /\ y # new
      BY <1>1, <1>3, <3>2
    <3>4. QED
      BY <1>5, <3>1, <3>2, <3>3
  <2>3. QED
    BY <1>5, <2>1, <2>2, MembersStay
<1>9. QED
  BY <1>5, <1>7, <1>8, OneListChanges

-----------------------------------------------------------------------------
(* The trees of the forest are what cJSON_Delete visits.                   *)

\* S holds the children of its items.
Full(k, S) == \A x \in S : ToSet(k[x]) \subseteq S

\* One step down.
Deeper(k, S) == S \cup UNION {ToSet(k[x]) : x \in S}
IsDescent(V, k, i) == V = [n \in Nat |-> IF n = 0 THEN {i} ELSE Deeper(k, V[n - 1])]

\* Children exist.
Rooting(k) == IsFiniteSet(DOMAIN k) /\ \A x \in DOMAIN k : ToSet(k[x]) \subseteq DOMAIN k

\* V has the levels of the tree of i, each with those above it.
Levels(V, k, i) ==
  /\ Lists!Tree(k, i) = V[Cardinality(DOMAIN k)]
  /\ V \in [Nat -> SUBSET DOMAIN k] /\ V[0] = {i}
  /\ \A n \in Nat : V[n + 1] = Deeper(k, V[n])

\* The tree goes down from level to level.
LEMMA TreeLevels ==
  ASSUME NEW k, NEW i \in DOMAIN k, Rooting(k)
  PROVE  \E V : Levels(V, k, i)
<1> DEFINE D == DOMAIN k
           T == [S \in SUBSET D |-> Deeper(k, S)]
           V == CHOOSE W : IsDescent(W, k, i)
<1>1. ASSUME NEW S \in SUBSET D PROVE Deeper(k, S) \in SUBSET D
  BY DEF Deeper, Rooting
<1>2. T \in [SUBSET D -> SUBSET D] /\ {i} \in SUBSET D /\ \A S \in SUBSET D : T[S] = Deeper(k, S)
  BY <1>1
<1> HIDE DEF T, V
<1>3. PICK f \in [Nat -> SUBSET D] : f[0] = {i} /\ \A n \in Nat : f[n + 1] = T[f[n]]
  <2>1. \E f : Orbit(f, SUBSET D, {i}, T)
    BY <1>2, Repetition
  <2> QED
    BY <2>1 DEF Orbit
<1>4. IsDescent(f, k, i)
  <2>1. ASSUME NEW n \in Nat PROVE f[n] = IF n = 0 THEN {i} ELSE Deeper(k, f[n - 1])
    <3>1. CASE n = 0
      BY <1>3, <3>1
    <3>2. CASE n # 0
      <4>1. n - 1 \in Nat /\ n - 1 + 1 = n
        BY <3>2
      <4>2. f[n - 1] \in SUBSET D /\ f[n] = T[f[n - 1]]
        BY <1>3, <4>1
      <4>3. QED
        BY <1>2, <3>2, <4>2
    <3>3. QED
      BY <3>1, <3>2
  <2>2. QED
    BY <1>3, <2>1 DEF IsDescent
<1>5. IsDescent(V, k, i)
  BY <1>4 DEF V
<1>6. Lists!Tree(k, i) = V[Cardinality(D)]
  <2>1. Lists!Cardinality(D) = Cardinality(D)
    BY DEF Lists!Cardinality, Cardinality
  <2>2. QED
    BY <2>1 DEF Lists!Tree, Lists!ToSet, ToSet, IsDescent, Deeper, V
<1>7. V[0] = {i} /\ \A n \in Nat : V[n + 1] = Deeper(k, V[n])
  <2>1. \A n \in Nat : V[n] = IF n = 0 THEN {i} ELSE Deeper(k, V[n - 1])
    BY <1>5 DEF IsDescent
  <2>2. ASSUME NEW n \in Nat PROVE V[n + 1] = Deeper(k, V[n])
    <3>1. n + 1 \in Nat /\ n + 1 # 0 /\ n + 1 - 1 = n
      OBVIOUS
    <3>2. QED
      BY <2>1, <3>1
  <2>3. QED
    BY <2>1, <2>2
<1>8. V \in [Nat -> SUBSET D]
  <2> DEFINE S == {n \in Nat : V[n] \in SUBSET D}
  <2>1. 0 \in S
    BY <1>7
  <2>2. ASSUME NEW n \in Nat, n \in S PROVE n + 1 \in S
    BY <1>1, <1>7, <2>2
  <2> HIDE DEF S
  <2>3. \A n \in Nat : n \in S
    BY <2>1, <2>2, SetInduction
  <2>4. \A n \in Nat : V[n] \in SUBSET D
    BY <2>3 DEF S
  <2>5. V = [n \in Nat |-> V[n]]
    BY <1>5 DEF IsDescent
  <2>6. QED
    BY <2>4, <2>5
<1>9. Levels(V, k, i)
  BY <1>6, <1>7, <1>8 DEF Levels
<1>10. QED
  BY <1>9

\* The tree of an item is the least set with the item and the children of its items.
LEMMA TreeIs ==
  ASSUME NEW k, NEW i \in DOMAIN k, Rooting(k)
  PROVE  /\ i \in Lists!Tree(k, i) /\ Lists!Tree(k, i) \subseteq DOMAIN k /\ Full(k, Lists!Tree(k, i))
         /\ \A S : i \in S /\ Full(k, S) => Lists!Tree(k, i) \subseteq S
<1> DEFINE D == DOMAIN k
           N == Cardinality(D)
<1>1. PICK V : /\ Lists!Tree(k, i) = V[N]
               /\ V \in [Nat -> SUBSET D] /\ V[0] = {i}
               /\ \A n \in Nat : V[n + 1] = Deeper(k, V[n])
  <2>1. PICK V : Levels(V, k, i)
    BY TreeLevels
  <2>2. QED
    BY <2>1 DEF Levels
<1>2. N \in Nat /\ IsFiniteSet(D)
  BY FS_CardinalityType DEF Rooting
<1> HIDE DEF N
<1>3. ASSUME NEW n \in Nat PROVE V[n] \subseteq V[n + 1]
  <2>1. V[n + 1] = Deeper(k, V[n])
    BY <1>1
  <2>2. QED
    BY <2>1 DEF Deeper
<1>4. ASSUME NEW n \in Nat, V[n + 1] = V[n] PROVE V[n + 1 + 1] = V[n + 1]
  BY <1>1, <1>4
<1>5. V[N + 1] = V[N]
  <2>1. IsFiniteSet(V[N]) /\ Cardinality(V[N]) <= N
    <3>1. V[N] \in SUBSET D
      BY <1>1, <1>2
    <3>2. QED
      BY <1>2, <3>1, FS_Subset DEF N
  <2>2. V[0] # {}
    BY <1>1
  <2>3. QED
    BY <1>2, <1>3, <1>4, <2>1, <2>2, Stabilises
<1>6. V[N] = Deeper(k, V[N]) /\ V[N] \in SUBSET D
  BY <1>1, <1>2, <1>5
<1>7. Full(k, V[N])
  <2> SUFFICES ASSUME NEW x \in V[N], NEW y \in ToSet(k[x]) PROVE y \in V[N]
    BY DEF Full
  <2>1. y \in Deeper(k, V[N])
    BY DEF Deeper
  <2>2. QED
    BY <1>6, <2>1
<1>8. i \in V[N]
  <2> DEFINE S == {n \in Nat : i \in V[n]}
  <2>1. 0 \in S
    BY <1>1
  <2>2. ASSUME NEW n \in Nat, n \in S PROVE n + 1 \in S
    BY <1>3, <2>2
  <2> HIDE DEF S
  <2>3. \A n \in Nat : n \in S
    BY <2>1, <2>2, SetInduction
  <2>4. QED
    BY <1>2, <2>3 DEF S
<1>9. ASSUME NEW S, i \in S, Full(k, S) PROVE V[N] \subseteq S
  <2> DEFINE Q == {n \in Nat : V[n] \subseteq S}
  <2>1. 0 \in Q
    BY <1>1, <1>9
  <2>2. ASSUME NEW n \in Nat, n \in Q PROVE n + 1 \in Q
    <3>1. V[n] \subseteq S /\ V[n + 1] = Deeper(k, V[n])
      BY <1>1, <2>2
    <3>2. ASSUME NEW y \in V[n + 1] PROVE y \in S
      <4>1. y \in V[n] \/ \E x \in V[n] : y \in ToSet(k[x])
        BY <3>1, <3>2 DEF Deeper
      <4>2. QED
        BY <1>9, <3>1, <4>1 DEF Full
    <3>3. QED
      BY <3>2
  <2> HIDE DEF Q
  <2>3. \A n \in Nat : n \in Q
    BY <2>1, <2>2, SetInduction
  <2>4. QED
    BY <1>2, <2>3 DEF Q
<1>10. QED
  BY <1>1, <1>6, <1>7, <1>8, <1>9

\* What is in the tree of i, and is not i, is a child of something in it.
LEMMA TreeParent ==
  ASSUME NEW k, NEW i \in DOMAIN k, Rooting(k), NEW x \in Lists!Tree(k, i), x # i
  PROVE  \E y \in Lists!Tree(k, i) : x \in ToSet(k[y])
<1> DEFINE T == Lists!Tree(k, i)
<1>1. i \in T /\ Full(k, T) /\ \A S : i \in S /\ Full(k, S) => T \subseteq S
  BY TreeIs
<1> HIDE DEF T
<1>2. SUFFICES ASSUME ~\E y \in T : x \in ToSet(k[y]) PROVE FALSE
  BY DEF T
<1>3. Full(k, T \ {x})
  BY <1>1, <1>2 DEF Full
<1>4. T \subseteq T \ {x}
  BY <1>1, <1>3
<1>5. QED
  BY <1>4 DEF T

\* A change to the children of something outside the tree does not change the tree.
LEMMA TreeApart ==
  ASSUME NEW k, NEW i \in DOMAIN k, Rooting(k), NEW c \in DOMAIN k, c \notin Lists!Tree(k, i),
         NEW j, Rooting(j), DOMAIN j = DOMAIN k, \A x \in DOMAIN k \ {c} : j[x] = k[x]
  PROVE  Lists!Tree(j, i) = Lists!Tree(k, i)
<1> DEFINE T == Lists!Tree(k, i)
           U == Lists!Tree(j, i)
<1>1. /\ i \in T /\ T \subseteq DOMAIN k /\ Full(k, T)
      /\ \A S : i \in S /\ Full(k, S) => T \subseteq S
  BY TreeIs
<1>2. /\ i \in U /\ U \subseteq DOMAIN k /\ Full(j, U)
      /\ \A S : i \in S /\ Full(j, S) => U \subseteq S
  BY TreeIs
<1>3. c \notin T
  OBVIOUS
<1> HIDE DEF T, U
<1>4. Full(j, T)
  BY <1>1, <1>3 DEF Full
<1>5. U \subseteq T
  BY <1>1, <1>2, <1>4
<1>6. Full(k, U)
  BY <1>2, <1>3, <1>5 DEF Full
<1>7. T \subseteq U
  BY <1>1, <1>2, <1>6
<1>8. QED
  BY <1>5, <1>7 DEF T, U

\* x is a member of y.
IsChild(h, x, y) == ~h[y].isReference /\ \E k \in 1 .. Len(MembersOf(h, y)) : x = MembersOf(h, y)[k]

\* The members of a container are the items of its sequence.
LEMMA Children ==
  ASSUME NEW h, NEW R, Good(h, R), NEW y \in DOMAIN h
  PROVE  /\ KidsOf(h)[y] = MembersOf(h, y)
         /\ \A x : x \in ToSet(KidsOf(h)[y]) <=> IsChild(h, x, y)
         /\ \A x : IsChild(h, x, y) => x \in DOMAIN h
<1>1. KidsOf(h)[y] = MembersOf(h, y)
  BY DEF KidsOf
<1>2. CASE h[y].isReference
  <2>1. MembersOf(h, y) = <<>>
    BY <1>2 DEF MembersOf
  <2>2. QED
    BY <1>1, <1>2, <2>1 DEF ToSet, IsChild
<1>3. CASE ~h[y].isReference
  <2>1. PICK s : s = MembersOf(h, y)
    OBVIOUS
  <2>2. s \in Seq(DOMAIN h \ R)
    BY <1>3, <2>1, MembersAre
  <2>3. DOMAIN s = 1 .. Len(s) /\ \A k \in 1 .. Len(s) : s[k] \in DOMAIN h
    BY <2>2, LenProperties, ElementOfSeq
  <2>4. QED
    BY <1>1, <1>3, <2>1, <2>3 DEF ToSet, IsChild
<1>4. QED
  BY <1>2, <1>3

\* Children exist in a good heap.
LEMMA KidsRooting ==
  ASSUME NEW h, NEW R, Good(h, R)
  PROVE  Rooting(KidsOf(h)) /\ DOMAIN KidsOf(h) = DOMAIN h
<1>1. IsFiniteSet(DOMAIN h)
  BY GoodPoints DEF Good, Points
<1>2. DOMAIN KidsOf(h) = DOMAIN h
  BY DEF KidsOf
<1>3. \A y \in DOMAIN h : ToSet(KidsOf(h)[y]) \subseteq DOMAIN h
  BY Children
<1>4. QED
  BY <1>1, <1>2, <1>3 DEF Rooting

\* What the tree of i is in a good heap.
LEMMA TreeOf ==
  ASSUME NEW h, NEW R, Good(h, R), NEW i \in DOMAIN h, NEW T, T = Lists!Tree(KidsOf(h), i)
  PROVE  /\ i \in T /\ T \subseteq DOMAIN h
         /\ \A y \in T : \A x : IsChild(h, x, y) => x \in T
         /\ \A x \in T : x # i => \E y \in T : IsChild(h, x, y)
         /\ \A S : /\ i \in S /\ S \subseteq DOMAIN h
                   /\ \A y \in S : \A x : IsChild(h, x, y) => x \in S
                   => T \subseteq S
<1>1. PICK k : k = KidsOf(h)
  OBVIOUS
<1>2. Rooting(k) /\ DOMAIN k = DOMAIN h /\ T = Lists!Tree(k, i)
  BY <1>1, KidsRooting
<1>3. i \in T /\ T \subseteq DOMAIN h /\ Full(k, T) /\ \A S : i \in S /\ Full(k, S) => T \subseteq S
  BY <1>2, TreeIs
<1>4. \A y \in DOMAIN h : \A x : x \in ToSet(k[y]) <=> IsChild(h, x, y)
  BY <1>1, Children
<1>5. \A y \in T : \A x : IsChild(h, x, y) => x \in T
  BY <1>3, <1>4 DEF Full
<1>6. \A x \in T : x # i => \E y \in T : x \in ToSet(k[y])
  BY <1>2, TreeParent
<1>7. ASSUME NEW S, i \in S, S \subseteq DOMAIN h, \A y \in S : \A x : IsChild(h, x, y) => x \in S
      PROVE  T \subseteq S
  <2>1. Full(k, S)
    BY <1>4, <1>7 DEF Full
  <2>2. QED
    BY <1>3, <1>7, <2>1
<1>8. QED
  BY <1>3, <1>4, <1>5, <1>6, <1>7

\* The first member is a child, and so is what comes behind one.
LEMMA ChildNext ==
  ASSUME NEW h, NEW R, Good(h, R), NEW y \in DOMAIN h, ~h[y].isReference
  PROVE  /\ h[y].child # Nil => IsChild(h, h[y].child, y)
         /\ \A x : IsChild(h, x, y) /\ h[x].next # Nil => IsChild(h, h[x].next, y)
         /\ \A x : IsChild(h, x, y) => x = h[y].child \/ \E z : IsChild(h, z, y) /\ h[z].next = x
<1>1. PICK s : s = MembersOf(h, y)
  OBVIOUS
<1>2. IsList(h, y, s)
  BY <1>1, MembersList
<1>3. Len(s) \in Nat
  BY <1>2, LenProperties DEF IsList
<1>4. \A x : IsChild(h, x, y) <=> \E k \in 1 .. Len(s) : x = s[k]
  BY <1>1 DEF IsChild
<1>5. ASSUME h[y].child # Nil PROVE IsChild(h, h[y].child, y)
  <2>1. Len(s) # 0 /\ h[y].child = s[1]
    BY <1>2, <1>5 DEF IsList
  <2>2. 1 \in 1 .. Len(s)
    BY <1>3, <2>1
  <2>3. QED
    BY <1>4, <2>1, <2>2
<1>6. ASSUME NEW x, IsChild(h, x, y), h[x].next # Nil PROVE IsChild(h, h[x].next, y)
  <2>1. PICK k \in 1 .. Len(s) : x = s[k]
    BY <1>4, <1>6
  <2>2. h[x].next = IF k = Len(s) THEN Nil ELSE s[k + 1]
    BY <1>2, <2>1 DEF IsList
  <2>3. k # Len(s) /\ h[x].next = s[k + 1]
    BY <1>6, <2>2
  <2>4. k + 1 \in 1 .. Len(s)
    BY <1>3, <2>3
  <2>5. QED
    BY <1>4, <2>3, <2>4
<1>7. ASSUME NEW x, IsChild(h, x, y)
      PROVE  x = h[y].child \/ \E z : IsChild(h, z, y) /\ h[z].next = x
  <2>1. PICK k \in 1 .. Len(s) : x = s[k]
    BY <1>4, <1>7
  <2>2. CASE k = 1
    <3>1. Len(s) # 0
      BY <1>3, <2>1, <2>2
    <3>2. QED
      BY <1>2, <2>1, <2>2, <3>1 DEF IsList
  <2>3. CASE k # 1
    <3>1. k - 1 \in 1 .. Len(s) /\ k - 1 # Len(s) /\ k - 1 + 1 = k
      BY <1>3, <2>3
    <3>2. h[s[k - 1]].next = s[k]
      BY <1>2, <3>1 DEF IsList
    <3>3. IsChild(h, s[k - 1], y)
      BY <1>4, <3>1
    <3>4. QED
      BY <2>1, <3>2, <3>3
  <2>4. QED
    BY <2>2, <2>3
<1>8. QED
  BY <1>5, <1>6, <1>7

\* cJSON_Delete of an item at the end of its list visits its tree.
LEMMA TreeIsFreed ==
  ASSUME NEW h, NEW R, Good(h, R), NEW i \in DOMAIN h, h[i].next = Nil
  PROVE  Lists!Tree(KidsOf(h), i) = Freed(h, i)
<1>1. PICK T, F : T = Lists!Tree(KidsOf(h), i) /\ F = Freed(h, i)
  OBVIOUS
<1>2. Points(h) /\ Nil \notin DOMAIN h
  BY GoodPoints DEF Good, Points
<1>3. /\ i \in F /\ F \subseteq DOMAIN h /\ Keeps(h, F)
      /\ \A S : i \in S /\ Keeps(h, S) => F \subseteq S
  BY <1>1, <1>2, FreedIs
<1>4. /\ i \in T /\ T \subseteq DOMAIN h
      /\ \A y \in T : \A x : IsChild(h, x, y) => x \in T
      /\ \A x \in T : x # i => \E y \in T : IsChild(h, x, y)
  BY <1>1, TreeOf
<1>5. \A S : /\ i \in S /\ S \subseteq DOMAIN h
             /\ \A y \in S : \A x : IsChild(h, x, y) => x \in S
             => T \subseteq S
  BY <1>1, TreeOf
<1>6. T \subseteq F
  <2>1. ASSUME NEW y \in F, NEW x, IsChild(h, x, y) PROVE x \in F
    <3>1. y \in DOMAIN h /\ ~h[y].isReference
      BY <1>3, <2>1 DEF IsChild
    <3>2. h[y].child \in F \cup {Nil}
      BY <1>2, <1>3, <3>1 DEF Keeps, Leads, Points
    <3>3. \A z \in F : h[z].next \in F \cup {Nil}
      BY <1>2, <1>3 DEF Keeps, Leads, Points
    <3>4. \A n \in Nat : GetArrayItem(h, y, n) \in F \cup {Nil}
      BY <1>2, <3>1, <3>2, <3>3, WalkStays
    <3>5. PICK s : s = MembersOf(h, y)
      OBVIOUS
    <3>6. PICK k \in 1 .. Len(s) : x = s[k]
      BY <2>1, <3>5 DEF IsChild
    <3>7. /\ Len(s) \in Nat
          /\ \A n \in Nat : GetArrayItem(h, y, n) # Nil <=> n < Len(s)
          /\ \A n \in Nat : n < Len(s) => s[n + 1] = GetArrayItem(h, y, n)
      BY <3>1, <3>5, MembersAre
    <3>8. k - 1 \in Nat /\ k - 1 < Len(s) /\ k - 1 + 1 = k
      BY <3>7
    <3>9. s[k - 1 + 1] = GetArrayItem(h, y, k - 1) /\ GetArrayItem(h, y, k - 1) # Nil
      BY <3>7, <3>8
    <3>10. x = GetArrayItem(h, y, k - 1)
      BY <3>6, <3>8, <3>9
    <3>11. QED
      BY <3>4, <3>8, <3>9, <3>10
  <2>2. QED
    BY <1>3, <1>5, <2>1
<1>7. F \subseteq T
  <2>1. ASSUME NEW x \in T, NEW y \in DOMAIN h, Leads(h, x, y) PROVE y \in T
    <3>1. y # Nil /\ x \in DOMAIN h
      BY <1>2, <1>4
    <3>2. CASE ~h[x].isReference /\ h[x].child = y
      <4>1. IsChild(h, y, x)
        BY <3>1, <3>2, ChildNext
      <4>2. QED
        BY <1>4, <4>1
    <3>3. CASE h[x].next = y
      <4>1. x # i
        BY <3>1, <3>3
      <4>2. PICK z \in T : IsChild(h, x, z)
        BY <1>4, <4>1
      <4>3. z \in DOMAIN h /\ ~h[z].isReference
        BY <1>4, <4>2 DEF IsChild
      <4>4. IsChild(h, y, z)
        BY <3>1, <3>3, <4>2, <4>3, ChildNext
      <4>5. QED
        BY <1>4, <4>2, <4>4
    <3>4. QED
      BY <2>1, <3>2, <3>3 DEF Leads
  <2>2. Keeps(h, T)
    BY <2>1 DEF Keeps
  <2>3. QED
    BY <1>3, <1>4, <2>2
<1>8. QED
  BY <1>1, <1>6, <1>7

\* A container is not in the tree of its member.
LEMMA NotBelowMember ==
  ASSUME NEW h, NEW R, Good(h, R), NEW p \in DOMAIN h, NEW i, IsChild(h, i, p)
  PROVE  i \in DOMAIN h /\ p \notin Lists!Tree(KidsOf(h), i)
<1>1. i \in DOMAIN h
  BY Children
<1>2. PICK T : T = Lists!Tree(KidsOf(h), i)
  OBVIOUS
<1>3. /\ i \in T /\ T \subseteq DOMAIN h
      /\ \A y \in T : \A x : IsChild(h, x, y) => x \in T
      /\ \A x \in T : x # i => \E y \in T : IsChild(h, x, y)
  BY <1>1, <1>2, TreeOf
<1>4. SUFFICES ASSUME p \in T PROVE FALSE
  BY <1>1, <1>2
<1>5. PICK x \in T : \A y \in T : ~Leads(h, y, x)
  <2>1. T \in SUBSET DOMAIN h /\ T # {} /\ Grounded(h)
    BY <1>3 DEF Good
  <2>2. QED
    BY <2>1 DEF Grounded
<1>6. PICK y \in T : IsChild(h, x, y)
  BY <1>3, <1>4
<1>7. y \in DOMAIN h /\ ~h[y].isReference
  BY <1>3, <1>6 DEF IsChild
<1>8. x = h[y].child \/ \E z : IsChild(h, z, y) /\ h[z].next = x
  BY <1>6, <1>7, ChildNext
<1>9. CASE x = h[y].child
  BY <1>5, <1>6, <1>7, <1>9 DEF Leads
<1>10. CASE \E z : IsChild(h, z, y) /\ h[z].next = x
  <2>1. PICK z : IsChild(h, z, y) /\ h[z].next = x
    BY <1>10
  <2>2. z \in T
    BY <1>3, <1>6, <2>1
  <2>3. QED
    BY <1>5, <2>1, <2>2 DEF Leads
<1>11. QED
  BY <1>8, <1>9, <1>10

\* The same links make the same sequences.
LEMMA KidsSame ==
  ASSUME NEW h, NEW R, Good(h, R), NEW g, NEW Q, Good(g, Q), SameLinks(h, g)
  PROVE  KidsOf(g) = KidsOf(h)
<1>1. Extends(h, g) /\ DOMAIN g = DOMAIN h
  BY DEF Extends, SameLinks
<1>2. \A x \in DOMAIN h : MembersOf(g, x) = MembersOf(h, x)
  BY <1>1, MembersExtend
<1>3. QED
  BY <1>1, <1>2 DEF KidsOf

\* What is deleted goes with its tree; the rest keeps its sequences.
LEMMA KidsDeleted ==
  ASSUME NEW h, NEW R, Good(h, R), NEW i \in R, NEW Q, Good(Delete(h, i), Q)
  PROVE  KidsOf(Delete(h, i)) = Lists!Without(KidsOf(h), Lists!Tree(KidsOf(h), i))
<1>1. PICK g, F : g = Delete(h, i) /\ F = Freed(h, i)
  OBVIOUS
<1>2. DOMAIN g = DOMAIN h \ F /\ \A x \in DOMAIN g : g[x] = h[x]
  BY <1>1 DEF Delete
<1>3. i \in DOMAIN h /\ h[i].next = Nil
  BY DEF Good, Rooted
<1>4. Lists!Tree(KidsOf(h), i) = F
  BY <1>1, <1>3, TreeIsFreed
<1>5. Extends(g, h)
  BY <1>2 DEF Extends
<1>6. \A x \in DOMAIN g : x \in DOMAIN h /\ MembersOf(h, x) = MembersOf(g, x)
  BY <1>1, <1>5, MembersExtend
<1>7. DOMAIN KidsOf(h) = DOMAIN h /\ \A x \in DOMAIN h : KidsOf(h)[x] = MembersOf(h, x)
  BY DEF KidsOf
<1>8. Lists!Without(KidsOf(h), F) = [x \in DOMAIN g |-> KidsOf(h)[x]]
  BY <1>2, <1>7 DEF Lists!Without
<1>9. \A x \in DOMAIN g : KidsOf(h)[x] = MembersOf(g, x)
  BY <1>6, <1>7
<1>10. KidsOf(g) = [x \in DOMAIN g |-> KidsOf(h)[x]]
  BY <1>9 DEF KidsOf
<1>11. QED
  BY <1>1, <1>4, <1>8, <1>10

\* What is new, and reached from one new root alone, is the tree of that root.
LEMMA KidsGrown ==
  ASSUME NEW h, NEW R, Good(h, R), NEW g, NEW r, Good(g, R \cup {r}), Extends(h, g),
         r \in DOMAIN g \ DOMAIN h
  PROVE  /\ DOMAIN KidsOf(g) = DOMAIN h \cup (DOMAIN g \ DOMAIN h)
         /\ \A x \in DOMAIN h : KidsOf(g)[x] = KidsOf(h)[x]
         /\ Lists!Tree(KidsOf(g), r) = DOMAIN g \ DOMAIN h
<1>1. PICK new, F : new = DOMAIN g \ DOMAIN h /\ F = Freed(g, r)
  OBVIOUS
<1>2. DOMAIN h \subseteq DOMAIN g /\ \A x \in DOMAIN h : \A y : Leads(g, x, y) <=> Leads(h, x, y)
  BY DEF Extends, Leads
<1>3. r \in DOMAIN g /\ g[r].next = Nil
  BY DEF Good, Rooted
<1>4. \A x \in DOMAIN h : MembersOf(g, x) = MembersOf(h, x)
  BY MembersExtend
<1>5. Lists!Tree(KidsOf(g), r) = F
  BY <1>1, <1>3, TreeIsFreed
<1>6. /\ r \in F /\ F \subseteq DOMAIN g /\ Keeps(g, F)
      /\ \A S : r \in S /\ Keeps(g, S) => F \subseteq S
  BY <1>1, <1>3, GoodPoints, FreedIs DEF Good
<1>7. F \subseteq new
  <2>1. ASSUME NEW y \in new, NEW x \in DOMAIN g, Leads(g, y, x) PROVE x \in new
    <3>1. SUFFICES ASSUME x \in DOMAIN h PROVE FALSE
      BY <1>1
    <3>2. y \in DOMAIN g /\ y \notin DOMAIN h
      BY <1>1
    <3>3. x \notin R \cup {r} /\ \A z \in DOMAIN g : Leads(g, z, x) => z = y
      BY <2>1, <3>2, OneLeader
    <3>4. \E z \in DOMAIN h : Leads(h, z, x)
      BY <3>1, <3>3 DEF Good, Ruled, Linked, Leads
    <3>5. QED
      BY <1>2, <3>2, <3>3, <3>4
  <2>2. Keeps(g, new)
    BY <2>1 DEF Keeps
  <2>3. QED
    BY <1>1, <1>6, <2>2
<1>8. new \subseteq F
  <2> SUFFICES ASSUME new \ F # {} PROVE FALSE
    OBVIOUS
  <2>1. new \ F \in SUBSET DOMAIN g /\ Grounded(g)
    BY <1>1 DEF Good
  <2>2. PICK x \in new \ F : \A y \in new \ F : ~Leads(g, y, x)
    BY <2>1, Zenon DEF Grounded
  <2>3. x \in DOMAIN g /\ x # r /\ x \notin R /\ x \notin DOMAIN h
    BY <1>1, <1>6, <2>2 DEF Good, Rooted
  <2>4. PICK y \in DOMAIN g : Leads(g, y, x)
    BY <2>3 DEF Good, Ruled, Linked, Leads
  <2>5. y \notin F
    BY <1>6, <2>2, <2>3, <2>4 DEF Keeps
  <2>6. y \in DOMAIN h
    BY <1>1, <2>2, <2>4, <2>5
  <2>7. Leads(h, y, x)
    BY <1>2, <2>4, <2>6
  <2>8. Nil \notin DOMAIN g
    BY NilAssumption DEF Good, Typed
  <2>9. x \in DOMAIN h
    BY <2>3, <2>6, <2>7, <2>8 DEF Good, Linked, Leads
  <2>10. QED
    BY <2>3, <2>9
<1>9. DOMAIN KidsOf(g) = DOMAIN g /\ \A x \in DOMAIN g : KidsOf(g)[x] = MembersOf(g, x)
  BY DEF KidsOf
<1>10. \A x \in DOMAIN h : KidsOf(h)[x] = MembersOf(h, x)
  BY DEF KidsOf
<1>11. QED
  BY <1>1, <1>2, <1>4, <1>5, <1>7, <1>8, <1>9, <1>10

\* The n-th call of the walk is the n+1-st of the sequence.
LEMMA IndexIsPlace ==
  ASSUME NEW h, NEW R, Good(h, R), NEW a \in DOMAIN h, ~h[a].isReference, NEW n \in Nat,
         NEW i, i = GetArrayItem(h, a, n), i # Nil
  PROVE  n + 1 \in 1 .. Len(MembersOf(h, a)) /\ MembersOf(h, a)[n + 1] = i
<1>1. PICK s : s = MembersOf(h, a)
  OBVIOUS
<1>2. /\ Len(s) \in Nat
      /\ \A m \in Nat : GetArrayItem(h, a, m) # Nil <=> m < Len(s)
      /\ \A m \in Nat : m < Len(s) => s[m + 1] = GetArrayItem(h, a, m)
  BY <1>1, MembersAre
<1>3. n < Len(s) /\ s[n + 1] = i
  BY <1>2
<1>4. n + 1 \in 1 .. Len(s)
  BY <1>2, <1>3
<1>5. QED
  BY <1>1, <1>3, <1>4

\* cJSON_AddItemToArray appends.
LEMMA KidsAppended ==
  ASSUME NEW h, NEW R, Good(h, R), NEW g, NEW Q, Good(g, Q), NEW a \in DOMAIN h, ~h[a].isReference,
         NEW i \in R, Appended(h, g, a, i), NEW s, s = MembersOf(h, a)
  PROVE  KidsOf(g) = [KidsOf(h) EXCEPT ![a] = InsertAt(s, Len(s) + 1, i)]
<1>1. IsList(h, a, s) /\ Nil \notin DOMAIN h
  BY MembersList, NilAssumption DEF Good, Typed
<1>2. Len(s) \in Nat /\ \A k \in 1 .. Len(s) : s[k] # Nil
  BY <1>1, LenProperties, ElementOfSeq DEF IsList
<1>3. PICK b : /\ Inserted(h, g, a, b, Nil, i)
               /\ IF h[a].child = Nil THEN b = Nil
                  ELSE b # Nil /\ h[b].next = Nil /\ \E n \in Nat : b = GetArrayItem(h, a, n)
  BY DEF Appended
<1>4. b = IF Len(s) + 1 = 1 THEN Nil ELSE s[Len(s) + 1 - 1]
  <2>1. CASE h[a].child = Nil
    <3>1. Len(s) = 0
      <4>1. Len(s) # 0 => 1 \in 1 .. Len(s)
        BY <1>2
      <4>2. QED
        BY <1>1, <1>2, <2>1, <4>1 DEF IsList
    <3>2. QED
      BY <1>3, <2>1, <3>1
  <2>2. CASE h[a].child # Nil
    <3>1. PICK n \in Nat : b = GetArrayItem(h, a, n) /\ b # Nil /\ h[b].next = Nil
      BY <1>3, <2>2
    <3>2. n + 1 \in 1 .. Len(s) /\ s[n + 1] = b
      BY <3>1, IndexIsPlace
    <3>3. h[s[n + 1]].next = IF n + 1 = Len(s) THEN Nil ELSE s[n + 1 + 1]
      BY <1>1, <3>2 DEF IsList
    <3>4. n + 1 # Len(s) => n + 1 + 1 \in 1 .. Len(s)
      BY <1>2, <3>2
    <3>5. n + 1 = Len(s)
      BY <1>2, <3>1, <3>2, <3>3, <3>4
    <3>6. Len(s) + 1 # 1 /\ Len(s) + 1 - 1 = n + 1
      BY <1>2, <3>5
    <3>7. QED
      BY <3>2, <3>6
  <2>3. QED
    BY <2>1, <2>2
<1>5. Len(s) + 1 \in 1 .. Len(s) + 1
  BY <1>2
<1>6. PICK n, c : n = Len(s) + 1 /\ c = Nil
  OBVIOUS
<1>7. /\ b = IF n = 1 THEN Nil ELSE s[n - 1]
      /\ c = IF n = Len(s) + 1 THEN Nil ELSE s[n]
      /\ n \in 1 .. Len(s) + 1 /\ Inserted(h, g, a, b, c, i)
  BY <1>3, <1>4, <1>5, <1>6
<1>8. KidsOf(g) = [KidsOf(h) EXCEPT ![a] = InsertAt(s, n, i)]
  BY <1>7, KidsInserted
<1>9. QED
  BY <1>6, <1>8

-----------------------------------------------------------------------------
(* Every call is a step of the forest.                                     *)

\* What the refinement takes for roots.
Roots == held \cup lost

\* What the refinement takes for kids, before and after a step.
LEMMA KidsNow ==
  /\ [x \in Live |-> Members(x)] = KidsOf(heap) /\ DOMAIN KidsOf(heap) = Live
  /\ [x \in Live |-> Members(x)]' = KidsOf(heap')
  /\ \A x \in Live : Members(x) = KidsOf(heap)[x]
BY DEF KidsOf, Live, Members, MembersOf

\* A root becomes a child.
LEMMA StepLink ==
  ASSUME NEW c \in Live, NEW i \in Roots, NEW n \in 1 .. Len(KidsOf(heap)[c]) + 1,
         c \notin Lists!Tree(KidsOf(heap), i), Roots' = Roots \ {i},
         KidsOf(heap') = [KidsOf(heap) EXCEPT ![c] = InsertAt(KidsOf(heap)[c], n, i)]
  PROVE  Lists!Link(c, i, n) /\ Lists!Next
<1>1. PICK k : k = KidsOf(heap) /\ k = [x \in Live |-> Members(x)] /\ DOMAIN k = Live
  BY KidsNow
<1>2. [x \in Live |-> Members(x)]' = [k EXCEPT ![c] = InsertAt(k[c], n, i)]
  BY <1>1, KidsNow
<1>3. Lists!Link(c, i, n)
  BY <1>1, <1>2 DEF Lists!Link, Lists!Existing, Roots, Lists!InsertAt, InsertAt
<1>4. QED
  BY <1>1, <1>3 DEF Lists!Next, Lists!Existing, Roots

\* A root takes the place of a child.
LEMMA StepSwap ==
  ASSUME NEW c \in Live, NEW i \in Roots, NEW n \in DOMAIN KidsOf(heap)[c],
         Len(KidsOf(heap)[c]) \in Nat, DOMAIN KidsOf(heap)[c] = 1 .. Len(KidsOf(heap)[c]),
         c \notin Lists!Tree(KidsOf(heap), i), Roots' = Roots \ {i},
         KidsOf(heap') = Lists!Without([KidsOf(heap) EXCEPT ![c] = [KidsOf(heap)[c] EXCEPT ![n] = i]],
                                       Lists!Tree(KidsOf(heap), KidsOf(heap)[c][n]))
  PROVE  Lists!Swap(c, n, i) /\ Lists!Next
<1>1. PICK k : k = KidsOf(heap) /\ k = [x \in Live |-> Members(x)] /\ DOMAIN k = Live
  BY KidsNow
<1>2. [x \in Live |-> Members(x)]' = Lists!Without([k EXCEPT ![c] = [k[c] EXCEPT ![n] = i]],
                                                   Lists!Tree(k, k[c][n]))
  BY <1>1, KidsNow
<1>3. n \in 1 .. Len(k[c]) + 1
  BY <1>1
<1>4. Lists!Swap(c, n, i)
  BY <1>1, <1>2 DEF Lists!Swap, Lists!Existing, Roots
<1>5. QED
  BY <1>1, <1>3, <1>4 DEF Lists!Next, Lists!Existing, Roots

\* A child becomes a root.
LEMMA StepUnlink ==
  ASSUME NEW c \in Live, NEW n \in DOMAIN KidsOf(heap)[c],
         Roots' = Roots \cup {KidsOf(heap)[c][n]},
         KidsOf(heap') = [KidsOf(heap) EXCEPT ![c] = RemoveAt(KidsOf(heap)[c], n)]
  PROVE  Lists!Unlink(c, n) /\ Lists!Next
<1>1. PICK k : k = KidsOf(heap) /\ k = [x \in Live |-> Members(x)] /\ DOMAIN k = Live
  BY KidsNow
<1>2. [x \in Live |-> Members(x)]' = [k EXCEPT ![c] = RemoveAt(k[c], n)]
  BY <1>1, KidsNow
<1>3. Lists!Unlink(c, n)
  BY <1>1, <1>2 DEF Lists!Unlink, Roots, Lists!RemoveAt, RemoveAt
<1>4. QED
  BY <1>1, <1>3 DEF Lists!Next, Lists!Existing

\* A child is deleted with what is below it.
LEMMA StepPrune ==
  ASSUME NEW c \in Live, NEW n \in DOMAIN KidsOf(heap)[c], Roots' = Roots,
         KidsOf(heap') = Lists!Without([KidsOf(heap) EXCEPT ![c] = RemoveAt(KidsOf(heap)[c], n)],
                                       Lists!Tree(KidsOf(heap), KidsOf(heap)[c][n]))
  PROVE  Lists!Prune(c, n) /\ Lists!Next
<1>1. PICK k : k = KidsOf(heap) /\ k = [x \in Live |-> Members(x)] /\ DOMAIN k = Live
  BY KidsNow
<1>2. [x \in Live |-> Members(x)]' = Lists!Without([k EXCEPT ![c] = RemoveAt(k[c], n)],
                                                   Lists!Tree(k, k[c][n]))
  BY <1>1, KidsNow
<1>3. Lists!Prune(c, n)
  BY <1>1, <1>2 DEF Lists!Prune, Roots, Lists!RemoveAt, RemoveAt
<1>4. QED
  BY <1>1, <1>3 DEF Lists!Next, Lists!Existing

\* A new item without children becomes a child.
LEMMA StepRefer ==
  ASSUME NEW c \in Live, NEW i \in Free, Roots' = Roots,
         KidsOf(heap') = [x \in Live \cup {i} |-> IF x = i THEN <<>> ELSE IF x = c
                            THEN Append(KidsOf(heap)[c], i) ELSE KidsOf(heap)[x]]
  PROVE  Lists!Refer(c, i) /\ Lists!Next
<1>1. PICK k : k = KidsOf(heap) /\ k = [x \in Live |-> Members(x)] /\ DOMAIN k = Live
  BY KidsNow
<1>2. [x \in Live |-> Members(x)]' =
        [x \in Live \cup {i} |-> IF x = i THEN <<>> ELSE IF x = c THEN Append(k[c], i) ELSE k[x]]
  BY <1>1, KidsNow
<1>3. i \in Items /\ i \notin Live
  BY DEF Free
<1>4. Lists!Refer(c, i)
  <2>1. Lists!Existing = Live
    BY DEF Lists!Existing
  <2>2. [x \in Live |-> Members(x)]' =
          [x \in Lists!Existing \cup {i} |->
             IF x = i THEN <<>> ELSE IF x = c THEN Append([y \in Live |-> Members(y)][c], i)
             ELSE [y \in Live |-> Members(y)][x]]
    BY <1>1, <1>2, <2>1
  <2>3. UNCHANGED (held \cup lost)
    BY DEF Roots
  <2>4. QED
    BY <1>3, <2>1, <2>2, <2>3 DEF Lists!Refer
<1>5. QED
  BY <1>1, <1>3, <1>4 DEF Lists!Next, Lists!Existing

\* A tree of new items appears.
LEMMA StepGrow ==
  ASSUME NEW r, r \in Items \ Live, NEW new, new \subseteq Items \ Live, r \in new, Roots' = Roots \cup {r},
         DOMAIN KidsOf(heap') = Live \cup new,
         \A x \in Live : KidsOf(heap')[x] = KidsOf(heap)[x],
         Lists!Tree(KidsOf(heap'), r) = new
  PROVE  Lists!Grow(r, new) /\ Lists!Next
<1>1. PICK k : k = KidsOf(heap) /\ k = [x \in Live |-> Members(x)] /\ DOMAIN k = Live
  BY KidsNow
<1>2. PICK j : j = KidsOf(heap') /\ j = [x \in Live |-> Members(x)]'
  BY KidsNow
<1>3. /\ DOMAIN j = Live \cup new /\ \A x \in Live : j[x] = k[x]
      /\ Lists!Tree(j, r) = new
  BY <1>1, <1>2
<1>4. Lists!Grow(r, new)
  BY <1>1, <1>2, <1>3 DEF Lists!Grow, Lists!Existing, Roots
<1>5. QED
  BY <1>1, <1>4 DEF Lists!Next, Lists!Existing

\* A root is deleted with what is below it.
LEMMA StepFell ==
  ASSUME NEW i \in Roots, Roots' = Roots \ {i},
         KidsOf(heap') = Lists!Without(KidsOf(heap), Lists!Tree(KidsOf(heap), i))
  PROVE  Lists!Fell(i) /\ Lists!Next
<1>1. PICK k : k = KidsOf(heap) /\ k = [x \in Live |-> Members(x)] /\ DOMAIN k = Live
  BY KidsNow
<1>2. [x \in Live |-> Members(x)]' = Lists!Without(k, Lists!Tree(k, i))
  BY <1>1, KidsNow
<1>3. Lists!Fell(i)
  BY <1>1, <1>2 DEF Lists!Fell, Roots
<1>4. QED
  BY <1>3 DEF Lists!Next, Roots

\* A call that changes neither changes nothing in the forest.
LEMMA StepNone ==
  ASSUME Roots' = Roots, KidsOf(heap') = KidsOf(heap)
  PROVE  UNCHANGED Lists!vars
BY KidsNow DEF Lists!vars, Roots

\* The sequence of a container.
LEMMA KidsSeq ==
  ASSUME NEW h, NEW R, Good(h, R), NEW a \in DOMAIN h, ~h[a].isReference
  PROVE  /\ KidsOf(h)[a] = MembersOf(h, a) /\ Len(KidsOf(h)[a]) \in Nat
         /\ DOMAIN KidsOf(h)[a] = 1 .. Len(KidsOf(h)[a]) /\ KidsOf(h)[a] \in Seq(DOMAIN h)
<1>1. KidsOf(h)[a] = MembersOf(h, a)
  BY DEF KidsOf
<1>2. MembersOf(h, a) \in Seq(DOMAIN h)
  BY MembersList DEF IsList
<1>3. QED
  BY <1>1, <1>2, LenProperties

\* A container that cJSON_Delete of a root does not visit is not in the tree of the root.
LEMMA NotInTree ==
  ASSUME HeapInv, NEW i \in Roots, NEW c \in Live, c \notin Freed(heap, i)
  PROVE  c \notin Lists!Tree(KidsOf(heap), i)
<1>1. Good(heap, Roots) /\ i \in DOMAIN heap /\ heap[i].next = Nil
  BY DEF HeapInv, Roots, Good, Rooted
<1>2. QED
  BY <1>1, TreeIsFreed

\* Heaps with the same links are the same forest.
LEMMA KidsAlike ==
  ASSUME NEW h, NEW R, Good(h, R), NEW g, NEW Q, Good(g, Q), SameLinks(h, g)
  PROVE  KidsOf(g) = KidsOf(h) /\ DOMAIN g = DOMAIN h
BY KidsSame DEF SameLinks

\* cJSON_AddItemToArray, with or without a name that changes, links a root behind the
\* last child: h and g are the heap before and after, but for names.
LEMMA AppendLinks ==
  ASSUME HeapInv, HeapInv', NEW h, Good(h, Roots), SameLinks(heap, h), NEW a \in Live, ~heap[a].isReference,
         NEW i \in Roots, a \notin Freed(heap, i), NEW g, Good(g, Roots \ {i}), Appended(h, g, a, i),
         SameLinks(g, heap'), Roots' = Roots \ {i}
  PROVE  Lists!Link(a, i, Behind(a)) /\ Lists!Next
<1>1. Good(heap, Roots) /\ Good(heap', Roots')
  BY DEF HeapInv, Roots
<1>2. KidsOf(h) = KidsOf(heap) /\ KidsOf(heap') = KidsOf(g)
  BY <1>1, KidsAlike
<1>3. a \in DOMAIN h /\ ~h[a].isReference
  BY DEF SameLinks, Live
<1>4. PICK s : s = MembersOf(h, a) /\ s = KidsOf(heap)[a] /\ Len(s) \in Nat
  BY <1>2, <1>3, KidsSeq
<1>5. KidsOf(g) = [KidsOf(h) EXCEPT ![a] = InsertAt(s, Len(s) + 1, i)]
  <2>1. Good(h, Roots) /\ Good(g, Roots \ {i}) /\ i \in Roots /\ Appended(h, g, a, i) /\ s = MembersOf(h, a)
    BY <1>4
  <2>2. PICK R, Q : R = Roots /\ Q = Roots \ {i}
    OBVIOUS
  <2>3. Good(h, R) /\ Good(g, Q) /\ i \in R
    BY <2>1, <2>2
  <2>4. QED
    BY <1>3, <2>1, <2>3, KidsAppended
<1>6. a \notin Lists!Tree(KidsOf(heap), i)
  BY NotInTree
<1>7. Len(s) + 1 \in 1 .. Len(s) + 1
  BY <1>4
<1>8. KidsOf(heap') = [KidsOf(heap) EXCEPT ![a] = InsertAt(s, Len(s) + 1, i)]
  BY <1>2, <1>5
<1>9. PICK n : n = Len(s) + 1 /\ n \in 1 .. Len(s) + 1
  BY <1>7
<1>10. Lists!Link(a, i, n) /\ Lists!Next
  BY <1>4, <1>6, <1>8, <1>9, StepLink
<1>11. n = Behind(a)
  BY <1>4, <1>9, KidsNow DEF Behind
<1>12. QED
  BY <1>10, <1>11

\* cJSON_InsertItemInArray before a member links a root at its place.
LEMMA InsertLinks ==
  ASSUME HeapInv, HeapInv', NEW a \in Live, Alone(heap, a), NEW i \in Roots, a \notin Freed(heap, i),
         NEW w \in Nat, NEW after, after = GetArrayItem(heap, a, w), after # Nil,
         heap' = InsertBefore(heap, a, after, i), Roots' = Roots \ {i}
  PROVE  w + 1 \in DOMAIN Members(a) /\ Lists!Link(a, i, w + 1) /\ Lists!Next
<1>1. Good(heap, Roots) /\ Good(heap', Roots') /\ a \in DOMAIN heap /\ ~heap[a].isReference
  BY DEF HeapInv, Roots, Alone
<1>2. PICK b, c, R, Q : b = heap[after].prev /\ c = heap[after].next /\ R = Roots /\ Q = Roots'
  OBVIOUS
<1>3. Inserted(heap, heap', a, b, after, i)
  BY <1>1, <1>2, GoodInsertBefore
<1>4. PICK s : s = MembersOf(heap, a) /\ s = KidsOf(heap)[a] /\ Len(s) \in Nat
  BY <1>1, KidsSeq
<1>5. PICK n : n = w + 1
  OBVIOUS
<1>6. n \in 1 .. Len(s) /\ after = s[n]
  <2>1. w + 1 \in 1 .. Len(MembersOf(heap, a)) /\ MembersOf(heap, a)[w + 1] = after
    BY <1>1, IndexIsPlace
  <2>2. QED
    BY <1>4, <1>5, <2>1
<1>7. (n # 1 => b = s[n - 1]) /\ (n = 1 => b = Nil)
  <2>1. Good(heap, R) /\ s = MembersOf(heap, a)
    BY <1>1, <1>2, <1>4
  <2>2. QED
    BY <1>1, <1>2, <1>6, <2>1, Neighbours
<1>8. /\ b = IF n = 1 THEN Nil ELSE s[n - 1]
      /\ after = IF n = Len(s) + 1 THEN Nil ELSE s[n]
      /\ n \in 1 .. Len(s) + 1
  BY <1>4, <1>6, <1>7
<1>9. KidsOf(heap') = [KidsOf(heap) EXCEPT ![a] = InsertAt(s, n, i)]
  <2>1. Good(heap, R) /\ Good(heap', Q) /\ i \in R /\ s = MembersOf(heap, a)
    BY <1>1, <1>2, <1>4
  <2>2. QED
    BY <1>1, <1>3, <1>8, <2>1, KidsInserted
<1>10. a \notin Lists!Tree(KidsOf(heap), i)
  BY NotInTree
<1>11. Lists!Link(a, i, n) /\ Lists!Next
  BY <1>4, <1>8, <1>9, <1>10, StepLink
<1>12. Members(a) = s /\ DOMAIN s = 1 .. Len(s)
  BY <1>1, <1>4, KidsNow, KidsSeq
<1>13. QED
  BY <1>5, <1>6, <1>11, <1>12

\* The forests k and j differ at most in the children of p.
ApartFrom(k, j, p) == DOMAIN j = DOMAIN k /\ \A x \in DOMAIN k \ {p} : j[x] = k[x]

\* What is below a child does not change when its container's sequence does.
LEMMA ChildTree ==
  ASSUME NEW h, NEW R, Good(h, R), NEW g, NEW Q, Good(g, Q), NEW p \in DOMAIN h, NEW i, IsChild(h, i, p),
         ApartFrom(KidsOf(h), KidsOf(g), p)
  PROVE  Lists!Tree(KidsOf(g), i) = Lists!Tree(KidsOf(h), i)
<1>1. i \in DOMAIN h /\ p \notin Lists!Tree(KidsOf(h), i)
  BY NotBelowMember
<1>2. Rooting(KidsOf(h)) /\ DOMAIN KidsOf(h) = DOMAIN h
  BY KidsRooting
<1>3. Rooting(KidsOf(g))
  BY KidsRooting
<1>4. PICK k, j : k = KidsOf(h) /\ j = KidsOf(g)
  OBVIOUS
<1>5. DOMAIN j = DOMAIN k /\ \A x \in DOMAIN k \ {p} : j[x] = k[x]
  BY <1>4 DEF ApartFrom
<1>6. Rooting(k) /\ Rooting(j) /\ i \in DOMAIN k /\ p \in DOMAIN k /\ p \notin Lists!Tree(k, i)
  BY <1>1, <1>2, <1>3, <1>4
<1>7. Lists!Tree(j, i) = Lists!Tree(k, i)
  BY <1>5, <1>6, TreeApart
<1>8. QED
  BY <1>4, <1>7

\* A member at an index is a child at a place.
LEMMA PlaceOf ==
  ASSUME NEW h, NEW R, Good(h, R), NEW a \in DOMAIN h, ~h[a].isReference, NEW w \in Nat,
         NEW i, i = GetArrayItem(h, a, w), i # Nil
  PROVE  \E s, n : /\ n = w + 1 /\ s = MembersOf(h, a) /\ s = KidsOf(h)[a] /\ Len(s) \in Nat
                   /\ DOMAIN s = 1 .. Len(s) /\ n \in 1 .. Len(s) /\ i = s[n] /\ IsChild(h, i, a)
<1>1. w + 1 \in 1 .. Len(MembersOf(h, a)) /\ MembersOf(h, a)[w + 1] = i
  BY IndexIsPlace
<1>2. PICK n : n = w + 1
  OBVIOUS
<1>3. n \in 1 .. Len(MembersOf(h, a)) /\ i = MembersOf(h, a)[n]
  BY <1>1, <1>2
<1>4. IsChild(h, i, a)
  BY <1>3 DEF IsChild
<1>5. QED
  BY <1>2, <1>3, <1>4, KidsSeq

\* cJSON_DetachItemFromArray and cJSON_DetachItemFromObject unlink a child, and
\* cJSON_DeleteItemFromArray and cJSON_DeleteItemFromObject prune the tree at it.
LEMMA DetachUnlinks ==
  ASSUME HeapInv, HeapInv', NEW a \in Live, Unshared(a), NEW w \in Nat, NEW i,
         i = GetArrayItem(heap, a, w), i # Nil, lost' = lost,
         \/ heap' = DetachViaPointer(heap, a, i) /\ held' = held \cup {i}
         \/ heap' = Delete(DetachViaPointer(heap, a, i), i) /\ held' = held
  PROVE  /\ w + 1 \in DOMAIN Members(a) /\ Members(a)[w + 1] = i /\ Lists!Next
         /\ heap' = DetachViaPointer(heap, a, i) /\ held' = held \cup {i} => Lists!Unlink(a, w + 1)
         /\ heap' = Delete(DetachViaPointer(heap, a, i), i) /\ held' = held => Lists!Prune(a, w + 1)
<1>1. PICK R, m, b, c : /\ R = Roots /\ m = DetachViaPointer(heap, a, i)
                        /\ b = heap[i].prev /\ c = heap[i].next
  OBVIOUS
<1>2. Good(heap, R) /\ a \in DOMAIN heap /\ ~heap[a].isReference /\ Alone(heap, a)
  BY <1>1, Contract DEF HeapInv, Roots, Alone
<1>3. Good(m, R \cup {i}) /\ Detached(heap, m, a, b, c, i)
  BY <1>1, <1>2, GoodDetachViaPointer
<1>4. PICK s, n : /\ n = w + 1 /\ s = MembersOf(heap, a) /\ s = KidsOf(heap)[a] /\ Len(s) \in Nat
                  /\ DOMAIN s = 1 .. Len(s) /\ n \in 1 .. Len(s) /\ i = s[n] /\ IsChild(heap, i, a)
  BY <1>2, PlaceOf
<1>5. KidsOf(m) = [KidsOf(heap) EXCEPT ![a] = RemoveAt(s, n)]
  <2>1. PICK Q : Good(m, Q)
    BY <1>3
  <2>2. s = MembersOf(heap, a) /\ n \in 1 .. Len(s) /\ i = s[n] /\ b = heap[i].prev /\ c = heap[i].next
    BY <1>1, <1>4
  <2>3. QED
    BY <1>2, <1>3, <2>1, <2>2, KidsDetached
<1>6. ASSUME heap' = m, held' = held \cup {i} PROVE Lists!Unlink(a, n) /\ Lists!Next
  <2>1. Roots' = Roots \cup {i}
    BY <1>6 DEF Roots
  <2>2. QED
    BY <1>4, <1>5, <1>6, <2>1, StepUnlink
<1>7. ASSUME heap' = Delete(m, i), held' = held PROVE Lists!Prune(a, n) /\ Lists!Next
  <2>1. Good(heap', Roots') /\ Roots' = Roots
    BY <1>7 DEF HeapInv, Roots
  <2>2. KidsOf(heap') = Lists!Without(KidsOf(m), Lists!Tree(KidsOf(m), i))
    <3>1. Good(Delete(m, i), Roots') /\ i \in R \cup {i}
      BY <1>7, <2>1
    <3>2. KidsOf(Delete(m, i)) = Lists!Without(KidsOf(m), Lists!Tree(KidsOf(m), i))
      BY <1>3, <3>1, KidsDeleted
    <3>3. QED
      BY <1>7, <3>2
  <2>3. Lists!Tree(KidsOf(m), i) = Lists!Tree(KidsOf(heap), i)
    <3>1. PICK Q : Good(m, Q)
      BY <1>3
    <3>2. ApartFrom(KidsOf(heap), KidsOf(m), a) /\ IsChild(heap, i, a)
      BY <1>4, <1>5 DEF ApartFrom
    <3>3. QED
      BY <1>2, <3>1, <3>2, ChildTree
  <2>4. KidsOf(heap') = Lists!Without([KidsOf(heap) EXCEPT ![a] = RemoveAt(s, n)],
                                      Lists!Tree(KidsOf(heap), s[n]))
    BY <1>4, <1>5, <2>2, <2>3
  <2>5. QED
    BY <1>4, <2>1, <2>4, StepPrune
<1>8. n \in DOMAIN Members(a) /\ Members(a)[n] = i
  BY <1>4, KidsNow
<1>9. QED
  BY <1>1, <1>4, <1>6, <1>7, <1>8

\* cJSON_ReplaceItemViaPointer swaps a child for a root; h is the heap but for names.
LEMMA ReplaceSwaps ==
  ASSUME HeapInv, HeapInv', NEW h, Good(h, Roots), SameLinks(heap, h), NEW a, Alone(heap, a),
         NEW new \in Roots, a \notin Freed(heap, new), NEW w \in Nat, NEW i,
         i = GetArrayItem(h, a, w), i # Nil,
         heap' = ReplaceViaPointer(h, a, i, new), Roots' = Roots \ {new}
  PROVE  w + 1 \in DOMAIN Members(a) /\ Members(a)[w + 1] = i /\ Lists!Swap(a, w + 1, new) /\ Lists!Next
<1>1. PICK R, m : R = Roots /\ m = Relink(h, a, i, new)
  OBVIOUS
<1>2. Good(heap, R) /\ a \in DOMAIN heap /\ Good(h, R) /\ new \in DOMAIN heap /\ Good(heap', Roots')
  BY <1>1 DEF HeapInv, Roots, Alone, Good, Rooted
<1>3. a \in DOMAIN h /\ ~h[a].isReference /\ Alone(h, a)
  BY DEF SameLinks, Alone
<1>4. KidsOf(h) = KidsOf(heap) /\ a \notin Freed(h, new)
  <2>1. Freed(h, new) = Freed(heap, new)
    BY <1>2, GoodSameLinks DEF Good
  <2>2. QED
    BY <1>2, <2>1, KidsAlike
<1>5. Good(m, (R \ {new}) \cup {i}) /\ Relinked(h, m, a, i, new)
  BY <1>1, <1>2, <1>3, <1>4, GoodRelink
<1>6. PICK s, n : /\ n = w + 1 /\ s = MembersOf(h, a) /\ s = KidsOf(h)[a] /\ Len(s) \in Nat
                  /\ DOMAIN s = 1 .. Len(s) /\ n \in 1 .. Len(s) /\ i = s[n] /\ IsChild(h, i, a)
  BY <1>2, <1>3, PlaceOf
<1>7. PICK Q, t : Good(m, Q) /\ t = [s EXCEPT ![n] = new]
  BY <1>5
<1>8. KidsOf(m) = [KidsOf(h) EXCEPT ![a] = t]
  <2>1. new \in R /\ s = MembersOf(h, a) /\ n \in 1 .. Len(s) /\ i = s[n] /\ Good(m, Q)
    BY <1>1, <1>6, <1>7
  <2>2. KidsOf(m) = [KidsOf(h) EXCEPT ![a] = [s EXCEPT ![n] = new]]
    BY <1>2, <1>3, <1>5, <2>1, KidsRelinked
  <2>3. QED
    BY <1>7, <2>2
<1>9. heap' = Delete(m, i)
  BY <1>1 DEF ReplaceViaPointer
<1>10. KidsOf(heap') = Lists!Without(KidsOf(m), Lists!Tree(KidsOf(m), i))
  <2>1. Good(Delete(m, i), Roots') /\ i \in (R \ {new}) \cup {i}
    BY <1>2, <1>9
  <2>2. KidsOf(Delete(m, i)) = Lists!Without(KidsOf(m), Lists!Tree(KidsOf(m), i))
    BY <1>5, <2>1, KidsDeleted
  <2>3. QED
    BY <1>9, <2>2
<1>11. Lists!Tree(KidsOf(m), i) = Lists!Tree(KidsOf(h), i)
  <2>1. Good(h, R) /\ Good(m, Q) /\ IsChild(h, i, a)
    BY <1>2, <1>6, <1>7
  <2>2. ApartFrom(KidsOf(h), KidsOf(m), a)
    BY <1>8 DEF ApartFrom
  <2>3. QED
    BY <1>3, <2>1, <2>2, ChildTree
<1>12. KidsOf(heap') = Lists!Without([KidsOf(heap) EXCEPT ![a] = [s EXCEPT ![n] = new]],
                                     Lists!Tree(KidsOf(heap), s[n]))
  BY <1>4, <1>6, <1>7, <1>8, <1>10, <1>11
<1>13. a \notin Lists!Tree(KidsOf(heap), new) /\ a \in Live
  BY <1>2, NotInTree DEF Live
<1>14. s = KidsOf(heap)[a] /\ n \in DOMAIN s
  BY <1>4, <1>6
<1>15. Lists!Swap(a, n, new) /\ Lists!Next
  BY <1>6, <1>12, <1>13, <1>14, StepSwap
<1>16. Members(a) = s
  BY <1>13, <1>14, KidsNow
<1>17. QED
  BY <1>6, <1>14, <1>15, <1>16

\* cJSON_AddItemToObjectCS appends as cJSON_AddItemToArray does, to the heap with the name.
LEMMA ObjectCSAppends ==
  ASSUME NEW h, NEW R, Good(h, R), NEW o \in DOMAIN h, ~h[o].isReference,
         NEW i \in R, o \notin Freed(h, i), NEW n \in Names, NEW isCopy \in BOOLEAN
  PROVE  /\ Good(AddToObjectCS(h, o, n, i, isCopy), R \ {i})
         /\ \E m : Good(m, R) /\ SameLinks(h, m) /\ Appended(m, AddToObjectCS(h, o, n, i, isCopy), o, i)
<1>1. PICK m : m = WithName(h, i, n, isCopy, TRUE)
  OBVIOUS
<1>2. AddToObjectCS(h, o, n, i, isCopy) = AddToArray(m, o, i)
  BY <1>1 DEF AddToObjectCS, WithName
<1>3. i \in DOMAIN h /\ n \in Names \cup {NoName} /\ TRUE \in BOOLEAN
  BY DEF Good, Rooted
<1>4. Renamed(h, WithName(h, i, n, isCopy, TRUE), R, i, n, isCopy, TRUE)
  BY <1>3, GoodName, Zenon
<1>5. Good(m, R) /\ SameLinks(h, m) /\ Freed(m, i) = Freed(h, i)
  BY <1>1, <1>4 DEF Renamed
<1>6. o \in DOMAIN m /\ ~m[o].isReference /\ o \notin Freed(m, i)
  BY <1>5 DEF SameLinks
<1>7. Good(AddToArray(m, o, i), R \ {i}) /\ Appended(m, AddToArray(m, o, i), o, i)
  BY <1>5, <1>6, GoodAddToArray
<1>8. QED
  BY <1>2, <1>5, <1>7

\* A heap with the same links has the links it has.
LEMMA LinksOwn ==
  ASSUME NEW h
  PROVE  SameLinks(h, h)
BY DEF SameLinks

\* New items under one root, with the others as they were, are a tree that grows.
LEMMA NewGrows ==
  ASSUME HeapInv, HeapInv', NEW r, r \in DOMAIN heap', r \notin Live, Extends(heap, heap'),
         Roots' = Roots \cup {r}
  PROVE  Lists!Grow(r, Made) /\ Lists!Next
<1>1. Good(heap, Roots) /\ Good(heap', Roots \cup {r})
  BY DEF HeapInv, Roots
<1>2. DOMAIN heap' \subseteq Items
  BY <1>1 DEF Good, Typed
<1>3. r \in DOMAIN heap' \ DOMAIN heap
  BY DEF Live
<1>4. /\ DOMAIN KidsOf(heap') = DOMAIN heap \cup (DOMAIN heap' \ DOMAIN heap)
      /\ \A x \in DOMAIN heap : KidsOf(heap')[x] = KidsOf(heap)[x]
      /\ Lists!Tree(KidsOf(heap'), r) = DOMAIN heap' \ DOMAIN heap
  BY <1>1, <1>3, KidsGrown
<1>5. PICK new : new = DOMAIN heap' \ DOMAIN heap
  OBVIOUS
<1>6. new \subseteq Items \ Live /\ r \in new /\ r \in Items \ Live
  BY <1>2, <1>3, <1>5 DEF Live
<1>7. /\ DOMAIN KidsOf(heap') = Live \cup new
      /\ \A x \in Live : KidsOf(heap')[x] = KidsOf(heap)[x]
      /\ Lists!Tree(KidsOf(heap'), r) = new
  BY <1>4, <1>5 DEF Live
<1>8. Lists!Grow(r, new) /\ Lists!Next
  BY <1>6, <1>7, StepGrow
<1>9. QED
  BY <1>5, <1>8 DEF Made, Live

\* mid is the heap with a new reference, as NewReference has it.
WithReference(mid, r) ==
  /\ DOMAIN mid = Live \cup {r} /\ mid[r].isReference /\ Extends(heap, mid)

\* A new reference has its fields, and leaves the rest as it was.
LEMMA ReferenceIs ==
  ASSUME HeapInv, NEW i \in Live, NEW r \in Free
  PROVE  WithReference(Alloc(heap, r, Reference(heap, i)), r)
<1>1. PICK q, mid : q = Reference(heap, i) /\ mid = Alloc(heap, r, q)
  OBVIOUS
<1>2. heap[i] \in Item
  BY DEF HeapInv, Good, Typed, Live
<1>3. q.isReference
  BY <1>1, <1>2 DEF Reference, Item
<1>4. /\ DOMAIN mid = DOMAIN heap \cup {r} /\ mid[r] = q
      /\ \A x \in DOMAIN heap : x # r => mid[x] = heap[x]
  BY <1>1 DEF Alloc
<1>5. \A x \in DOMAIN heap : mid[x] = heap[x]
  BY <1>4 DEF Free, Live
<1>6. WithReference(mid, r)
  BY <1>3, <1>4, <1>5 DEF WithReference, Extends, Live
<1>7. QED
  BY <1>1, <1>6

\* A new reference that is appended is a new child without children.
LEMMA ReferenceRefers ==
  ASSUME HeapInv, HeapInv', NEW c \in Live, ~heap[c].isReference, NEW r \in Free,
         NEW mid, Good(mid, Roots \cup {r}), WithReference(mid, r),
         NEW h, Good(h, Roots \cup {r}), SameLinks(mid, h),
         NEW g, NEW Q, Good(g, Q), Appended(h, g, c, r), SameLinks(g, heap'), Roots' = Roots
  PROVE  Lists!Refer(c, r) /\ Lists!Next
<1>1. PICK R, P : R = Roots /\ P = Roots \cup {r}
  OBVIOUS
<1>2. Good(heap, R) /\ Good(heap', R) /\ Good(mid, P) /\ Good(h, P) /\ r \in P
  BY <1>1 DEF HeapInv, Roots
<1>3. KidsOf(h) = KidsOf(mid)
  BY <1>2, KidsAlike
<1>4. KidsOf(heap') = KidsOf(g)
  BY <1>2, KidsAlike
<1>5. /\ DOMAIN mid = Live \cup {r} /\ mid[r].isReference /\ Extends(heap, mid)
      /\ DOMAIN h = Live \cup {r} /\ c \in DOMAIN h /\ ~h[c].isReference
  <2>1. DOMAIN mid = Live \cup {r} /\ mid[r].isReference /\ Extends(heap, mid)
    BY DEF WithReference
  <2>2. DOMAIN h = Live \cup {r} /\ h[c].isReference = mid[c].isReference
    BY <2>1 DEF SameLinks
  <2>3. mid[c].isReference = heap[c].isReference
    BY <2>1 DEF Extends, Live
  <2>4. QED
    BY <2>1, <2>2, <2>3
<1>6. PICK s : s = MembersOf(h, c) /\ s = KidsOf(mid)[c] /\ s \in Seq(DOMAIN h) /\ Len(s) \in Nat
  BY <1>2, <1>3, <1>5, KidsSeq
<1>7. KidsOf(g) = [KidsOf(h) EXCEPT ![c] = InsertAt(s, Len(s) + 1, r)]
  <2>1. s = MembersOf(h, c) /\ Good(h, P) /\ r \in P
    BY <1>2, <1>6
  <2>2. QED
    BY <1>5, <2>1, KidsAppended
<1>8. InsertAt(s, Len(s) + 1, r) = Append(s, r)
  <2>1. PICK X : X = DOMAIN h
    OBVIOUS
  <2>2. s \in Seq(X) /\ r \in X
    BY <1>5, <1>6, <2>1
  <2>3. QED
    BY <2>2, InsertLast
<1>9. KidsOf(mid)[r] = <<>> /\ DOMAIN KidsOf(mid) = Live \cup {r}
  <2>1. KidsOf(mid)[r] = MembersOf(mid, r) /\ DOMAIN KidsOf(mid) = Live \cup {r}
    BY <1>5 DEF KidsOf
  <2>2. MembersOf(mid, r) = <<>>
    BY <1>5, Zenon DEF MembersOf
  <2>3. QED
    BY <2>1, <2>2
<1>10. \A x \in Live : KidsOf(mid)[x] = KidsOf(heap)[x]
  <2>1. \A x \in DOMAIN heap : x \in DOMAIN mid /\ MembersOf(mid, x) = MembersOf(heap, x)
    BY <1>2, <1>5, MembersExtend
  <2>2. QED
    BY <2>1 DEF KidsOf, Live
<1>11. s = KidsOf(heap)[c]
  BY <1>6, <1>10
<1>12. PICK k, j, t : k = KidsOf(mid) /\ j = KidsOf(heap) /\ t = Append(s, r)
  OBVIOUS
<1>13. KidsOf(heap') = [k EXCEPT ![c] = t]
  BY <1>3, <1>4, <1>7, <1>8, <1>12
<1>14. k[r] = <<>> /\ DOMAIN k = Live \cup {r} /\ (\A x \in Live : k[x] = j[x]) /\ r # c
  BY <1>9, <1>10, <1>12 DEF Free
<1>15. k = [x \in Live \cup {r} |-> IF x = r THEN <<>> ELSE j[x]]
  <2>1. k = [x \in DOMAIN k |-> k[x]]
    BY <1>12 DEF KidsOf
  <2>2. \A x \in DOMAIN k : k[x] = IF x = r THEN <<>> ELSE j[x]
    BY <1>14
  <2>3. QED
    BY <1>14, <2>1, <2>2
<1>16. [k EXCEPT ![c] = t] = [x \in Live \cup {r} |-> IF x = r THEN <<>> ELSE IF x = c THEN t ELSE j[x]]
  BY <1>14, <1>15
<1>17. t = Append(KidsOf(heap)[c], r) /\ j = KidsOf(heap)
  BY <1>11, <1>12
<1>18. KidsOf(heap') = [x \in Live \cup {r} |-> IF x = r THEN <<>> ELSE IF x = c
                          THEN Append(KidsOf(heap)[c], r) ELSE KidsOf(heap)[x]]
  BY <1>13, <1>16, <1>17
<1>19. QED
  BY <1>18, StepRefer

\* get_object_item finds the first member with the name, and NULL if there is none.
Called(h, o, n, cs, k) == SameName(n, h[MembersOf(h, o)[k]].string, cs)

LEMMA ItemCalled ==
  ASSUME NEW h, NEW R, Good(h, R), NEW o \in DOMAIN h, ~h[o].isReference, NEW n, NEW cs,
         NEW i, i = GetObjectItem(h, o, n, cs)
  PROVE  /\ i = Nil => \A k \in DOMAIN MembersOf(h, o) : ~Called(h, o, n, cs, k)
         /\ i # Nil => \E w \in Nat : /\ i = GetArrayItem(h, o, w) /\ w + 1 \in DOMAIN MembersOf(h, o)
                                      /\ Called(h, o, n, cs, w + 1)
                                      /\ \A k \in 1 .. w : ~Called(h, o, n, cs, k)
<1> DEFINE s == MembersOf(h, o)
           at(w) == GetArrayItem(h, o, w)
           same(w) == SameName(n, h[at(w)].string, cs)
           hits == {w \in Index(h) : at(w) # Nil /\ same(w)}
<1>1. i = IF hits = {} THEN Nil ELSE at(Min(hits))
  BY DEF GetObjectItem
<1>2. /\ Len(s) \in Nat /\ DOMAIN s = 1 .. Len(s)
      /\ \A w \in Nat : at(w) # Nil <=> w < Len(s)
      /\ \A w \in Nat : w < Len(s) => s[w + 1] = at(w)
  BY MembersAre, LenProperties
<1>3. Index(h) \subseteq Nat /\ \A w \in Nat : w < Len(s) => w \in Index(h)
  <2>1. PICK m \in Nat : (\A w \in Nat : at(w) # Nil <=> w < m) /\ m <= Cardinality(DOMAIN h) + 1
    BY WalkEnds
  <2>2. Cardinality(DOMAIN h) \in Nat /\ Index(h) = 0 .. Cardinality(DOMAIN h)
    BY GoodPoints, FS_CardinalityType DEF Good, Points, Index
  <2> HIDE DEF s, at
  <2>3. \A w \in Nat : w < Len(s) => w < m
    BY <1>2, <2>1
  <2>4. QED
    BY <2>1, <2>2, <2>3
<1>4. \A w \in Nat : w < Len(s) => (Called(h, o, n, cs, w + 1) <=> w \in hits)
  <2> SUFFICES ASSUME NEW w \in Nat, w < Len(s) PROVE Called(h, o, n, cs, w + 1) <=> w \in hits
    OBVIOUS
  <2>1. w \in Index(h) /\ at(w) # Nil /\ s[w + 1] = at(w)
    BY <1>2, <1>3
  <2>2. Called(h, o, n, cs, w + 1) <=> same(w)
    BY <2>1 DEF Called
  <2> HIDE DEF at, same
  <2>3. QED
    BY <2>1, <2>2
<1>5. \A w \in hits : w \in Nat /\ w < Len(s) /\ at(w) # Nil
  <2> HIDE DEF at, same
  <2>1. QED
    BY <1>2, <1>3
<1> HIDE DEF s, at, hits
<1>6. CASE hits = {}
  <2>1. ASSUME NEW k \in DOMAIN s PROVE ~Called(h, o, n, cs, k)
    <3>1. k - 1 \in Nat /\ k - 1 < Len(s) /\ k - 1 + 1 = k
      BY <1>2
    <3>2. Called(h, o, n, cs, k - 1 + 1) <=> k - 1 \in hits
      BY <1>4, <3>1
    <3>3. QED
      BY <1>6, <3>1, <3>2
  <2>2. QED
    BY <1>1, <1>6, <2>1 DEF s
<1>7. CASE hits # {}
  <2>1. PICK w \in hits : \A y \in hits : w <= y
    BY <1>5, <1>7, LeastNumber
  <2>2. Min(hits) = w
    <3>1. \A y \in hits : (\A z \in hits : y <= z) => y = w
      BY <1>5, <2>1
    <3>2. QED
      BY <2>1, <3>1 DEF Min
  <2>3. i = at(w) /\ i # Nil /\ w \in Nat /\ w < Len(s)
    BY <1>1, <1>5, <1>7, <2>2
  <2>4. w + 1 \in DOMAIN s /\ Called(h, o, n, cs, w + 1)
    BY <1>2, <1>4, <2>3
  <2>5. ASSUME NEW k \in 1 .. w PROVE ~Called(h, o, n, cs, k)
    <3>1. k - 1 \in Nat /\ k - 1 < Len(s) /\ k - 1 + 1 = k /\ ~(w <= k - 1)
      BY <1>2, <2>3
    <3>2. Called(h, o, n, cs, k - 1 + 1) <=> k - 1 \in hits
      BY <1>4, <3>1
    <3>3. QED
      BY <2>1, <3>1, <3>2
  <2>6. QED
    BY <2>3, <2>4, <2>5 DEF s, at
<1>8. QED
  BY <1>6, <1>7

\* So it does in the present heap, seen in h with another name for an item that is no member.
LEMMA FirstFound ==
  ASSUME HeapInv, NEW h, Good(h, Roots), SameLinks(heap, h), NEW o \in Live, ~heap[o].isReference,
         \A x \in Live \ Roots : h[x].string = heap[x].string, NEW n, NEW cs,
         NEW i, i = GetObjectItem(h, o, n, cs)
  PROVE  /\ i = Nil => \A k \in DOMAIN Members(o) : ~FirstNamed(o, n, cs, k)
         /\ i # Nil => \E w \in Nat : /\ i = GetArrayItem(h, o, w) /\ FirstNamed(o, n, cs, w + 1)
                                      /\ w + 1 \in DOMAIN Members(o)
<1>1. Good(heap, Roots) /\ o \in DOMAIN heap /\ o \in DOMAIN h /\ ~h[o].isReference
  BY DEF HeapInv, Roots, Live, SameLinks
<1>2. MembersOf(h, o) = MembersOf(heap, o) /\ Members(o) = MembersOf(heap, o)
  <2>1. KidsOf(h) = KidsOf(heap)
    BY <1>1, KidsAlike
  <2>2. QED
    BY <1>1, <2>1, KidsSeq, KidsNow
<1>3. PICK s : s = MembersOf(heap, o) /\ s \in Seq(Live \ Roots) /\ DOMAIN s = 1 .. Len(s) /\ Len(s) \in Nat
  BY <1>1, MembersAre, LenProperties DEF Live
<1>4. \A k \in DOMAIN s : Called(h, o, n, cs, k) <=> SameName(n, heap[Members(o)[k]].string, cs)
  <2> SUFFICES ASSUME NEW k \in DOMAIN s
               PROVE  Called(h, o, n, cs, k) <=> SameName(n, heap[Members(o)[k]].string, cs)
    OBVIOUS
  <2>1. h[s[k]].string = heap[s[k]].string
    BY <1>3, ElementOfSeq
  <2>2. QED
    BY <1>2, <1>3, <2>1 DEF Called
<1>5. \A k \in DOMAIN s : FirstNamed(o, n, cs, k) <=>
        Called(h, o, n, cs, k) /\ \A j \in 1 .. k - 1 : ~Called(h, o, n, cs, j)
  <2> SUFFICES ASSUME NEW k \in DOMAIN s
               PROVE  FirstNamed(o, n, cs, k) <=>
                        Called(h, o, n, cs, k) /\ \A j \in 1 .. k - 1 : ~Called(h, o, n, cs, j)
    OBVIOUS
  <2>1. \A j \in 1 .. k - 1 : j \in DOMAIN s
    BY <1>3
  <2>2. k \in DOMAIN Members(o)
    BY <1>2, <1>3
  <2>3. QED
    BY <1>4, <2>1, <2>2, Zenon DEF FirstNamed
<1>6. CASE i = Nil
  BY <1>1, <1>2, <1>3, <1>5, <1>6, ItemCalled
<1>7. CASE i # Nil
  <2>1. PICK w \in Nat : /\ i = GetArrayItem(h, o, w) /\ w + 1 \in DOMAIN MembersOf(h, o)
                         /\ Called(h, o, n, cs, w + 1) /\ \A k \in 1 .. w : ~Called(h, o, n, cs, k)
    BY <1>1, <1>7, ItemCalled
  <2>2. w + 1 \in DOMAIN s /\ w + 1 - 1 = w
    BY <1>2, <1>3, <2>1
  <2>3. FirstNamed(o, n, cs, w + 1)
    BY <1>5, <2>1, <2>2
  <2>4. QED
    BY <1>2, <1>3, <1>7, <2>1, <2>2, <2>3
<1>8. QED
  BY <1>6, <1>7

\* cJSON_CreateNull ... cJSON_CreateObject make a tree of one item.
LEMMA CreateSteps ==
  ASSUME HeapInv, HeapInv', NEW i \in Items, NEW t \in Kinds, Create(i, t)
  PROVE  Lists!Grow(i, {i}) /\ Lists!Next
<1>1. /\ i \in Items \ DOMAIN heap /\ heap' = Alloc(heap, i, NewItem(t))
      /\ held' = held \cup {i} /\ lost' = lost
  BY DEF Create, Free, Live
<1>2. DOMAIN heap' = DOMAIN heap \cup {i} /\ \A x \in DOMAIN heap : heap'[x] = heap[x]
  BY <1>1 DEF Alloc
<1>3. Extends(heap, heap') /\ i \in DOMAIN heap' /\ i \notin Live
  BY <1>1, <1>2 DEF Extends, Live
<1>4. Roots' = Roots \cup {i}
  BY <1>1 DEF Roots
<1>5. Made = {i}
  BY <1>1, <1>2 DEF Made, Live
<1>6. QED
  BY <1>3, <1>4, <1>5, NewGrows

\* cJSON_CreateIntArray and its like make one with its members.
LEMMA CreateArrayOfSteps ==
  ASSUME HeapInv, HeapInv', NEW count \in Nat, NEW at, at \in Injections(0 .. count, Free),
         CreateArrayOf(count, at)
  PROVE  /\ Lists!Grow(at[0], Made) /\ Lists!Next
         /\ Members(at[0])' = [n \in 1 .. count |-> at[n]]
<1>1. 0 \in 0 .. count /\ at \in [0 .. count -> Free]
  BY DEF Injections
<1>2. DOMAIN heap' = Live \cup {at[k] : k \in 0 .. count} /\ \A x \in Live : heap'[x] = heap[x]
  BY DEF CreateArrayOf
<1>3. held' = held \cup {at[0]} /\ lost' = lost
  BY Zenon DEF CreateArrayOf
<1>4. PICK r : r = at[0]
  OBVIOUS
<1>5. r \in Free /\ r \in DOMAIN heap'
  BY <1>1, <1>2, <1>4
<1>6. Extends(heap, heap') /\ r \notin Live
  BY <1>2, <1>5 DEF Extends, Live, Free
<1>7. Roots' = Roots \cup {r}
  BY <1>3, <1>4 DEF Roots
<1>8. MembersOf(heap', r) = [n \in 1 .. count |-> at[n]]
  <2> DEFINE k == [x \in {at[n] : n \in 0 .. count} |-> heap'[x]]
             s == [n \in 1 .. count |-> at[n]]
  <2>1. ArrayAt(k, count, at) /\ \A x \in DOMAIN k : k[x] = heap'[x]
    BY ArrayCreated DEF Created
  <2> HIDE DEF k
  <2>2. \A n \in 0 .. count : at[n] \in DOMAIN k /\ k[at[n]] = heap'[at[n]] /\ at[n] \in DOMAIN heap'
    BY <1>2, <2>1 DEF ArrayAt
  <2>3. /\ ~heap'[r].isReference /\ heap'[r].child = IF count # 0 THEN at[1] ELSE Nil
        /\ \A n \in 1 .. count : heap'[at[n]].next = IF n = count THEN Nil ELSE at[n + 1]
    <3>1. ~k[r].isReference /\ k[r].child = IF count # 0 THEN at[1] ELSE Nil
      BY <1>1, <1>4, <2>1 DEF ArrayAt
    <3>2. ASSUME NEW n \in 1 .. count PROVE k[at[n]].next = IF n = count THEN Nil ELSE at[n + 1]
      BY <2>1 DEF ArrayAt
    <3>3. QED
      BY <1>1, <1>4, <2>2, <3>1, <3>2
  <2>4. s \in Seq(DOMAIN heap') /\ Len(s) = count /\ \A n \in 1 .. count : s[n] = at[n]
    BY <2>2
  <2> HIDE DEF s
  <2>5. IsList(heap', r, s)
    BY <2>3, <2>4 DEF IsList
  <2>6. Good(heap', Roots')
    BY DEF HeapInv, Roots
  <2>7. MembersOf(heap', r) = s
    BY <1>5, <2>3, <2>5, <2>6, ListIsMembers
  <2>8. QED
    BY <2>7 DEF s
<1>9. Members(r)' = MembersOf(heap', r) /\ at' = at
  BY DEF Members, MembersOf
<1>10. Members(at[0])' = [n \in 1 .. count |-> at[n]]
  BY <1>4, <1>8, <1>9
<1>11. QED
  BY <1>4, <1>5, <1>6, <1>7, <1>10, NewGrows

\* cJSON_Duplicate makes a tree of copies.
LEMMA DuplicateSteps ==
  ASSUME HeapInv, HeapInv', NEW i \in Live, NEW recurse \in BOOLEAN, NEW f,
         f \in Injections(Places(i, recurse), Free), Duplicate(i, recurse, f)
  PROVE  Lists!Grow(f[<<i>>], Made) /\ Lists!Next
<1>1. PICK P : P = Places(i, recurse)
  OBVIOUS
<1>2. <<i>> \in P
  <2>1. Points(heap) /\ i \in DOMAIN heap
    BY GoodPoints DEF HeapInv, Good, Live
  <2>2. WaysFrom(P, heap, i)
    BY <1>1, <2>1, PlacesAre
  <2>3. QED
    BY <2>2 DEF WaysFrom
<1>3. f \in [P -> Free]
  BY <1>1 DEF Injections
<1>4. DOMAIN heap' = Live \cup {f[p] : p \in DOMAIN f} /\ \A x \in Live : heap'[x] = heap[x]
  <2>1. DOMAIN heap' = Live \cup {f[p] : p \in DOMAIN f}
    BY Zenon DEF Duplicate
  <2>2. ASSUME NEW x \in Live PROVE heap'[x] = heap[x]
    BY <2>2, Zenon DEF Duplicate
  <2>3. QED
    BY <2>1, <2>2
<1>5. held' = held \cup {f[<<i>>]} /\ lost' = lost
  BY Zenon DEF Duplicate
<1>6. PICK p, r : p = <<i>> /\ r = f[p]
  OBVIOUS
<1>7. p \in DOMAIN f /\ r \in Free
  BY <1>2, <1>3, <1>6
<1>8. r \in DOMAIN heap'
  BY <1>4, <1>6, <1>7
<1>9. Extends(heap, heap') /\ r \notin Live
  BY <1>4, <1>7 DEF Extends, Live, Free
<1>10. Roots' = Roots \cup {r}
  BY <1>5, <1>6 DEF Roots
<1>11. QED
  BY <1>6, <1>8, <1>9, <1>10, NewGrows

\* cJSON_Delete fells a tree.
LEMMA DeleteItemSteps ==
  ASSUME HeapInv, HeapInv', NEW i, DeleteItem(i)
  PROVE  Lists!Fell(i) /\ Lists!Next
<1>1. i \in held /\ heap' = Delete(heap, i) /\ held' = held \ {i} /\ lost' = lost
  BY DEF DeleteItem
<1>2. i \in Roots /\ Roots' = Roots \ {i}
  BY <1>1 DEF HeapInv, Roots
<1>3. Good(heap, Roots) /\ Good(Delete(heap, i), Roots')
  BY <1>1 DEF HeapInv, Roots
<1>4. KidsOf(Delete(heap, i)) = Lists!Without(KidsOf(heap), Lists!Tree(KidsOf(heap), i))
  BY <1>2, <1>3, KidsDeleted
<1>5. QED
  BY <1>1, <1>2, <1>4, StepFell

\* cJSON_AddItemToArray links.
LEMMA AddItemToArraySteps ==
  ASSUME HeapInv, HeapInv', NEW a, NEW i, AddItemToArray(a, i)
  PROVE  Lists!Link(a, i, Behind(a)) /\ Lists!Next
<1>1. /\ a \in Live /\ MayAdd(a, i) /\ heap' = AddToArray(heap, a, i)
      /\ held' = held \ {i} /\ lost' = lost
  BY DEF AddItemToArray, Containers, Known
<1>2. i \in held /\ a \notin Freed(heap, i) /\ ~heap[a].isReference
  BY <1>1, Contract
<1>3. i \in Roots /\ Roots' = Roots \ {i} /\ Good(heap, Roots) /\ a \in DOMAIN heap
  BY <1>1, <1>2 DEF HeapInv, Roots, Live
<1>4. Good(heap', Roots \ {i}) /\ Appended(heap, heap', a, i)
  BY <1>1, <1>2, <1>3, GoodAddToArray
<1>5. SameLinks(heap, heap) /\ SameLinks(heap', heap')
  BY LinksOwn
<1>6. QED
  BY <1>1, <1>2, <1>3, <1>4, <1>5, AppendLinks

\* get_array_item returns NULL past the last member only.
LEMMA PastTheEnd ==
  ASSUME HeapInv, NEW a \in Live, ~heap[a].isReference, NEW w \in Nat, GetArrayItem(heap, a, w) = Nil
  PROVE  w + 1 \notin DOMAIN Members(a)
<1>1. Good(heap, Roots) /\ a \in DOMAIN heap
  BY DEF HeapInv, Roots, Live
<1>2. PICK s : s = MembersOf(heap, a) /\ Len(s) \in Nat /\ ~(w < Len(s)) /\ DOMAIN s = 1 .. Len(s)
  BY <1>1, MembersAre, LenProperties
<1>3. Members(a) = s
  BY <1>1, <1>2, KidsSeq, KidsNow
<1>4. QED
  BY <1>2, <1>3

\* cJSON_InsertItemInArray links.
LEMMA InsertItemInArraySteps ==
  ASSUME HeapInv, HeapInv', NEW a, NEW w \in Nat, NEW i, InsertItemInArray(a, w, i)
  PROVE  /\ Lists!Link(a, i, IF w + 1 \in DOMAIN Members(a) THEN w + 1 ELSE Behind(a))
         /\ Lists!Next
<1>0. PICK after : after = GetArrayItem(heap, a, w)
  OBVIOUS
<1>1. /\ a \in Live /\ MayAdd(a, i) /\ held' = held \ {i} /\ lost' = lost
      /\ heap' = IF after = Nil THEN AddToArray(heap, a, i) ELSE InsertBefore(heap, a, after, i)
  BY <1>0 DEF InsertItemInArray, Containers, Known
<1>2. i \in held /\ a \notin Freed(heap, i) /\ ~heap[a].isReference /\ Alone(heap, a)
  BY <1>1, Contract
<1>3. i \in Roots /\ Roots' = Roots \ {i} /\ Good(heap, Roots) /\ a \in DOMAIN heap
  BY <1>1, <1>2 DEF HeapInv, Roots, Live
<1>4. CASE after = Nil
  <2>1. Good(heap', Roots \ {i}) /\ Appended(heap, heap', a, i)
    BY <1>1, <1>2, <1>3, <1>4, GoodAddToArray
  <2>2. SameLinks(heap, heap) /\ SameLinks(heap', heap')
    BY LinksOwn
  <2>3. Lists!Link(a, i, Behind(a)) /\ Lists!Next
    BY <1>1, <1>2, <1>3, <2>1, <2>2, AppendLinks
  <2>4. w + 1 \notin DOMAIN Members(a)
    BY <1>0, <1>1, <1>2, <1>3, <1>4, PastTheEnd
  <2>5. QED
    BY <2>3, <2>4
<1>5. CASE after # Nil
  <2>1. heap' = InsertBefore(heap, a, after, i)
    BY <1>1, <1>5
  <2>2. w + 1 \in DOMAIN Members(a) /\ Lists!Link(a, i, w + 1) /\ Lists!Next
    BY <1>0, <1>1, <1>2, <1>3, <1>5, <2>1, InsertLinks
  <2>3. QED
    BY <2>2
<1>6. QED
  BY <1>4, <1>5

\* Names that change, and an item that is lost, change nothing in the forest.
LEMMA NamesOnly ==
  ASSUME HeapInv, HeapInv', SameLinks(heap, heap'), Roots' = Roots
  PROVE  UNCHANGED Lists!vars
<1>1. Good(heap, Roots) /\ Good(heap', Roots')
  BY DEF HeapInv, Roots
<1>2. KidsOf(heap') = KidsOf(heap)
  BY <1>1, KidsAlike
<1>3. QED
  BY <1>2, StepNone

\* cJSON_ReplaceItemInArray swaps, or loses the new item.
LEMMA ReplaceItemInArraySteps ==
  ASSUME HeapInv, HeapInv', NEW a, NEW w \in Nat, NEW new, ReplaceItemInArray(a, w, new)
  PROVE  IF w + 1 \in DOMAIN Members(a) THEN Lists!Swap(a, w + 1, new) /\ Lists!Next
         ELSE UNCHANGED Lists!vars
<1>0. PICK i : i = GetArrayItem(heap, a, w)
  OBVIOUS
<1>1. /\ a \in Live /\ MayAdd(a, new) /\ held' = held \ {new}
      /\ heap' = IF i = Nil THEN heap ELSE ReplaceViaPointer(heap, a, i, new)
      /\ lost' = IF i = Nil THEN lost \cup {new} ELSE lost
  BY <1>0 DEF ReplaceItemInArray, Containers, Known
<1>2. new \in held /\ a \notin Freed(heap, new) /\ Alone(heap, a) /\ ~heap[a].isReference
  BY <1>1, Contract
<1>3. SameLinks(heap, heap) /\ Good(heap, Roots) /\ new \in Roots
  BY <1>2, LinksOwn DEF HeapInv, Roots
<1>4. CASE i = Nil
  <2>1. Roots' = Roots /\ SameLinks(heap, heap')
    BY <1>1, <1>2, <1>3, <1>4 DEF Roots
  <2>2. w + 1 \notin DOMAIN Members(a)
    BY <1>0, <1>1, <1>2, <1>4, PastTheEnd
  <2>3. QED
    BY <2>1, <2>2, NamesOnly
<1>5. CASE i # Nil
  <2>1. Roots' = Roots \ {new} /\ heap' = ReplaceViaPointer(heap, a, i, new)
    BY <1>1, <1>2, <1>5 DEF HeapInv, Roots
  <2>2. w + 1 \in DOMAIN Members(a) /\ Lists!Swap(a, w + 1, new) /\ Lists!Next
    BY <1>0, <1>2, <1>3, <1>5, <2>1, ReplaceSwaps
  <2>3. QED
    BY <2>2
<1>6. QED
  BY <1>4, <1>5

\* replace_item_in_object does so with the new item renamed.
LEMMA ReplaceItemInObjectSteps ==
  ASSUME HeapInv, HeapInv', NEW o, NEW n \in Names, NEW new, NEW cs \in BOOLEAN, NEW copied \in BOOLEAN,
         ReplaceItemInObject(o, n, new, cs, copied)
  PROVE  \/ \E k \in DOMAIN Members(o) : FirstNamed(o, n, cs, k) /\ Lists!Swap(o, k, new) /\ Lists!Next
         \/ (\A k \in DOMAIN Members(o) : ~FirstNamed(o, n, cs, k)) /\ UNCHANGED Lists!vars
<1> DEFINE name == IF copied THEN n ELSE NoName
<1>0. PICK h : h = WithName(heap, new, name, copied, FALSE)
  OBVIOUS
<1>1. PICK i : i = GetObjectItem(h, o, n, cs)
  OBVIOUS
<1>2. /\ o \in Live /\ MayAdd(o, new) /\ held' = held \ {new}
      /\ heap' = IF i = Nil THEN h ELSE ReplaceViaPointer(h, o, i, new)
      /\ lost' = IF i = Nil THEN lost \cup {new} ELSE lost
  BY <1>0, <1>1 DEF ReplaceItemInObject, Containers, Known, WithName
<1>3. new \in held /\ new \in DOMAIN heap /\ o \notin Freed(heap, new) /\ Alone(heap, o) /\ ~heap[o].isReference
  BY <1>2, Contract DEF Live
<1>4. name \in Names \cup {NoName} /\ FALSE \in BOOLEAN
  OBVIOUS
<1> HIDE DEF name
<1>5. Good(heap, Roots) /\ new \in Roots
  BY <1>3 DEF HeapInv, Roots
<1>6. /\ Good(h, Roots) /\ SameLinks(heap, h)
      /\ \A x \in Live \ Roots : h[x].string = heap[x].string
  <2>1. Renamed(heap, WithName(heap, new, name, copied, FALSE), Roots, new, name, copied, FALSE)
    BY <1>3, <1>4, <1>5, GoodName, Zenon
  <2>2. QED
    BY <1>0, <1>5, <2>1 DEF Renamed, NamedAnew, Live
<1>7. CASE i = Nil
  <2>1. Roots' = Roots /\ SameLinks(heap, heap')
    BY <1>2, <1>3, <1>6, <1>7 DEF Roots
  <2>2. \A k \in DOMAIN Members(o) : ~FirstNamed(o, n, cs, k)
    BY <1>1, <1>2, <1>3, <1>6, <1>7, FirstFound
  <2>3. QED
    BY <2>1, <2>2, NamesOnly
<1>8. CASE i # Nil
  <2>1. Roots' = Roots \ {new} /\ heap' = ReplaceViaPointer(h, o, i, new)
    BY <1>2, <1>3, <1>8 DEF HeapInv, Roots
  <2>2. PICK w \in Nat : /\ i = GetArrayItem(h, o, w) /\ FirstNamed(o, n, cs, w + 1)
                         /\ w + 1 \in DOMAIN Members(o)
    BY <1>1, <1>2, <1>3, <1>6, <1>8, FirstFound
  <2>3. Lists!Swap(o, w + 1, new) /\ Lists!Next
    BY <1>3, <1>5, <1>6, <1>8, <2>1, <2>2, ReplaceSwaps
  <2>4. QED
    BY <2>2, <2>3
<1>9. QED
  BY <1>7, <1>8

\* cJSON_AddItemToObjectCS links.
LEMMA AddItemToObjectCSSteps ==
  ASSUME HeapInv, HeapInv', NEW o, NEW n \in Names, NEW i, AddItemToObjectCS(o, n, i)
  PROVE  Lists!Link(o, i, Behind(o)) /\ Lists!Next
<1>1. /\ o \in Live /\ MayAdd(o, i) /\ heap' = AddToObjectCS(heap, o, n, i, FALSE)
      /\ held' = held \ {i} /\ lost' = lost
  BY DEF AddItemToObjectCS, Containers, Known
<1>2. i \in held /\ o \notin Freed(heap, i) /\ ~heap[o].isReference
  BY <1>1, Contract
<1>3. /\ i \in Roots /\ Roots' = Roots \ {i} /\ Good(heap, Roots) /\ o \in DOMAIN heap
      /\ FALSE \in BOOLEAN
  BY <1>1, <1>2 DEF HeapInv, Roots, Live
<1>4. PICK h : Good(h, Roots) /\ SameLinks(heap, h) /\ Appended(h, heap', o, i)
  BY <1>1, <1>2, <1>3, ObjectCSAppends
<1>5. SameLinks(heap', heap') /\ Good(heap', Roots \ {i})
  BY <1>3, LinksOwn DEF HeapInv, Roots
<1>6. QED
  BY <1>1, <1>2, <1>3, <1>4, <1>5, AppendLinks

\* cJSON_AddItemToObject links, or loses the item.
LEMMA AddItemToObjectSteps ==
  ASSUME HeapInv, HeapInv', NEW o, NEW n \in Names, NEW i, NEW copied \in BOOLEAN,
         AddItemToObject(o, n, i, copied)
  PROVE  IF copied THEN Lists!Link(o, i, Behind(o)) /\ Lists!Next ELSE UNCHANGED Lists!vars
<1>0. PICK g : g = IF copied THEN AddToObjectCS(heap, o, n, i, TRUE) ELSE heap
  OBVIOUS
<1>1. /\ o \in Live /\ MayAdd(o, i) /\ heap' = [g EXCEPT ![i].stringIsConst = FALSE]
      /\ held' = held \ {i} /\ lost' = IF copied THEN lost ELSE lost \cup {i}
  BY <1>0 DEF AddItemToObject, Containers, Known
<1>2. i \in held /\ o \notin Freed(heap, i) /\ ~heap[o].isReference
  BY <1>1, Contract
<1>3. i \in Roots /\ Good(heap, Roots) /\ o \in DOMAIN heap /\ i \in DOMAIN heap /\ TRUE \in BOOLEAN
  BY <1>1, <1>2 DEF HeapInv, Roots, Live, Good, Rooted
<1>4. CASE copied
  <2>1. g = AddToObjectCS(heap, o, n, i, TRUE)
    BY <1>0, <1>4
  <2>2. Good(g, Roots \ {i}) /\ \E m : Good(m, Roots) /\ SameLinks(heap, m) /\ Appended(m, g, o, i)
    BY <1>2, <1>3, <2>1, ObjectCSAppends
  <2>3. PICK h : Good(h, Roots) /\ SameLinks(heap, h) /\ Appended(h, g, o, i)
    BY <2>2
  <2>4. i \in DOMAIN g
    BY <1>3, <2>3 DEF SameLinks, Appended, Inserted
  <2>5. SameLinks(g, heap')
    BY <1>1, <2>2, <2>4, GoodFlag
  <2>6. Roots' = Roots \ {i}
    BY <1>1, <1>2, <1>4 DEF HeapInv, Roots
  <2>7. Lists!Link(o, i, Behind(o)) /\ Lists!Next
    BY <1>1, <1>2, <1>3, <2>2, <2>3, <2>5, <2>6, AppendLinks
  <2>8. QED
    BY <1>4, <2>7
<1>5. CASE ~copied
  <2>1. heap' = [heap EXCEPT ![i].stringIsConst = FALSE]
    BY <1>0, <1>1, <1>5
  <2>2. SameLinks(heap, heap')
    BY <1>3, <2>1, GoodFlag
  <2>3. Roots' = Roots
    BY <1>1, <1>2, <1>5 DEF Roots
  <2>4. QED
    BY <1>5, <2>2, <2>3, NamesOnly
<1>6. QED
  BY <1>4, <1>5

\* cJSON_AddItemReferenceToArray refers.
LEMMA AddItemReferenceToArraySteps ==
  ASSUME HeapInv, HeapInv', NEW a, NEW i, NEW r, AddItemReferenceToArray(a, i, r)
  PROVE  Lists!Refer(a, r) /\ Lists!Next
<1>0. PICK h : h = Alloc(heap, r, Reference(heap, i))
  OBVIOUS
<1>1. /\ a \in Live /\ Unshared(a) /\ i \in Live /\ r \in Free
      /\ a \notin Freed([heap EXCEPT ![i].next = Nil], i)
      /\ heap' = AddToArray(h, a, r) /\ held' = held /\ lost' = lost
  BY <1>0 DEF AddItemReferenceToArray, Containers, Known
<1>2. Good(h, held \cup lost \cup {r}) /\ ~h[a].isReference /\ a \notin Freed(h, r)
  BY <1>0, <1>1, NewReference
<1>3. Good(h, Roots \cup {r}) /\ ~heap[a].isReference /\ Roots' = Roots
  BY <1>1, <1>2 DEF Roots, Unshared
<1>4. WithReference(h, r)
  BY <1>0, <1>1, ReferenceIs
<1>5. a \in DOMAIN h /\ r \in Roots \cup {r}
  BY <1>1, <1>4 DEF WithReference
<1>6. Good(heap', (Roots \cup {r}) \ {r}) /\ Appended(h, heap', a, r)
  BY <1>1, <1>2, <1>3, <1>5, GoodAddToArray
<1>7. SameLinks(h, h) /\ SameLinks(heap', heap')
  BY LinksOwn
<1>8. QED
  BY <1>1, <1>3, <1>4, <1>6, <1>7, ReferenceRefers

\* cJSON_AddItemReferenceToObject refers, or loses a tree of one item.
LEMMA AddItemReferenceToObjectSteps ==
  ASSUME HeapInv, HeapInv', NEW o, NEW n \in Names, NEW i, NEW r, NEW copied \in BOOLEAN,
         AddItemReferenceToObject(o, n, i, r, copied)
  PROVE  (IF copied THEN Lists!Refer(o, r) ELSE Lists!Grow(r, {r})) /\ Lists!Next
<1>0. PICK mid : mid = Alloc(heap, r, Reference(heap, i))
  OBVIOUS
<1>1. PICK g : g = IF copied THEN AddToObjectCS(mid, o, n, r, TRUE) ELSE mid
  OBVIOUS
<1>2. /\ o \in Live /\ Unshared(o) /\ i \in Live /\ r \in Free
      /\ o \notin Freed([heap EXCEPT ![i].next = Nil], i)
      /\ heap' = [g EXCEPT ![r].stringIsConst = FALSE]
      /\ held' = held /\ lost' = IF copied THEN lost ELSE lost \cup {r}
  BY <1>0, <1>1 DEF AddItemReferenceToObject, Containers, Known
<1>3. Good(mid, held \cup lost \cup {r}) /\ ~mid[o].isReference /\ o \notin Freed(mid, r)
  BY <1>0, <1>2, NewReference
<1>4. PICK P : P = Roots \cup {r} /\ Good(mid, P)
  BY <1>3 DEF Roots
<1>5. WithReference(mid, r) /\ ~heap[o].isReference
  BY <1>0, <1>2, ReferenceIs DEF Unshared
<1>6. o \in DOMAIN mid /\ r \in DOMAIN mid /\ r \in P /\ TRUE \in BOOLEAN
  BY <1>2, <1>4, <1>5 DEF WithReference
<1>7. CASE copied
  <2>1. g = AddToObjectCS(mid, o, n, r, TRUE)
    BY <1>1, <1>7
  <2>2. Good(g, P \ {r}) /\ \E m : Good(m, P) /\ SameLinks(mid, m) /\ Appended(m, g, o, r)
    BY <1>3, <1>4, <1>6, <2>1, ObjectCSAppends
  <2>3. PICK h : Good(h, P) /\ SameLinks(mid, h) /\ Appended(h, g, o, r)
    BY <2>2
  <2>4. r \in DOMAIN g
    BY <1>6, <2>3 DEF SameLinks, Appended, Inserted
  <2>5. SameLinks(g, heap')
    BY <1>2, <2>2, <2>4, GoodFlag
  <2>6. Roots' = Roots
    BY <1>2, <1>7 DEF Roots
  <2>7. Good(mid, Roots \cup {r}) /\ Good(h, Roots \cup {r})
    BY <1>4, <2>3
  <2>8. QED
    BY <1>2, <1>5, <1>7, <2>2, <2>3, <2>5, <2>6, <2>7, ReferenceRefers
<1>8. CASE ~copied
  <2>1. heap' = [mid EXCEPT ![r].stringIsConst = FALSE]
    BY <1>1, <1>2, <1>8
  <2>2. SameLinks(mid, heap')
    BY <1>4, <1>6, <2>1, GoodFlag
  <2>3. Extends(heap, heap') /\ r \in DOMAIN heap' /\ r \notin Live
    BY <1>2, <1>5, <1>6, <2>2 DEF WithReference, SameLinks, Extends, Free
  <2>4. Roots' = Roots \cup {r}
    BY <1>2, <1>8 DEF Roots
  <2>5. Made = {r}
    BY <1>2, <1>5, <2>2 DEF WithReference, SameLinks, Made, Live, Free
  <2>6. QED
    BY <1>8, <2>3, <2>4, <2>5, NewGrows
<1>9. QED
  BY <1>7, <1>8

\* cJSON_DetachItemFromArray and cJSON_DeleteItemFromArray take out the member at the index.
LEMMA DetachFromArraySteps ==
  ASSUME HeapInv, HeapInv', NEW a, NEW w \in Nat, DetachItemFromArray(a, w) \/ DeleteItemFromArray(a, w)
  PROVE  /\ DetachItemFromArray(a, w) => Lists!Unlink(a, w + 1)
         /\ DeleteItemFromArray(a, w) => Lists!Prune(a, w + 1)
         /\ Lists!Next
<1>1. PICK i : i = GetArrayItem(heap, a, w)
  OBVIOUS
<1>2. a \in Live /\ Unshared(a) /\ i # Nil /\ lost' = lost
  BY <1>1 DEF DetachItemFromArray, DeleteItemFromArray, Containers, Known
<1>3. /\ DetachItemFromArray(a, w) => heap' = DetachViaPointer(heap, a, i) /\ held' = held \cup {i}
      /\ DeleteItemFromArray(a, w) => heap' = Delete(DetachViaPointer(heap, a, i), i) /\ held' = held
  BY <1>1 DEF DetachItemFromArray, DeleteItemFromArray
<1>4. QED
  BY <1>1, <1>2, <1>3, DetachUnlinks

\* cJSON_DetachItemFromObject and cJSON_DeleteItemFromObject take out the first member with
\* the name.
LEMMA DetachFromObjectSteps ==
  ASSUME HeapInv, HeapInv', NEW o, NEW n, NEW cs,
         DetachItemFromObject(o, n, cs) \/ DeleteItemFromObject(o, n, cs)
  PROVE  /\ DetachItemFromObject(o, n, cs) =>
              \E k \in DOMAIN Members(o) : FirstNamed(o, n, cs, k) /\ Lists!Unlink(o, k)
         /\ DeleteItemFromObject(o, n, cs) =>
              \E k \in DOMAIN Members(o) : FirstNamed(o, n, cs, k) /\ Lists!Prune(o, k)
         /\ Lists!Next
<1>1. PICK i : i = GetObjectItem(heap, o, n, cs)
  OBVIOUS
<1>2. o \in Live /\ Unshared(o) /\ i # Nil /\ lost' = lost
  BY <1>1 DEF DetachItemFromObject, DeleteItemFromObject, Containers, Known
<1>3. /\ DetachItemFromObject(o, n, cs) => heap' = DetachViaPointer(heap, o, i) /\ held' = held \cup {i}
      /\ DeleteItemFromObject(o, n, cs) => heap' = Delete(DetachViaPointer(heap, o, i), i) /\ held' = held
  BY <1>1 DEF DetachItemFromObject, DeleteItemFromObject
<1>4. Good(heap, Roots) /\ SameLinks(heap, heap) /\ ~heap[o].isReference
  BY <1>2, Contract, LinksOwn DEF HeapInv, Roots
<1>5. PICK w \in Nat : /\ i = GetArrayItem(heap, o, w) /\ FirstNamed(o, n, cs, w + 1)
                       /\ w + 1 \in DOMAIN Members(o)
  BY <1>1, <1>2, <1>4, FirstFound
<1>6. /\ DetachItemFromObject(o, n, cs) => Lists!Unlink(o, w + 1)
      /\ DeleteItemFromObject(o, n, cs) => Lists!Prune(o, w + 1)
      /\ Lists!Next
  BY <1>2, <1>3, <1>5, DetachUnlinks
<1>7. QED
  BY <1>5, <1>6

\* Every call is a step of the forest, or changes nothing in it.
LEMMA CallsStep ==
  ASSUME HeapInv, HeapInv', Next
  PROVE  [Lists!Next]_(Lists!vars)
<1> DEFINE Steps == [Lists!Next]_(Lists!vars)
<1>0. Lists!Next => Steps
  OBVIOUS
<1> HIDE DEF Steps
<1>1. ASSUME NEW i \in Items, NEW t \in Kinds, Create(i, t) PROVE Steps
  BY <1>0, <1>1, CreateSteps
<1>2. ASSUME NEW count \in 0 .. MaxCount, NEW at \in Injections(0 .. count, Free), CreateArrayOf(count, at)
      PROVE  Steps
  <2>1. count \in Nat
    BY MaxCountAssumption
  <2>2. Lists!Next
    BY <1>2, <2>1, CreateArrayOfSteps
  <2>3. QED
    BY <1>0, <2>2
<1>3. Index(heap) \subseteq Nat
  BY DEF Index
<1>4. Known \subseteq Live /\ \A t : Containers(t) \subseteq Live
  BY DEF Known, Containers
<1>5. ASSUME NEW a, NEW i, AddItemToArray(a, i) PROVE Steps
  BY <1>0, <1>5, AddItemToArraySteps
<1>6. ASSUME NEW a, NEW i, NEW r, AddItemReferenceToArray(a, i, r) PROVE Steps
  BY <1>0, <1>6, AddItemReferenceToArraySteps
<1>7. ASSUME NEW a, NEW w \in Index(heap), DetachItemFromArray(a, w) \/ DeleteItemFromArray(a, w)
      PROVE  Steps
  BY <1>0, <1>3, <1>7, DetachFromArraySteps
<1>8. ASSUME NEW a, NEW w \in Index(heap), NEW i, InsertItemInArray(a, w, i) PROVE Steps
  BY <1>0, <1>3, <1>8, InsertItemInArraySteps
<1>9. ASSUME NEW a, NEW w \in Index(heap), NEW i, ReplaceItemInArray(a, w, i) PROVE Steps
  BY <1>3, <1>9, ReplaceItemInArraySteps DEF Steps
<1>10. ASSUME NEW o, NEW n \in Names, NEW i, NEW copied \in BOOLEAN, AddItemToObject(o, n, i, copied)
       PROVE  Steps
  BY <1>10, AddItemToObjectSteps DEF Steps
<1>11. ASSUME NEW o, NEW n \in Names, NEW i, AddItemToObjectCS(o, n, i) PROVE Steps
  BY <1>0, <1>11, AddItemToObjectCSSteps
<1>12. ASSUME NEW o, NEW n \in Names, NEW i, NEW r, NEW copied \in BOOLEAN,
              AddItemReferenceToObject(o, n, i, r, copied)
       PROVE  Steps
  BY <1>0, <1>12, AddItemReferenceToObjectSteps
<1>13. ASSUME NEW o, NEW n \in Names, NEW cs \in BOOLEAN,
              DetachItemFromObject(o, n, cs) \/ DeleteItemFromObject(o, n, cs)
       PROVE  Steps
  BY <1>0, <1>13, DetachFromObjectSteps
<1>14. ASSUME NEW o, NEW n \in Names, NEW i, NEW cs \in BOOLEAN, NEW copied \in BOOLEAN,
              ReplaceItemInObject(o, n, i, cs, copied)
       PROVE  Steps
  BY <1>14, ReplaceItemInObjectSteps DEF Steps
<1>15. ASSUME NEW i \in Known, NEW recurse \in BOOLEAN,
              NEW f \in Injections(Places(i, recurse), Free), Duplicate(i, recurse, f)
       PROVE  Steps
  BY <1>0, <1>4, <1>15, DuplicateSteps
<1>16. ASSUME NEW i \in held, DeleteItem(i) PROVE Steps
  BY <1>0, <1>16, DeleteItemSteps
<1>17. Steps
  BY <1>1, <1>2, <1>5, <1>6, <1>7, <1>8, <1>9, <1>10, <1>11, <1>12, <1>13, <1>14, <1>15, <1>16 DEF Next
<1>18. QED
  BY <1>17 DEF Steps

-----------------------------------------------------------------------------
(* Which step each call is.                                                *)

\* The calls that make items.
LEMMA MakingSteps ==
  ASSUME HeapInv, HeapInv'
  PROVE  MakingCalls
<1>1. Known \subseteq Live /\ Made \subseteq Free
  <2>1. Good(heap', (held \cup lost)')
    BY DEF HeapInv
  <2>2. DOMAIN heap' \subseteq Items
    BY <2>1 DEF Good, Typed
  <2>3. QED
    BY <2>2 DEF Known, Made, Free, Live
<1>2. Made \subseteq Items
  BY <1>1 DEF Free
<1>3. \A i \in Made, t \in Kinds : Create(i, t) => Lists!Grow(i, {i})
  BY <1>2, CreateSteps
<1>4. ASSUME NEW count \in 0 .. MaxCount, NEW at \in Injections(0 .. count, Made), CreateArrayOf(count, at)
      PROVE  /\ Lists!Grow(at[0], Made)
             /\ Members(at[0])' = [k \in 1 .. count |-> at[k]]
  <2>1. count \in Nat
    BY MaxCountAssumption
  <2>2. at \in Injections(0 .. count, Free)
    BY <1>1 DEF Injections
  <2>3. QED
    BY <1>4, <2>1, <2>2, CreateArrayOfSteps
<1>5. ASSUME NEW i \in Known, NEW recurse \in BOOLEAN, NEW f \in Injections(Places(i, recurse), Made),
             Duplicate(i, recurse, f)
      PROVE  Lists!Grow(f[<<i>>], Made)
  <2>1. f \in Injections(Places(i, recurse), Free) /\ i \in Live
    BY <1>1 DEF Injections
  <2>2. QED
    BY <1>5, <2>1, DuplicateSteps
<1>6. \A a, i, r : AddItemReferenceToArray(a, i, r) => Lists!Refer(a, r)
  BY AddItemReferenceToArraySteps
<1>7. \A o, i, r : \A n \in Names, copied \in BOOLEAN : AddItemReferenceToObject(o, n, i, r, copied) =>
        IF copied THEN Lists!Refer(o, r) ELSE Lists!Grow(r, {r})
  BY AddItemReferenceToObjectSteps
<1>8. QED
  BY <1>3, <1>4, <1>5, <1>6, <1>7 DEF MakingCalls

\* The calls that take an item.
LEMMA TakingSteps ==
  ASSUME HeapInv, HeapInv'
  PROVE  TakingCalls
<1>1. Index(heap) \subseteq Nat
  BY DEF Index
<1>2. ASSUME NEW a, NEW i PROVE ArrayTakes(a, i)
  <2>1. AddItemToArray(a, i) => Lists!Link(a, i, Behind(a))
    BY AddItemToArraySteps
  <2>2. ASSUME NEW w \in Index(heap), InsertItemInArray(a, w, i)
        PROVE  Lists!Link(a, i, IF w + 1 \in DOMAIN Members(a) THEN w + 1 ELSE Behind(a))
    BY <1>1, <2>2, InsertItemInArraySteps
  <2>3. ASSUME NEW w \in Index(heap), ReplaceItemInArray(a, w, i)
        PROVE  IF w + 1 \in DOMAIN Members(a) THEN Lists!Swap(a, w + 1, i) ELSE UNCHANGED Lists!vars
    BY <1>1, <2>3, ReplaceItemInArraySteps
  <2>4. QED
    BY <2>1, <2>2, <2>3 DEF ArrayTakes
<1>3. ASSUME NEW o, NEW n \in Names, NEW i PROVE ObjectTakes(o, n, i)
  <2>1. AddItemToObjectCS(o, n, i) => Lists!Link(o, i, Behind(o))
    BY AddItemToObjectCSSteps
  <2>2. ASSUME NEW copied \in BOOLEAN, AddItemToObject(o, n, i, copied)
        PROVE  IF copied THEN Lists!Link(o, i, Behind(o)) ELSE UNCHANGED Lists!vars
    BY <2>2, AddItemToObjectSteps
  <2>3. ASSUME NEW copied \in BOOLEAN, NEW cs \in BOOLEAN, ReplaceItemInObject(o, n, i, cs, copied)
        PROVE  \/ \E k \in DOMAIN Members(o) : FirstNamed(o, n, cs, k) /\ Lists!Swap(o, k, i)
               \/ /\ \A k \in DOMAIN Members(o) : ~FirstNamed(o, n, cs, k)
                  /\ UNCHANGED Lists!vars
    BY <2>3, ReplaceItemInObjectSteps
  <2>4. QED
    BY <2>1, <2>2, <2>3 DEF ObjectTakes
<1>4. \A i : DeleteItem(i) => Lists!Fell(i)
  BY DeleteItemSteps
<1>5. QED
  BY <1>2, <1>3, <1>4 DEF TakingCalls

\* The calls that take a member out of its container.
LEMMA RemovingSteps ==
  ASSUME HeapInv, HeapInv'
  PROVE  DetachingCalls /\ DeletingCalls
<1>1. Index(heap) \subseteq Nat
  BY DEF Index
<1>2. ASSUME NEW a, NEW w \in Index(heap)
      PROVE  /\ DetachItemFromArray(a, w) => Lists!Unlink(a, w + 1)
             /\ DeleteItemFromArray(a, w) => Lists!Prune(a, w + 1)
  BY <1>1, DetachFromArraySteps
<1>3. \A o, n, cs :
        /\ DetachItemFromObject(o, n, cs) =>
             \E k \in DOMAIN Members(o) : FirstNamed(o, n, cs, k) /\ Lists!Unlink(o, k)
        /\ DeleteItemFromObject(o, n, cs) =>
             \E k \in DOMAIN Members(o) : FirstNamed(o, n, cs, k) /\ Lists!Prune(o, k)
  BY DetachFromObjectSteps
<1>4. QED
  BY <1>2, <1>3 DEF DetachingCalls, DeletingCalls

\* The doubly linked lists of cJSON.cc are sequences to the caller: what a call does to the
\* children of the containers and to what the caller owns is a step of Forest, or nothing,
\* and it is the step that the name of the call says, at the place that its index or its name
\* gives: an append behind the last member, an insert before the member at the index, a
\* detach, delete or replace of that member or of the first one with the name. A call that
\* fails changes nothing in the lists. On any number of items, created arrays of any length.
THEOREM RefinesForest == Spec => ImplementsForest
<1>1. Init => Lists!Init
  BY DEF Init, Lists!Init, Live
<1>2. HeapInv /\ HeapInv' /\ [Next]_vars => [Lists!Next]_(Lists!vars)
  <2> SUFFICES ASSUME HeapInv, HeapInv', [Next]_vars PROVE [Lists!Next]_(Lists!vars)
    OBVIOUS
  <2>1. CASE Next
    BY <2>1, CallsStep
  <2>2. CASE UNCHANGED vars
    <3>1. Roots' = Roots /\ KidsOf(heap') = KidsOf(heap)
      BY <2>2 DEF vars, Roots
    <3>2. QED
      BY <3>1, StepNone
  <2>3. QED
    BY <2>1, <2>2
<1>3. HeapInv /\ HeapInv' => CallsDoTheirStep
  BY MakingSteps, TakingSteps, RemovingSteps DEF CallsDoTheirStep
<1>4. Spec => [][CallsDoTheirStep]_vars
  BY <1>3, Invariance, PTL
<1>5. Spec => Lists!Spec
  BY <1>1, <1>2, Invariance, PTL DEF Spec, Lists!Spec
<1>6. QED
  BY <1>4, <1>5 DEF ImplementsForest
=============================================================================
