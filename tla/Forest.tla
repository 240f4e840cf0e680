------------------------------- MODULE Forest -------------------------------
(* What the item functions of cJSON promise: a forest whose nodes keep their
   children in a sequence. The caller owns the roots; a child is owned by its
   container and by nobody else, so that deleting a root deletes its tree.    *)
EXTENDS Naturals, Sequences, SequencesExt, FiniteSets

CONSTANT Items

VARIABLES kids,  \* the children of every existing item, in order
          roots  \* the items the caller owns

vars == <<kids, roots>>

Existing == DOMAIN kids

(* The item and everything below it. *)
Tree(k, i) ==
  LET Down[n \in Nat] ==
        IF n = 0 THEN {i} ELSE Down[n - 1] \cup UNION {ToSet(k[x]) : x \in Down[n - 1]}
  IN  Down[Cardinality(DOMAIN k)]

(* A tree of new items appears and belongs to the caller. *)
Grow(r, new) ==
  /\ r \in new /\ roots' = roots \cup {r}
  /\ DOMAIN kids' = Existing \cup new
  /\ \A i \in Existing : kids'[i] = kids[i]
  /\ Tree(kids', r) = new

(* The caller gives a root to a container, at one place of its sequence. *)
Link(c, i, n) ==
  /\ roots' = roots \ {i}
  /\ c \in Existing \ Tree(kids, i)
  /\ n \in 1..Len(kids[c]) + 1
  /\ kids' = [kids EXCEPT ![c] = InsertAt(@, n, i)]

(* A container gets a new item that owns nothing: a reference. *)
Refer(c, i) ==
  /\ i \notin Existing
  /\ kids' = [x \in Existing \cup {i} |-> IF x = i THEN <<>> ELSE IF x = c THEN Append(kids[c], i) ELSE kids[x]]
  /\ UNCHANGED roots

(* The caller takes a child back. *)
Unlink(c, n) ==
  /\ n \in DOMAIN kids[c]
  /\ kids' = [kids EXCEPT ![c] = RemoveAt(@, n)]
  /\ roots' = roots \cup {kids[c][n]}

Without(k, gone) == [i \in DOMAIN k \ gone |-> k[i]]

(* A child is deleted with everything below it. *)
Prune(c, n) ==
  /\ n \in DOMAIN kids[c]
  /\ kids' = Without([kids EXCEPT ![c] = RemoveAt(@, n)], Tree(kids, kids[c][n]))
  /\ UNCHANGED roots

(* A root takes the place of a child, which is deleted. *)
Swap(c, n, i) ==
  /\ roots' = roots \ {i}
  /\ c \in Existing \ Tree(kids, i)
  /\ n \in DOMAIN kids[c]
  /\ kids' = Without([kids EXCEPT ![c] = [@ EXCEPT ![n] = i]], Tree(kids, kids[c][n]))

(* A root is deleted with everything below it. *)
Fell(i) ==
  /\ kids' = Without(kids, Tree(kids, i))
  /\ roots' = roots \ {i}

Init == kids = [i \in {} |-> <<>>] /\ roots = {}

Next ==
  \/ \E r \in Items \ Existing : \E new \in SUBSET (Items \ Existing) : Grow(r, new)
  \/ \E c \in Existing, i \in roots : \E n \in 1..Len(kids[c]) + 1 : Link(c, i, n) \/ Swap(c, n, i)
  \/ \E c \in Existing : \E n \in DOMAIN kids[c] : Unlink(c, n) \/ Prune(c, n)
  \/ \E c \in Existing, i \in Items : Refer(c, i)
  \/ \E i \in roots : Fell(i)

Spec == Init /\ [][Next]_vars
=============================================================================
