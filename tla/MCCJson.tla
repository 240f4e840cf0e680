------------------------------ MODULE MCCJson ------------------------------
(* CJson within bounds: how many items at once are containers, objects, references
   or lost (astray), and named or astray (marked).                             *)
EXTENDS CJson, TLC

CONSTANTS MaxContainers, MaxObjects, MaxAstray, MaxMarked

Named == {i \in Live : heap[i].string # NoName}
Astray == lost \cup {i \in Live : heap[i].isReference}

WithinBounds ==
  /\ Cardinality({i \in Live : heap[i].type # "leaf"}) <= MaxContainers
  /\ Cardinality({i \in Live : heap[i].type = "object"}) <= MaxObjects
  /\ Cardinality(Astray) <= MaxAstray
  /\ Cardinality(Named) + Cardinality(Astray) <= MaxMarked

MCSpec == Init /\ [][Next /\ WithinBounds']_vars

(* Addresses are interchangeable. *)
Addresses == Permutations(Items)
=============================================================================
