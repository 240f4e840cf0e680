-------------------------------- MODULE CJson --------------------------------
(* The items of cJSON.cc and the pointers between them. heap maps every
   allocated cJSON struct to its fields: next and prev link the members of one
   container, child is its first member, string the name of a member of an
   object. valuestring follows child (it is freed under the same condition) and
   is left out, as are the values.

   Callers keep to the contract of cJSON.h: they give away what they own, build
   no cycle, use an array as an array and an object as an object, and neither
   change nor delete a list while a reference to it lives.                     *)
EXTENDS Naturals, Sequences, FiniteSets, FiniteSetsExt, SequencesExt

CONSTANTS Items,    \* addresses malloc can return
          Nil,      \* the NULL pointer
          Letters,  \* a name is a letter in lower or in upper case
          MaxCount  \* bound: the numbers of an array that is created at once

ASSUME NilAssumption == Nil \notin Items
ASSUME ItemsAssumption == IsFiniteSet(Items)
ASSUME MaxCountAssumption == MaxCount \in Nat

VARIABLES heap,  \* the allocated items
          held,  \* the items the caller owns and may use
          lost   \* items given to a call that did not take them and could not say so

vars == <<heap, held, lost>>

Names  == Letters \X {"lower", "upper"}
NoName == <<>>
Kinds  == {"leaf", "array", "object"}

Live == DOMAIN heap
Free == Items \ Live

(* cJSON: type with its two flag bits, the links, and the name, which either is
   a copy of the library's own (copied) or belongs to somebody else.            *)
Item == [type : Kinds, isReference : BOOLEAN, stringIsConst : BOOLEAN,
         next : Items \cup {Nil}, prev : Items \cup {Nil}, child : Items \cup {Nil},
         string : Names \cup {NoName}, copied : BOOLEAN]

(* cJSON_New_Item: zeroed; the creating function stores the type. *)
NewItem(t) == [type |-> t, isReference |-> FALSE, stringIsConst |-> FALSE,
               next |-> Nil, prev |-> Nil, child |-> Nil,
               string |-> NoName, copied |-> FALSE]

Alloc(h, i, item) == [x \in DOMAIN h \cup {i} |-> IF x = i THEN item ELSE h[x]]

-----------------------------------------------------------------------------
(* What cJSON_Delete(i) visits: the item, its successors, and the children of
   all that are no references.                                                *)
Freed(h, i) ==
  LET Step(S) == S \cup {h[x].next : x \in S} \cup {h[x].child : x \in {y \in S : ~h[y].isReference}}
      Visit[n \in Nat] == IF n = 0 THEN {i} ELSE Step(Visit[n - 1]) \ {Nil}
  IN  Visit[Cardinality(DOMAIN h)]

Delete(h, i) == [x \in DOMAIN h \ Freed(h, i) |-> h[x]]

(* get_array_item: walk next until the index is used up or the list ends. *)
GetArrayItem(h, a, index) ==
  LET Walk[n \in Nat] == IF n = 0 THEN h[a].child
                         ELSE IF Walk[n - 1] = Nil THEN Nil ELSE h[Walk[n - 1]].next
  IN  Walk[index]

Index(h) == 0..Cardinality(DOMAIN h)

(* case_insensitive_strcmp and strcmp; the former takes NULL for different. *)
SameName(n, m, caseSensitive) ==
  /\ m # NoName
  /\ IF caseSensitive THEN n = m ELSE n[1] = m[1]

(* Fault: the last member with the name. *)
GetObjectItemLast(h, o, n, caseSensitive) ==
  LET at(w) == GetArrayItem(h, o, w)
      hits  == {w \in Index(h) : at(w) # Nil /\ SameName(n, h[at(w)].string, caseSensitive)}
  IN  IF hits = {} THEN Nil ELSE at(Max(hits))

(* get_object_item: the first member with the name. *)
GetObjectItem(h, o, n, caseSensitive) ==
  LET at(w) == GetArrayItem(h, o, w)
      hits  == {w \in Index(h) : at(w) # Nil /\ SameName(n, h[at(w)].string, caseSensitive)}
  IN  IF hits = {} THEN Nil ELSE at(Min(hits))

(* cJSON_AddItemToArray, suffix_object: behind the last member. *)
SuffixObject(h, prev, i) == [h EXCEPT ![prev].next = i, ![i].prev = prev]

AddToArray(h, a, i) ==
  IF h[a].child = Nil
  THEN [h EXCEPT ![a].child = i]
  ELSE LET last == CHOOSE x \in {GetArrayItem(h, a, w) : w \in Index(h)} \ {Nil} : h[x].next = Nil
       IN  SuffixObject(h, last, i)

(* cJSON_AddItemToObjectCS: an own name is freed, the given one is not copied. *)
AddToObjectCS(h, o, n, i, isCopy) ==
  AddToArray([h EXCEPT ![i].string = n, ![i].copied = isCopy, ![i].stringIsConst = TRUE], o, i)

(* create_reference: the fields of the item, without its name and its place. *)
Reference(h, i) ==
  [h[i] EXCEPT !.string = NoName, !.copied = FALSE, !.isReference = TRUE, !.next = Nil, !.prev = Nil]

(* Fault: the successor keeps its prev. *)
DetachKeepsPrev(h, p, i) ==
  [x \in DOMAIN h |->
     [h[x] EXCEPT !.next  = IF x = i THEN Nil ELSE IF x = h[i].prev THEN h[i].next ELSE @,
                  !.prev  = IF x = i THEN Nil ELSE @,
                  !.child = IF x = p /\ @ = i THEN h[i].next ELSE @]]

(* cJSON_DetachItemViaPointer. *)
DetachViaPointer(h, p, i) ==
  [x \in DOMAIN h |->
     [h[x] EXCEPT !.next  = IF x = i THEN Nil ELSE IF x = h[i].prev THEN h[i].next ELSE @,
                  !.prev  = IF x = i THEN Nil ELSE IF x = h[i].next THEN h[i].prev ELSE @,
                  !.child = IF x = p /\ @ = i THEN h[i].next ELSE @]]

(* cJSON_InsertItemInArray, with a member at the index. *)
InsertBefore(h, a, after, i) ==
  LET first == after = h[a].child
  IN  [x \in DOMAIN h |->
         [h[x] EXCEPT !.next  = IF x = i THEN after
                                ELSE IF x = h[after].prev /\ ~first THEN i ELSE @,
                      !.prev  = IF x = i THEN h[after].prev ELSE IF x = after THEN i ELSE @,
                      !.child = IF x = a /\ first THEN i ELSE @]]

(* cJSON_ReplaceItemViaPointer: the new item takes the links of the old one,
   whose own are cleared; then the old one is deleted, alone.                 *)
Relink(h, p, i, new) ==
  [x \in DOMAIN h |->
     [h[x] EXCEPT !.next  = IF x = new THEN h[i].next ELSE IF x = i THEN Nil
                            ELSE IF x = h[i].prev THEN new ELSE @,
                  !.prev  = IF x = new THEN h[i].prev ELSE IF x = i THEN Nil
                            ELSE IF x = h[i].next THEN new ELSE @,
                  !.child = IF x = p /\ @ = i THEN new ELSE @]]

ReplaceViaPointer(h, p, i, new) == Delete(Relink(h, p, i, new), i)

-----------------------------------------------------------------------------
(* The contract. *)
Own(c)     == Freed(heap, c)
(* No reference shares the list of c, and c is not itself one. *)
Unshared(c) ==
  /\ ~heap[c].isReference
  /\ heap[c].child = Nil \/ \A x \in Live \ {c} : heap[x].child # heap[c].child
(* No reference that stays points into what goes with i. *)
Deletable(h, i) ==
  \A x \in DOMAIN h \ Freed(h, i) : h[x].isReference => h[x].child \notin Freed(h, i)
(* i may be put into c: the caller has i, and c is not below it. *)
MayAdd(c, i) ==
  /\ i \in held
  /\ Unshared(c)
  /\ c \notin Own(i)

(* The caller has forgotten what it gave away in vain. *)
Known == Live \ UNION {Own(l) : l \in lost}
Containers(t) == {c \in Known : heap[c].type = t}
(* strcmp must not meet a member without a name. A caller can keep to this only
   while no strdup fails: one that fails in replace_item_in_object leaves such a
   member behind, and the caller is not told. That call of strcmp with NULL is
   undefined and is left out.                                                   *)
Searchable(o, caseSensitive) ==
  caseSensitive => \A w \in Index(heap) :
    LET m == GetArrayItem(heap, o, w) IN m # Nil => heap[m].string # NoName

-----------------------------------------------------------------------------
(* cJSON_CreateNull ... cJSON_CreateObject. A failing allocation returns NULL
   and changes nothing, here and below.                                      *)
Create(i, t) ==
  /\ i \in Free
  /\ heap' = Alloc(heap, i, NewItem(t))
  /\ held' = held \cup {i}
  /\ UNCHANGED lost

(* cJSON_CreateIntArray, FloatArray, DoubleArray, StringArray with count
   numbers at the addresses at[1..count], the array itself at at[0].        *)
CreateArrayOf(count, at) ==
  LET linked(k) == [NewItem("leaf") EXCEPT !.prev = IF k = 1 THEN Nil ELSE at[k - 1],
                                           !.next = IF k = count THEN Nil ELSE at[k + 1]]
      array == [NewItem("array") EXCEPT !.child = IF count = 0 THEN Nil ELSE at[1]]
  IN  /\ heap' = [x \in Live \cup {at[k] : k \in 0..count} |->
                    IF x \in Live THEN heap[x]
                    ELSE LET k == CHOOSE n \in 0..count : at[n] = x
                         IN  IF k = 0 THEN array ELSE linked(k)]
      /\ held' = held \cup {at[0]}
      /\ UNCHANGED lost

AddItemToArray(a, i) ==
  /\ a \in Containers("array") /\ MayAdd(a, i)
  /\ heap' = AddToArray(heap, a, i)
  /\ held' = held \ {i}
  /\ UNCHANGED lost

(* Fault: the flag of the copied name stays set. *)
AddItemToObjectKeepsFlag(o, n, i, copied) ==
  /\ o \in Containers("object") /\ MayAdd(o, i)
  /\ copied
  /\ heap' = AddToObjectCS(heap, o, n, i, TRUE)
  /\ held' = held \ {i}
  /\ UNCHANGED lost

(* cJSON_AddItemToObject: the copy of the name is the library's own. When it
   cannot be made AddItemToObjectCS returns at once, and the flag is cleared
   all the same.                                                             *)
AddItemToObject(o, n, i, copied) ==
  /\ o \in Containers("object") /\ MayAdd(o, i)
  /\ LET added == IF copied THEN AddToObjectCS(heap, o, n, i, TRUE) ELSE heap
     IN  heap' = [added EXCEPT ![i].stringIsConst = FALSE]
  /\ held' = held \ {i}
  /\ lost' = IF copied THEN lost ELSE lost \cup {i}

AddItemToObjectCS(o, n, i) ==
  /\ o \in Containers("object") /\ MayAdd(o, i)
  /\ heap' = AddToObjectCS(heap, o, n, i, FALSE)
  /\ held' = held \ {i}
  /\ UNCHANGED lost

(* cJSON_AddItemReferenceToArray. *)
AddItemReferenceToArray(a, i, r) ==
  /\ a \in Containers("array") /\ Unshared(a)
  /\ i \in Known /\ a \notin Freed([heap EXCEPT ![i].next = Nil], i)
  /\ r \in Free
  /\ heap' = AddToArray(Alloc(heap, r, Reference(heap, i)), a, r)
  /\ UNCHANGED <<held, lost>>

(* cJSON_AddItemReferenceToObject: as AddItemToObject, but for a reference that
   the caller never sees; if its name cannot be copied it is leaked.           *)
AddItemReferenceToObject(o, n, i, r, copied) ==
  /\ o \in Containers("object") /\ Unshared(o)
  /\ i \in Known /\ o \notin Freed([heap EXCEPT ![i].next = Nil], i)
  /\ r \in Free
  /\ LET new   == Alloc(heap, r, Reference(heap, i))
         added == IF copied THEN AddToObjectCS(new, o, n, r, TRUE) ELSE new
     IN  heap' = [added EXCEPT ![r].stringIsConst = FALSE]
  /\ lost' = IF copied THEN lost ELSE lost \cup {r}
  /\ UNCHANGED held

(* cJSON_DetachItemFromArray and cJSON_DeleteItemFromArray. *)
DetachItemFromArray(a, which) ==
  LET i == GetArrayItem(heap, a, which)
  IN  /\ a \in Containers("array") /\ Unshared(a)
      /\ i # Nil
      /\ heap' = DetachViaPointer(heap, a, i)
      /\ held' = held \cup {i}
      /\ UNCHANGED lost

DeleteItemFromArray(a, which) ==
  LET i == GetArrayItem(heap, a, which)
  IN  /\ a \in Containers("array") /\ Unshared(a)
      /\ i # Nil /\ Deletable(DetachViaPointer(heap, a, i), i)
      /\ heap' = Delete(DetachViaPointer(heap, a, i), i)
      /\ UNCHANGED <<held, lost>>

(* cJSON_DetachItemFromObject, cJSON_DeleteItemFromObject and their
   case-sensitive forms.                                            *)
DetachItemFromObject(o, n, caseSensitive) ==
  LET i == GetObjectItem(heap, o, n, caseSensitive)
  IN  /\ o \in Containers("object") /\ Unshared(o) /\ Searchable(o, caseSensitive)
      /\ i # Nil
      /\ heap' = DetachViaPointer(heap, o, i)
      /\ held' = held \cup {i}
      /\ UNCHANGED lost

DeleteItemFromObject(o, n, caseSensitive) ==
  LET i == GetObjectItem(heap, o, n, caseSensitive)
  IN  /\ o \in Containers("object") /\ Unshared(o) /\ Searchable(o, caseSensitive)
      /\ i # Nil /\ Deletable(DetachViaPointer(heap, o, i), i)
      /\ heap' = Delete(DetachViaPointer(heap, o, i), i)
      /\ UNCHANGED <<held, lost>>

(* cJSON_InsertItemInArray: past the end it appends. *)
InsertItemInArray(a, which, i) ==
  LET after == GetArrayItem(heap, a, which)
  IN  /\ a \in Containers("array") /\ MayAdd(a, i)
      /\ heap' = IF after = Nil THEN AddToArray(heap, a, i) ELSE InsertBefore(heap, a, after, i)
      /\ held' = held \ {i}
      /\ UNCHANGED lost

(* cJSON_ReplaceItemInArray: with no member at the index the new item stays
   where it is, and the caller is not told.                                 *)
ReplaceItemInArray(a, which, new) ==
  LET i == GetArrayItem(heap, a, which)
  IN  /\ a \in Containers("array") /\ MayAdd(a, new)
      /\ i # Nil => Deletable(Relink(heap, a, i, new), i)
      /\ heap' = IF i = Nil THEN heap ELSE ReplaceViaPointer(heap, a, i, new)
      /\ held' = held \ {new}
      /\ lost' = IF i = Nil THEN lost \cup {new} ELSE lost

(* replace_item_in_object: the new item is renamed first, whether or not the
   copy succeeds and whether or not there is a member to replace.            *)
ReplaceItemInObject(o, n, new, caseSensitive, copied) ==
  LET named == [heap EXCEPT ![new].string = IF copied THEN n ELSE NoName,
                            ![new].copied = copied, ![new].stringIsConst = FALSE]
      i     == GetObjectItem(named, o, n, caseSensitive)
  IN  /\ o \in Containers("object") /\ MayAdd(o, new) /\ Searchable(o, caseSensitive)
      /\ i # Nil => Deletable(Relink(named, o, i, new), i)
      /\ heap' = IF i = Nil THEN named ELSE ReplaceViaPointer(named, o, i, new)
      /\ held' = held \ {new}
      /\ lost' = IF i = Nil THEN lost \cup {new} ELSE lost

(* Where cJSON_Duplicate comes to: the way down to an item of the tree. It walks
   child also below a reference, so that it may come to a list more than once.    *)
Places(i, recurse) ==
  LET Below(p)  == IF heap[Last(p)].child = Nil THEN {} ELSE {Append(p, heap[Last(p)].child)}
      Behind(p) == IF Len(p) = 1 \/ heap[Last(p)].next = Nil THEN {}
                   ELSE {Append(Front(p), heap[Last(p)].next)}
      Visit[n \in Nat] == IF n = 0 THEN {<<i>>}
                          ELSE Visit[n - 1] \cup UNION {Below(p) \cup Behind(p) : p \in Visit[n - 1]}
  IN  IF recurse THEN Visit[Cardinality(Items)] ELSE {<<i>>}

(* Fault: without recurse the copy keeps the children. *)
DuplicateSharesChild(i, recurse, f) ==
  LET at(p) == IF p \in DOMAIN f THEN f[p] ELSE Nil
      copy(p) == LET x == heap[Last(p)] IN
        [x EXCEPT !.isReference = FALSE,
                  !.child = IF recurse THEN at(Append(p, x.child)) ELSE x.child,
                  !.next  = at(Append(Front(p), x.next)),
                  !.prev  = at(Append(Front(p), x.prev)),
                  !.copied = x.string # NoName /\ ~x.stringIsConst]
  IN  /\ heap' = [y \in Live \cup {f[p] : p \in DOMAIN f} |->
                    IF y \in Live THEN heap[y] ELSE copy(CHOOSE p \in DOMAIN f : f[p] = y)]
      /\ held' = held \cup {f[<<i>>]}
      /\ UNCHANGED lost

(* cJSON_Duplicate: f gives every place a copy of the item there. Copies are no
   references; a name is copied unless it is somebody else's. When the items
   run out, what has been copied is deleted again.                             *)
Duplicate(i, recurse, f) ==
  LET at(p) == IF p \in DOMAIN f THEN f[p] ELSE Nil
      copy(p) == LET x == heap[Last(p)] IN
        [x EXCEPT !.isReference = FALSE,
                  !.child = at(Append(p, x.child)),
                  !.next  = at(Append(Front(p), x.next)),
                  !.prev  = at(Append(Front(p), x.prev)),
                  !.copied = x.string # NoName /\ ~x.stringIsConst]
  IN  /\ heap' = [y \in Live \cup {f[p] : p \in DOMAIN f} |->
                    IF y \in Live THEN heap[y] ELSE copy(CHOOSE p \in DOMAIN f : f[p] = y)]
      /\ held' = held \cup {f[<<i>>]}
      /\ UNCHANGED lost

(* cJSON_Delete of an item the caller owns. *)
DeleteItem(i) ==
  /\ i \in held /\ Deletable(heap, i)
  /\ heap' = Delete(heap, i)
  /\ held' = held \ {i}
  /\ UNCHANGED lost

-----------------------------------------------------------------------------
Init == heap = [i \in {} |-> NewItem("leaf")] /\ held = {} /\ lost = {}

Injections(S, T) == {f \in [S -> T] : \A x, y \in S : f[x] = f[y] => x = y}

Next ==
  \/ \E i \in Items, t \in Kinds : Create(i, t)
  \/ \E count \in 0..MaxCount : \E at \in Injections(0..count, Free) : CreateArrayOf(count, at)
  \/ \E a \in Containers("array") :
       \/ \E i \in held : AddItemToArray(a, i)
       \/ \E i \in Known, r \in Free : AddItemReferenceToArray(a, i, r)
       \/ \E w \in Index(heap) : DetachItemFromArray(a, w) \/ DeleteItemFromArray(a, w)
       \/ \E w \in Index(heap), i \in held : InsertItemInArray(a, w, i) \/ ReplaceItemInArray(a, w, i)
  \/ \E o \in Containers("object"), n \in Names :
       \/ \E i \in held, copied \in BOOLEAN : AddItemToObject(o, n, i, copied)
       \/ \E i \in held : AddItemToObjectCS(o, n, i)
       \/ \E i \in Known, r \in Free, copied \in BOOLEAN : AddItemReferenceToObject(o, n, i, r, copied)
       \/ \E cs \in BOOLEAN : DetachItemFromObject(o, n, cs) \/ DeleteItemFromObject(o, n, cs)
       \/ \E i \in held, cs, copied \in BOOLEAN : ReplaceItemInObject(o, n, i, cs, copied)
  \/ \E i \in Known, recurse \in BOOLEAN :
       \E f \in Injections(Places(i, recurse), Free) : Duplicate(i, recurse, f)
  \/ \E i \in held : DeleteItem(i)

Spec == Init /\ [][Next]_vars

-----------------------------------------------------------------------------
TypeOK ==
  /\ Live \subseteq Items
  /\ \A i \in Live : heap[i] \in Item
  /\ held \subseteq Live /\ lost \subseteq Live

(* The members of a container form one list, linked both ways, that starts at
   child with no predecessor: the appends, inserts, detachments and
   replacements of cJSON.cc leave no pointer to where an item used to be.      *)
ListsLinked ==
  TypeOK /\ \A i \in Live :
    /\ heap[i].next # Nil => heap[i].next \in Live /\ heap[heap[i].next].prev = i
    /\ heap[i].prev # Nil => heap[i].prev \in Live /\ heap[heap[i].prev].next = i
    /\ heap[i].child # Nil => heap[i].child \in Live /\ heap[heap[i].child].prev = Nil

(* cJSON_Delete frees every item once: an item has exactly one owner, the caller
   or the pointer that leads to it, and deleting all that the caller owns, or
   lost, leaves nothing.                                                       *)
OwnedOnce ==
  /\ \A i \in Live :
       Cardinality({x \in Live : heap[x].next = i})
         + Cardinality({x \in Live : ~heap[x].isReference /\ heap[x].child = i})
         + (IF i \in held THEN 1 ELSE 0) + (IF i \in lost THEN 1 ELSE 0) = 1
  /\ Live = UNION {Freed(heap, i) : i \in held \cup lost}

(* cJSON_Delete frees the name of an item unless cJSON_StringIsConst is set: the
   flag is set exactly on the items whose name is not the library's own copy.
   Only on an item that AddItemToObject has lost the flag may be wrong.         *)
NamesFreedRight ==
  \A i \in Live \ lost : heap[i].string # NoName => (heap[i].copied <=> ~heap[i].stringIsConst)

(* The members of a container in their order. *)
Members(i) ==
  IF heap[i].isReference THEN <<>>
  ELSE LET n == Cardinality({w \in Index(heap) : GetArrayItem(heap, i, w) # Nil})
       IN  [k \in 1..n |-> GetArrayItem(heap, i, k - 1)]

Lists == INSTANCE Forest WITH kids <- [i \in Live |-> Members(i)], roots <- held \cup lost

(* The first member with the name, if k is its place. *)
FirstNamed(o, n, caseSensitive, k) ==
  LET called(j) == SameName(n, heap[Members(o)[j]].string, caseSensitive)
  IN  k \in DOMAIN Members(o) /\ called(k) /\ \A j \in 1..k - 1 : ~called(j)

(* The items that a step makes, frees, takes from the caller and gives to it. *)
Made  == Live' \ Live
Gone  == Live \ Live'
Given == held \ held'
Got   == held' \ held

Arrays  == Containers("array")
Objects == Containers("object")
Behind(c) == Len(Members(c)) + 1

(* The calls that make items. Indices count from 0, places from 1. *)
MakingCalls ==
  /\ \A i \in Made, t \in Kinds : Create(i, t) => Lists!Grow(i, {i})
  /\ \A count \in 0..MaxCount : \A at \in Injections(0..count, Made) :
       CreateArrayOf(count, at) => /\ Lists!Grow(at[0], Made)
                                   /\ Members(at[0])' = [k \in 1..count |-> at[k]]
  /\ \A i \in Known, recurse \in BOOLEAN : \A f \in Injections(Places(i, recurse), Made) :
       Duplicate(i, recurse, f) => Lists!Grow(f[<<i>>], Made)
  /\ \A r \in Made, i \in Known :
       /\ \A a \in Arrays : AddItemReferenceToArray(a, i, r) => Lists!Refer(a, r)
       /\ \A o \in Objects, n \in Names, copied \in BOOLEAN :
            AddItemReferenceToObject(o, n, i, r, copied) =>
              IF copied THEN Lists!Refer(o, r) ELSE Lists!Grow(r, {r})

(* The calls that take an item from the caller. *)
ArrayTakes(a, i) ==
  /\ AddItemToArray(a, i) => Lists!Link(a, i, Behind(a))
  /\ \A w \in Index(heap) :
       /\ InsertItemInArray(a, w, i) =>
            Lists!Link(a, i, IF w + 1 \in DOMAIN Members(a) THEN w + 1 ELSE Behind(a))
       /\ ReplaceItemInArray(a, w, i) =>
            IF w + 1 \in DOMAIN Members(a) THEN Lists!Swap(a, w + 1, i) ELSE UNCHANGED Lists!vars

ObjectTakes(o, n, i) ==
  /\ AddItemToObjectCS(o, n, i) => Lists!Link(o, i, Behind(o))
  /\ \A copied \in BOOLEAN :
       /\ AddItemToObject(o, n, i, copied) =>
            IF copied THEN Lists!Link(o, i, Behind(o)) ELSE UNCHANGED Lists!vars
       /\ \A cs \in BOOLEAN : ReplaceItemInObject(o, n, i, cs, copied) =>
            \/ \E k \in DOMAIN Members(o) : FirstNamed(o, n, cs, k) /\ Lists!Swap(o, k, i)
            \/ /\ \A k \in DOMAIN Members(o) : ~FirstNamed(o, n, cs, k)
               /\ UNCHANGED Lists!vars

TakingCalls ==
  \A i \in Given :
    /\ \A a \in Arrays : ArrayTakes(a, i)
    /\ \A o \in Objects, n \in Names : ObjectTakes(o, n, i)
    /\ DeleteItem(i) => Lists!Fell(i)

(* The calls that give one back, and those that delete one in its container. *)
DetachingCalls ==
  /\ \A a \in Arrays, w \in Index(heap) : DetachItemFromArray(a, w) => Lists!Unlink(a, w + 1)
  /\ \A o \in Objects, n \in Names, cs \in BOOLEAN : DetachItemFromObject(o, n, cs) =>
       \E k \in DOMAIN Members(o) : FirstNamed(o, n, cs, k) /\ Lists!Unlink(o, k)

DeletingCalls ==
  /\ \A a \in Arrays, w \in Index(heap) : DeleteItemFromArray(a, w) => Lists!Prune(a, w + 1)
  /\ \A o \in Objects, n \in Names, cs \in BOOLEAN : DeleteItemFromObject(o, n, cs) =>
       \E k \in DOMAIN Members(o) : FirstNamed(o, n, cs, k) /\ Lists!Prune(o, k)

(* Each call with the step that it is. *)
CallsDoTheirStep ==
  /\ Made # {} => MakingCalls
  /\ Given # {} => TakingCalls
  /\ Got # {} => DetachingCalls
  /\ Gone # {} => DeletingCalls

(* The doubly linked lists behave as sequences. Whatever a call does to the items is
   to the caller a step of a forest or nothing, and it is the step that the name of
   the call says: an append goes behind the last member, an insert before the member
   at the index, a detach takes the member at the index or the first with the name
   and gives it back, a delete frees exactly it and what is below it, a created array
   has its members in order, a duplicate is one new tree (of which shape is not
   said); a call that fails changes no container (cJSON.cc:1738-2098, 2228-2449).    *)
ImplementsForest == Lists!Spec /\ [][CallsDoTheirStep]_vars
=============================================================================
