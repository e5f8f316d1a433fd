---------------------------- MODULE CJsonProofs ----------------------------
(***************************************************************************)
(* Proofs about the operators of CJson: whatever a call's outcome, the     *)
(* lists of the tree stay linked, and the items that are in no list stay   *)
(* outside unless the call is given them (the lemmas named ...Sound).      *)
(*                                                                         *)
(* Then what exactly each call makes (the lemmas named ...Is): a new item  *)
(* takes the lowest free place of the heap, and the others stay as they    *)
(* were (Tight, Keeps, Made), or nothing is left of it (NoneNew). If every *)
(* item hangs on an older one (Rooted), following the links from the root  *)
(* reaches them all (AllBehind). Last, what the calls do to a list, and    *)
(* what reading it gives (ListOf).                                         *)
(***************************************************************************)
EXTENDS CJson, WellFoundedInduction, TLAPS

Unlinked(h, k) == k \in Items /\ Live(h, k) /\ h.prev[k] = NULL /\ h.next[k] = NULL
Leaf(h, k)     == Unlinked(h, k) /\ h.child[k] = NULL
Sound(h)       == h \in Heaps /\ Linked(h)

(* Only texts, keys, types and values differ.                              *)
SameTree(h, g) ==
  /\ g.child = h.child /\ g.next = h.next /\ g.prev = h.prev
  /\ \A k \in Items : Live(g, k) <=> Live(h, k)

LEMMA HeapFields ==
  ASSUME NEW h \in Heaps
  PROVE  /\ h.blocks \subseteq Items \X Parts
         /\ h.type \in [Items -> Types]
         /\ h.child \in [Items -> Links] /\ h.next \in [Items -> Links] /\ h.prev \in [Items -> Links]
         /\ h.key \in [Items -> Keys \cup {NoKey}]
         /\ h.value \in [Items -> Values \cup {NoValue}]
         /\ h = [blocks |-> h.blocks, type |-> h.type, child |-> h.child, next |-> h.next,
                 prev |-> h.prev, key |-> h.key, value |-> h.value]
BY DEF Heaps

LEMMA ItemFacts == /\ NULL \notin Items /\ NULL \in Links
                   /\ \A k \in Links : k # NULL => k \in Items
                   /\ \A k \in Items : k \in Links
BY ItemsAssumption DEF NULL, Items, Links

LEMMA SameTreeLinked ==
  ASSUME NEW h, NEW g, SameTree(h, g), Linked(h), h \in Heaps
  PROVE  Linked(g) /\ \A k : (Unlinked(h, k) <=> Unlinked(g, k)) /\ (Leaf(h, k) <=> Leaf(g, k))
<1>1. /\ h.child \in [Items -> Links] /\ h.next \in [Items -> Links] /\ h.prev \in [Items -> Links]
      /\ g.child = h.child /\ g.next = h.next /\ g.prev = h.prev
      /\ \A k \in Items : Live(g, k) <=> Live(h, k)
  BY HeapFields DEF SameTree
<1>2. /\ \A k \in Items : h.next[k] # NULL => h.next[k] \in Items
      /\ \A k \in Items : h.child[k] # NULL => h.child[k] \in Items
      /\ \A k \in Items : h.prev[k] # NULL => h.prev[k] \in Items
  BY <1>1, ItemFacts
<1>3. NextIsUndone(g)
  BY <1>1, <1>2 DEF Linked, NextIsUndone
<1>4. FirstKeepsLast(g)
  BY <1>1, <1>2 DEF Linked, FirstKeepsLast
<1>5. PrevIsUndone(g)
  BY <1>1, <1>2 DEF Linked, PrevIsUndone
<1>6. \A k : (Unlinked(h, k) <=> Unlinked(g, k)) /\ (Leaf(h, k) <=> Leaf(g, k))
  BY <1>1 DEF Unlinked, Leaf
<1> QED BY <1>3, <1>4, <1>5, <1>6 DEF Linked

(* A new item: no live item points at where it is.                         *)
LEMMA ZeroedSound ==
  ASSUME NEW h, Sound(h), NEW k \in Fresh(h), NEW type \in Types
  PROVE  /\ Sound(Zeroed(h, k, type)) /\ Leaf(Zeroed(h, k, type), k) /\ ~Live(h, k)
         /\ \A j : Unlinked(h, j) => Unlinked(Zeroed(h, k, type), j) /\ j # k
<1> DEFINE g == Zeroed(h, k, type)
<1>1. k \in Items /\ ~Live(h, k) /\ NULL \in Links
  BY ItemFacts DEF Fresh, IsFree, Live, Parts
<1>2. /\ h \in Heaps /\ Linked(h)
      /\ h.child \in [Items -> Links] /\ h.next \in [Items -> Links] /\ h.prev \in [Items -> Links]
  BY HeapFields DEF Sound
<1>3. /\ g.blocks = h.blocks \cup {<<k, "node">>}
      /\ g.child = [h.child EXCEPT ![k] = NULL]
      /\ g.next = [h.next EXCEPT ![k] = NULL]
      /\ g.prev = [h.prev EXCEPT ![k] = NULL]
  BY DEF Zeroed
<1>4. g \in Heaps
  <2>1. /\ h.blocks \cup {<<k, "node">>} \subseteq Items \X Parts
        /\ [h.type EXCEPT ![k] = type] \in [Items -> Types]
        /\ [h.child EXCEPT ![k] = NULL] \in [Items -> Links]
        /\ [h.next EXCEPT ![k] = NULL] \in [Items -> Links]
        /\ [h.prev EXCEPT ![k] = NULL] \in [Items -> Links]
        /\ [h.key EXCEPT ![k] = NoKey] \in [Items -> Keys \cup {NoKey}]
        /\ [h.value EXCEPT ![k] = NoValue] \in [Items -> Values \cup {NoValue}]
    BY <1>1, <1>2, HeapFields DEF Parts
  <2> QED BY <2>1 DEF Heaps, Zeroed
<1> HIDE DEF g
<1>5. \A j \in Items : Live(g, j) <=> Live(h, j) \/ j = k
  BY <1>3 DEF Live
<1>6. \A j \in Items : j # k => g.child[j] = h.child[j] /\ g.next[j] = h.next[j] /\ g.prev[j] = h.prev[j]
  BY <1>2, <1>3
<1>7. g.child[k] = NULL /\ g.next[k] = NULL /\ g.prev[k] = NULL
  BY <1>1, <1>2, <1>3
<1>8. /\ \A j \in Items : h.next[j] # NULL => h.next[j] \in Items
      /\ \A j \in Items : h.child[j] # NULL => h.child[j] \in Items
      /\ \A j \in Items : h.prev[j] # NULL => h.prev[j] \in Items
  BY <1>2, ItemFacts
<1>9. NextIsUndone(g)
  BY <1>1, <1>2, <1>5, <1>6, <1>7, <1>8 DEF Linked, NextIsUndone
<1>10. FirstKeepsLast(g)
  BY <1>1, <1>2, <1>5, <1>6, <1>7, <1>8 DEF Linked, FirstKeepsLast, PrevIsUndone
<1>11. PrevIsUndone(g)
  BY <1>1, <1>2, <1>5, <1>6, <1>7, <1>8 DEF Linked, PrevIsUndone
<1>12. Leaf(g, k)
  BY <1>1, <1>5, <1>7 DEF Leaf, Unlinked
<1>13. \A j : Unlinked(h, j) => Unlinked(g, j) /\ j # k
  BY <1>1, <1>5, <1>6 DEF Unlinked
<1> QED BY <1>1, <1>4, <1>9, <1>10, <1>11, <1>12, <1>13 DEF Sound, Linked, g

(* Deleting an item that is in no list and has none.                       *)
LEMMA DeleteSound ==
  ASSUME NEW h, Sound(h), NEW k, Leaf(h, k)
  PROVE  /\ Sound(Delete(h, k))
         /\ \A j : Unlinked(h, j) /\ j # k => Unlinked(Delete(h, k), j)
<1> DEFINE g == Delete(h, k)
<1>1. /\ k \in Items /\ Live(h, k) /\ h.prev[k] = NULL /\ h.next[k] = NULL /\ h.child[k] = NULL
      /\ k # NULL
  BY ItemFacts DEF Leaf, Unlinked
<1>2. /\ h \in Heaps /\ Linked(h)
      /\ h.child \in [Items -> Links] /\ h.next \in [Items -> Links] /\ h.prev \in [Items -> Links]
  BY HeapFields DEF Sound
<1>3. Behind(h, k) = {k}
  BY <1>1 DEF Behind
<1>4. g = [h EXCEPT !.blocks = @ \ ({k} \X Parts)]
  BY <1>1, <1>3 DEF Delete
<1>5. /\ g.blocks = h.blocks \ ({k} \X Parts)
      /\ g.child = h.child /\ g.next = h.next /\ g.prev = h.prev
  BY <1>2, <1>4, HeapFields
<1>6. g \in Heaps
  <2>1. h.blocks \ ({k} \X Parts) \subseteq Items \X Parts
    BY <1>2, HeapFields
  <2>2. g = [blocks |-> h.blocks \ ({k} \X Parts), type |-> h.type, child |-> h.child,
             next |-> h.next, prev |-> h.prev, key |-> h.key, value |-> h.value]
    BY <1>2, <1>4, HeapFields
  <2> QED BY <1>2, <2>1, <2>2, HeapFields DEF Heaps
<1> HIDE DEF g
<1>7. \A j \in Items : Live(g, j) <=> Live(h, j) /\ j # k
  BY <1>5 DEF Live, Parts
<1>8. /\ \A j \in Items : h.next[j] # NULL => h.next[j] \in Items
      /\ \A j \in Items : h.child[j] # NULL => h.child[j] \in Items
      /\ \A j \in Items : h.prev[j] # NULL => h.prev[j] \in Items
  BY <1>2, ItemFacts
<1>9. /\ \A j \in Items : Live(h, j) => h.next[j] # k /\ h.child[j] # k /\ h.prev[j] # k
  BY <1>1, <1>2, <1>8, ItemFacts DEF Linked, NextIsUndone, FirstKeepsLast, PrevIsUndone
<1>10. NextIsUndone(g)
  BY <1>2, <1>5, <1>7, <1>8, <1>9 DEF Linked, NextIsUndone
<1>11. FirstKeepsLast(g)
  BY <1>2, <1>5, <1>7, <1>8, <1>9 DEF Linked, FirstKeepsLast
<1>12. PrevIsUndone(g)
  BY <1>2, <1>5, <1>7, <1>8, <1>9 DEF Linked, PrevIsUndone
<1>13. \A j : Unlinked(h, j) /\ j # k => Unlinked(g, j)
  BY <1>5, <1>7 DEF Unlinked
<1> QED BY <1>6, <1>10, <1>11, <1>12, <1>13 DEF Sound, Linked, g

(* add_item_to_array: the item becomes the first of a list, or comes after *)
(* the last one.                                                           *)
ListBegun(h, g, array, item) ==
  /\ h.child[array] = NULL
  /\ \A j \in Items : g.child[j] = IF j = array THEN item ELSE h.child[j]
  /\ \A j \in Items : g.prev[j] = IF j = item THEN item ELSE h.prev[j]
  /\ \A j \in Items : g.next[j] = h.next[j]

ListGrown(h, g, array, first, last, item) ==
  /\ h.child[array] = first /\ h.prev[first] = last
  /\ first \in Items /\ Live(h, first) /\ last \in Items /\ Live(h, last)
  /\ h.next[last] = NULL /\ h.prev[last] # NULL /\ first # item /\ last # item
  /\ \A j \in Items : g.child[j] = h.child[j]
  /\ \A j \in Items : g.prev[j] = IF j = first THEN item ELSE IF j = item THEN last
                                  ELSE h.prev[j]
  /\ \A j \in Items : g.next[j] = IF j = last THEN item ELSE h.next[j]

LEMMA AddToArrayIs ==
  ASSUME NEW h, Sound(h), NEW array \in Items, Live(h, array), NEW item, Unlinked(h, item),
         item # array
  PROVE  LET g == AddToArray(h, array, item)
         IN  /\ g \in Heaps /\ g.blocks = h.blocks /\ g.type = h.type /\ g.key = h.key
             /\ g.value = h.value
             /\ \/ ListBegun(h, g, array, item)
                \/ \E first, last : ListGrown(h, g, array, first, last, item)
<1> DEFINE g == AddToArray(h, array, item)
           first == h.child[array]
           last == h.prev[first]
<1>1. /\ h \in Heaps /\ Linked(h)
      /\ h.child \in [Items -> Links] /\ h.next \in [Items -> Links] /\ h.prev \in [Items -> Links]
      /\ NULL \notin Items /\ NULL \in Links /\ Items \subseteq Links
      /\ \A k \in Links : k # NULL => k \in Items
      /\ item \in Items /\ Live(h, item) /\ h.prev[item] = NULL /\ h.next[item] = NULL
      /\ item # NULL /\ array # NULL
  BY HeapFields, ItemFacts DEF Sound, Unlinked
<1>2. CASE first = NULL
  <2> DEFINE child == [h.child EXCEPT ![array] = item]
             prev == [h.prev EXCEPT ![item] = item]
             next == [h.next EXCEPT ![item] = NULL]
  <2>1. child \in [Items -> Links] /\ prev \in [Items -> Links] /\ next \in [Items -> Links]
    BY <1>1
  <2>2. g = [h EXCEPT !.child = child, !.prev = prev, !.next = next]
    BY <1>1, <1>2 DEF AddToArray
  <2>3. /\ \A j \in Items : child[j] = IF j = array THEN item ELSE h.child[j]
        /\ \A j \in Items : prev[j] = IF j = item THEN item ELSE h.prev[j]
        /\ \A j \in Items : next[j] = h.next[j]
    BY <1>1
  <2> HIDE DEF g, child, prev, next
  <2>4. /\ g.blocks = h.blocks /\ g.type = h.type /\ g.key = h.key /\ g.value = h.value
        /\ g.child = child /\ g.prev = prev /\ g.next = next /\ g \in Heaps
    BY <1>1, <2>1, <2>2 DEF Heaps
  <2>5. ListBegun(h, g, array, item)
    BY <1>2, <2>3, <2>4 DEF ListBegun
  <2> QED BY <2>4, <2>5 DEF g
<1>3. CASE first # NULL
  <2>1. /\ first \in Items /\ Live(h, first) /\ last # NULL /\ last \in Items /\ Live(h, last)
        /\ h.next[last] = NULL /\ h.prev[last] # NULL
    BY <1>1, <1>3 DEF Linked, FirstKeepsLast, PrevIsUndone
  <2>2. g = [h EXCEPT !.next[last] = item,
                      !.prev = [@ EXCEPT ![item] = last, ![first] = item]]
    BY <1>1, <1>3, <2>1 DEF AddToArray
  <2>3. h.child[array] = first /\ h.prev[first] = last /\ first # item /\ last # item
    BY <1>1, <2>1
  <2> HIDE DEF g, first, last
  <2>4. /\ g.blocks = h.blocks /\ g.child = h.child
        /\ g.type = h.type /\ g.key = h.key /\ g.value = h.value
        /\ g.prev = [h.prev EXCEPT ![item] = last, ![first] = item]
        /\ g.next = [h.next EXCEPT ![last] = item]
        /\ g \in Heaps
    BY <1>1, <2>1, <2>2, HeapFields DEF Heaps
  <2>5. ListGrown(h, g, array, first, last, item)
    BY <1>1, <2>1, <2>3, <2>4 DEF ListGrown
  <2> QED BY <2>4, <2>5 DEF g
<1> QED BY <1>2, <1>3

(* An item that is in no list comes into one; the other items that are in  *)
(* none stay so.                                                           *)
LEMMA AddToArraySound ==
  ASSUME NEW h, Sound(h), NEW array, NEW item,
         array = NULL \/ (array \in Items /\ Live(h, array)),
         item = NULL \/ Unlinked(h, item)
  PROVE  /\ Sound(AddToArray(h, array, item))
         /\ \A j : Unlinked(h, j) /\ j # item => Unlinked(AddToArray(h, array, item), j)
<1> DEFINE g == AddToArray(h, array, item)
<1>0. /\ h \in Heaps /\ Linked(h)
      /\ h.child \in [Items -> Links] /\ h.next \in [Items -> Links] /\ h.prev \in [Items -> Links]
      /\ NULL \notin Items /\ NULL \in Links /\ Items \subseteq Links
      /\ \A k \in Links : k # NULL => k \in Items
  BY HeapFields, ItemFacts DEF Sound
<1>1. CASE item = NULL \/ array = NULL \/ array = item
  BY <1>1 DEF AddToArray
<1>2. ASSUME ~(item = NULL \/ array = NULL \/ array = item)
      PROVE  /\ item \in Items /\ array \in Items /\ item # array /\ Live(h, item) /\ Live(h, array)
             /\ h.prev[item] = NULL /\ h.next[item] = NULL
             /\ g \in Heaps /\ \A j \in Items : Live(g, j) <=> Live(h, j)
             /\ \/ ListBegun(h, g, array, item)
                \/ \E first, last : ListGrown(h, g, array, first, last, item)
  <2>1. array \in Items /\ Live(h, array) /\ Unlinked(h, item) /\ item # array
    BY <1>2
  <2>2. /\ g \in Heaps /\ g.blocks = h.blocks
        /\ \/ ListBegun(h, g, array, item)
           \/ \E first, last : ListGrown(h, g, array, first, last, item)
    BY <2>1, AddToArrayIs
  <2> HIDE DEF g
  <2> QED BY <2>1, <2>2 DEF Unlinked, Live
<1>3. CASE ~(item = NULL \/ array = NULL \/ array = item) /\ ListBegun(h, g, array, item)
  <2>1. /\ item \in Items /\ array \in Items /\ item # array /\ Live(h, item) /\ Live(h, array)
        /\ h.prev[item] = NULL /\ h.next[item] = NULL
        /\ g \in Heaps /\ \A j \in Items : Live(g, j) <=> Live(h, j)
    BY <1>2, <1>3
  <2> HIDE DEF g
  <2>4. /\ h.child[array] = NULL
        /\ \A j \in Items : g.child[j] = IF j = array THEN item ELSE h.child[j]
        /\ \A j \in Items : g.prev[j] = IF j = item THEN item ELSE h.prev[j]
        /\ \A j \in Items : g.next[j] = h.next[j]
    BY <1>3 DEF ListBegun
  <2>5. /\ \A j \in Items : h.next[j] # NULL => h.next[j] \in Items
        /\ \A j \in Items : h.child[j] # NULL => h.child[j] \in Items
        /\ \A j \in Items : h.prev[j] # NULL => h.prev[j] \in Items
    BY <1>0
  <2>6. \A j \in Items : Live(h, j) => h.next[j] # item /\ h.child[j] # item /\ h.prev[j] # item
    BY <1>0, <2>1, <2>5 DEF Linked, NextIsUndone, FirstKeepsLast, PrevIsUndone
  <2>7. NextIsUndone(g)
    BY <1>0, <2>1, <2>4, <2>5, <2>6 DEF Linked, NextIsUndone
  <2>8. FirstKeepsLast(g)
    BY <1>0, <2>1, <2>4, <2>5, <2>6 DEF Linked, FirstKeepsLast
  <2>9. PrevIsUndone(g)
    BY <1>0, <2>1, <2>4, <2>5, <2>6 DEF Linked, PrevIsUndone
  <2>10. \A j : Unlinked(h, j) /\ j # item => Unlinked(g, j)
    BY <2>1, <2>4 DEF Unlinked
  <2> QED BY <2>1, <2>7, <2>8, <2>9, <2>10 DEF Sound, Linked, g
<1>4. ASSUME ~(item = NULL \/ array = NULL \/ array = item),
             NEW first, NEW last, ListGrown(h, g, array, first, last, item)
      PROVE  Sound(g) /\ \A j : Unlinked(h, j) /\ j # item => Unlinked(g, j)
  <2>1. /\ item \in Items /\ array \in Items /\ item # array /\ Live(h, item) /\ Live(h, array)
        /\ h.prev[item] = NULL /\ h.next[item] = NULL
        /\ g \in Heaps /\ \A j \in Items : Live(g, j) <=> Live(h, j)
    BY <1>2, <1>4
  <2> HIDE DEF g
  <2>2. /\ first \in Items /\ Live(h, first) /\ last # NULL /\ last \in Items /\ Live(h, last)
        /\ h.next[last] = NULL /\ h.prev[last] # NULL
    BY <1>0, <1>4 DEF ListGrown
  <2>5. h.prev[first] = last /\ first # item /\ last # item
    BY <1>4 DEF ListGrown
  <2>6. /\ \A j \in Items : Live(g, j) <=> Live(h, j)
        /\ \A j \in Items : g.child[j] = h.child[j]
        /\ \A j \in Items : g.prev[j] = IF j = first THEN item ELSE IF j = item THEN last
                                        ELSE h.prev[j]
        /\ \A j \in Items : g.next[j] = IF j = last THEN item ELSE h.next[j]
    BY <1>4, <2>1 DEF ListGrown
  <2>7. /\ \A j \in Items : h.next[j] # NULL => h.next[j] \in Items
        /\ \A j \in Items : h.child[j] # NULL => h.child[j] \in Items
        /\ \A j \in Items : h.prev[j] # NULL => h.prev[j] \in Items
    BY <1>0
  <2>8. \A j \in Items : Live(h, j) => h.next[j] # item /\ h.child[j] # item /\ h.prev[j] # item
    BY <1>0, <2>1, <2>7 DEF Linked, NextIsUndone, FirstKeepsLast, PrevIsUndone
  <2>9. \A j \in Items : Live(h, j) /\ h.prev[j] = last => j = first
    BY <1>0, <2>2, <2>5 DEF Linked, PrevIsUndone
  <2>10. \A j \in Items : Live(h, j) => h.next[j] # first
    BY <1>0, <2>2, <2>5 DEF Linked, NextIsUndone
  <2>11. NextIsUndone(g)
    BY <1>0, <2>1, <2>2, <2>5, <2>6, <2>7, <2>8, <2>10 DEF Linked, NextIsUndone
  <2>12. FirstKeepsLast(g)
    <3> SUFFICES ASSUME NEW a \in Items, Live(h, a), h.child[a] # NULL
                 PROVE  /\ Live(g, h.child[a]) /\ g.prev[h.child[a]] # NULL
                        /\ g.next[g.prev[h.child[a]]] = NULL
      BY <2>6 DEF FirstKeepsLast
    <3> DEFINE c == h.child[a]
    <3>1. /\ c \in Items /\ Live(h, c) /\ h.prev[c] # NULL /\ h.next[h.prev[c]] = NULL
          /\ h.prev[c] \in Items /\ c # item
      BY <1>0, <2>7, <2>8 DEF Linked, FirstKeepsLast
    <3> HIDE DEF c
    <3>2. CASE c = first
      BY <1>0, <2>1, <2>5, <2>6, <3>1, <3>2 DEF c
    <3>3. CASE c # first
      <4>1. g.prev[c] = h.prev[c] /\ h.prev[c] # last
        BY <2>6, <2>9, <3>1, <3>3
      <4> QED BY <2>6, <3>1, <4>1 DEF c
    <3> QED BY <2>6, <3>1, <3>2, <3>3 DEF c
  <2>13. PrevIsUndone(g)
    BY <1>0, <2>1, <2>2, <2>5, <2>6, <2>7, <2>8, <2>9 DEF Linked, PrevIsUndone
  <2>14. \A j : Unlinked(h, j) /\ j # item => Unlinked(g, j)
    BY <1>0, <2>2, <2>5, <2>6 DEF Unlinked
  <2> QED BY <2>1, <2>11, <2>12, <2>13, <2>14 DEF Sound, Linked, g
<1> QED BY <1>1, <1>2, <1>3, <1>4

-----------------------------------------------------------------------------
(* What a constructor may give: nothing, or an item in no list.            *)
Created(h, r) ==
  /\ Sound(r.json)
  /\ \A j : Unlinked(h, j) => Unlinked(r.json, j) /\ j # r.item
  /\ r.item = NULL \/ Leaf(r.json, r.item)

LEMMA NewSound ==
  ASSUME NEW h, Sound(h), NEW type \in Types, NEW r \in New(h, type)
  PROVE  Created(h, r)
<1>1. CASE r = [json |-> h, item |-> NULL]
  BY <1>1, ItemFacts DEF Created, Unlinked
<1>2. ASSUME NEW k \in Fresh(h), r = [json |-> Zeroed(h, k, type), item |-> k] PROVE Created(h, r)
  BY <1>2, ZeroedSound DEF Created
<1> QED BY <1>1, <1>2 DEF New

LEMMA CreateNumberSound ==
  ASSUME NEW h, Sound(h), NEW value \in Values, NEW r \in CreateNumber(h, value)
  PROVE  Created(h, r)
<1>1. PICK s \in New(h, "number") :
        r = IF s.item = NULL THEN s ELSE [s EXCEPT !.json.value[s.item] = value]
  BY DEF CreateNumber
<1>2. Created(h, s) /\ (s \in [json : Heaps, item : Links])
  <2>1. Created(h, s)
    BY NewSound DEF Types
  <2>2. s = [json |-> s.json, item |-> s.item] /\ s.item \in Links
    BY ItemFacts DEF New, Fresh
  <2> QED BY <2>1, <2>2 DEF Created, Sound
<1>3. CASE s.item = NULL
  BY <1>1, <1>2, <1>3
<1>4. CASE s.item # NULL
  <2> DEFINE h0 == s.json
             k == s.item
             g == [h0 EXCEPT !.value[k] = value]
  <2>1. r = [json |-> g, item |-> k]
    BY <1>1, <1>2, <1>4
  <2>2. h0 \in Heaps /\ k \in Items /\ Linked(h0) /\ Leaf(h0, k)
    BY <1>2, <1>4 DEF Created, Sound, Leaf, Unlinked
  <2> HIDE DEF h0, k
  <2>3. g \in Heaps /\ SameTree(h0, g)
    BY <2>2, HeapFields DEF Heaps, SameTree, Live
  <2> HIDE DEF g
  <2>4. Linked(g) /\ (\A j : Unlinked(h0, j) <=> Unlinked(g, j)) /\ Leaf(g, k)
    BY <2>2, <2>3, SameTreeLinked
  <2> QED BY <1>2, <2>1, <2>3, <2>4 DEF Created, Sound, h0, k
<1> QED BY <1>3, <1>4

(* A string has its text copied; without a copy the item is deleted.       *)
LEMMA CreateStringSound ==
  ASSUME NEW h, Sound(h), NEW value \in Values, NEW r \in CreateString(h, value)
  PROVE  Created(h, r)
<1>1. PICK s \in New(h, "string") :
        r \in IF s.item = NULL THEN {s}
              ELSE {[s EXCEPT !.json.value[s.item] = value,
                              !.json.blocks = @ \cup {<<s.item, "text">>}],
                    [json |-> Delete(s.json, s.item), item |-> NULL]}
  BY DEF CreateString
<1>2. Created(h, s) /\ s \in [json : Heaps, item : Links]
  <2>1. Created(h, s)
    BY NewSound DEF Types
  <2>2. s = [json |-> s.json, item |-> s.item] /\ s.item \in Links
    BY ItemFacts DEF New, Fresh
  <2> QED BY <2>1, <2>2 DEF Created, Sound
<1>3. CASE s.item = NULL
  BY <1>1, <1>2, <1>3
<1>4. CASE s.item # NULL /\ r = [s EXCEPT !.json.value[s.item] = value,
                                          !.json.blocks = @ \cup {<<s.item, "text">>}]
  <2> DEFINE h0 == s.json
             k == s.item
             g == [h0 EXCEPT !.value[k] = value, !.blocks = @ \cup {<<k, "text">>}]
  <2>1. r = [json |-> g, item |-> k]
    BY <1>2, <1>4
  <2>2. h0 \in Heaps /\ k \in Items /\ Linked(h0) /\ Leaf(h0, k)
    BY <1>2, <1>4 DEF Created, Sound, Leaf, Unlinked
  <2> HIDE DEF h0, k
  <2>3. g \in Heaps /\ SameTree(h0, g)
    <3> DEFINE new == [h0.value EXCEPT ![k] = value]
               blocks == h0.blocks \cup {<<k, "text">>}
    <3>1. new \in [Items -> Values \cup {NoValue}] /\ blocks \subseteq Items \X Parts
      BY <2>2, HeapFields DEF Parts
    <3>2. g = [h0 EXCEPT !.value = new, !.blocks = blocks]
      OBVIOUS
    <3>3. \A j \in Items : <<j, "node">> \in blocks <=> <<j, "node">> \in h0.blocks
      OBVIOUS
    <3> HIDE DEF g, new, blocks
    <3>4. /\ g.blocks = blocks /\ g.child = h0.child /\ g.next = h0.next /\ g.prev = h0.prev
          /\ g \in Heaps
      BY <2>2, <3>1, <3>2 DEF Heaps
    <3> QED BY <3>3, <3>4 DEF SameTree, Live
  <2> HIDE DEF g
  <2>4. Linked(g) /\ (\A j : Unlinked(h0, j) <=> Unlinked(g, j)) /\ Leaf(g, k)
    BY <2>2, <2>3, SameTreeLinked
  <2> QED BY <1>2, <2>1, <2>3, <2>4 DEF Created, Sound, h0, k
<1>5. CASE s.item # NULL /\ r = [json |-> Delete(s.json, s.item), item |-> NULL]
  <2>1. Sound(s.json) /\ Leaf(s.json, s.item) /\ \A j : Unlinked(h, j) => Unlinked(s.json, j) /\ j # s.item
    BY <1>2, <1>5 DEF Created
  <2>2. /\ Sound(Delete(s.json, s.item))
        /\ \A j : Unlinked(s.json, j) /\ j # s.item => Unlinked(Delete(s.json, s.item), j)
    BY <2>1, DeleteSound
  <2> QED BY <1>5, <2>1, <2>2, ItemFacts DEF Created, Unlinked
<1> QED BY <1>1, <1>3, <1>4, <1>5

(* add_item_to_object: like add_item_to_array, or nothing has changed.     *)
LEMMA AddToObjectSound ==
  ASSUME NEW h, Sound(h), NEW object, NEW item, NEW key \in Keys,
         object = NULL \/ (object \in Items /\ Live(h, object)),
         item = NULL \/ Unlinked(h, item),
         NEW a \in AddToObject(h, object, key, item)
  PROVE  /\ Sound(a.json)
         /\ \A j : Unlinked(h, j) /\ j # item => Unlinked(a.json, j)
         /\ ~a.added => a.json = h
<1>1. CASE a = [json |-> h, added |-> FALSE]
  BY <1>1
<1>2. CASE /\ object # NULL /\ item # NULL
           /\ a = [json |-> AddToArray([h EXCEPT !.key[item] = key,
                                                 !.blocks = @ \cup {<<item, "key">>}],
                                       object, item), added |-> TRUE]
  <2> DEFINE g == [h EXCEPT !.key[item] = key, !.blocks = @ \cup {<<item, "key">>}]
  <2>1. h \in Heaps /\ item \in Items /\ Linked(h)
    BY <1>2 DEF Sound, Unlinked
  <2>2. g \in Heaps /\ SameTree(h, g)
    <3> DEFINE new == [h.key EXCEPT ![item] = key]
               blocks == h.blocks \cup {<<item, "key">>}
    <3>1. new \in [Items -> Keys \cup {NoKey}] /\ blocks \subseteq Items \X Parts
      BY <2>1, HeapFields DEF Parts
    <3>2. g = [h EXCEPT !.key = new, !.blocks = blocks]
      OBVIOUS
    <3>3. \A j \in Items : <<j, "node">> \in blocks <=> <<j, "node">> \in h.blocks
      OBVIOUS
    <3> HIDE DEF g, new, blocks
    <3>4. /\ g.blocks = blocks /\ g.child = h.child /\ g.next = h.next /\ g.prev = h.prev
          /\ g \in Heaps
      BY <2>1, <3>1, <3>2 DEF Heaps
    <3> QED BY <3>3, <3>4 DEF SameTree, Live
  <2>3. a.json = AddToArray(g, object, item) /\ a.added
    BY <1>2
  <2> HIDE DEF g
  <2>4. Sound(g) /\ \A j : Unlinked(h, j) <=> Unlinked(g, j)
    BY <2>1, <2>2, SameTreeLinked DEF Sound
  <2>5. (object \in Items /\ Live(g, object)) /\ Unlinked(g, item)
    BY <1>2, <2>2, <2>4 DEF SameTree
  <2> QED BY <2>3, <2>4, <2>5, AddToArraySound
<1> QED BY <1>1, <1>2 DEF AddToObject

(* cJSON_AddStringToObject and cJSON_AddNumberToObject.                    *)
LEMMA AddNewSound ==
  ASSUME NEW h, Sound(h), NEW object, NEW key \in Keys, NEW created,
         object = NULL \/ Unlinked(h, object),
         \A r \in created : Created(h, r),
         NEW a \in AddNew(object, key, created)
  PROVE  Sound(a.json) /\ \A j : Unlinked(h, j) => Unlinked(a.json, j)
<1>0. PICK r \in created :
        \E b \in AddToObject(r.json, object, key, r.item) :
          a = IF b.added THEN b ELSE [b EXCEPT !.json = Delete(@, r.item)]
  BY DEF AddNew
<1>1. PICK b \in AddToObject(r.json, object, key, r.item) :
        a = IF b.added THEN b ELSE [b EXCEPT !.json = Delete(@, r.item)]
  BY <1>0
<1>2. /\ Created(h, r) /\ Sound(r.json) /\ (r.item = NULL \/ Leaf(r.json, r.item))
      /\ \A j : Unlinked(h, j) => Unlinked(r.json, j) /\ j # r.item
  BY DEF Created
<1>3. object = NULL \/ (object \in Items /\ Live(r.json, object))
  BY <1>2 DEF Unlinked
<1>4. r.item = NULL \/ Unlinked(r.json, r.item)
  BY <1>2 DEF Leaf
<1>5. /\ Sound(b.json)
      /\ \A j : Unlinked(r.json, j) /\ j # r.item => Unlinked(b.json, j)
      /\ ~b.added => b.json = r.json
  BY <1>2, <1>3, <1>4, AddToObjectSound
<1>6. CASE b.added
  BY <1>1, <1>2, <1>5, <1>6
<1>7. CASE ~b.added
  <2>1. a.json = Delete(r.json, r.item)
    BY <1>1, <1>5, <1>7 DEF AddToObject
  <2>2. CASE r.item = NULL
    BY <1>2, <2>1, <2>2 DEF Delete
  <2>3. CASE Leaf(r.json, r.item)
    BY <1>2, <2>1, <2>3, DeleteSound
  <2> QED BY <1>2, <2>2, <2>3
<1> QED BY <1>6, <1>7

-----------------------------------------------------------------------------
(* What a heap keeps.                                                      *)

(* Items fill the heap from below, each with a node if it has anything.    *)
Tight(h) ==
  h \in Heaps /\ \A k \in Items : ~IsFree(h, k) => Live(h, k) /\ \A j \in 1 .. k - 1 : Live(h, j)

(* The items of h are in g too, and as they were.                          *)
Keeps(h, g) ==
  \A j \in Items : Live(h, j) =>
    /\ Live(g, j)
    /\ g.type[j] = h.type[j] /\ g.child[j] = h.child[j] /\ g.next[j] = h.next[j]
    /\ g.prev[j] = h.prev[j] /\ g.key[j] = h.key[j] /\ g.value[j] = h.value[j]

(* A constructor's outcome: one item more, the last one, or none.          *)
Newest(h, r, type, value) ==
  /\ r.item \in Items /\ Leaf(r.json, r.item)
  /\ \A j \in Items : Live(r.json, j) => j = r.item \/ (j < r.item /\ Live(h, j))
  /\ r.json.type[r.item] = type /\ r.json.value[r.item] = value

NoneNew(h, r) == r.item = NULL /\ \A j \in Items : Live(r.json, j) => Live(h, j)

Made(h, r, type, value) ==
  /\ Tight(r.json) /\ Keeps(h, r.json) /\ Created(h, r)
  /\ NoneNew(h, r) \/ Newest(h, r, type, value)

LEMMA ZeroedIs ==
  ASSUME NEW h, Sound(h), Tight(h), NEW k \in Fresh(h), NEW type \in Types
  PROVE  Made(h, [json |-> Zeroed(h, k, type), item |-> k], type, NoValue)
<1> DEFINE g == Zeroed(h, k, type)
           r == [json |-> g, item |-> k]
<1>1. /\ k \in Items /\ IsFree(h, k) /\ ~Live(h, k) /\ \A j \in 1 .. k - 1 : ~IsFree(h, j)
      /\ MaxItems \in Nat
  BY ItemsAssumption DEF Fresh, IsFree, Live, Parts
<1>2. /\ h \in Heaps /\ h.type \in [Items -> Types]
      /\ h.child \in [Items -> Links] /\ h.next \in [Items -> Links] /\ h.prev \in [Items -> Links]
      /\ h.key \in [Items -> Keys \cup {NoKey}] /\ h.value \in [Items -> Values \cup {NoValue}]
  BY HeapFields DEF Sound
<1>3. /\ g.blocks = h.blocks \cup {<<k, "node">>} /\ g.type = [h.type EXCEPT ![k] = type]
      /\ g.child = [h.child EXCEPT ![k] = NULL] /\ g.next = [h.next EXCEPT ![k] = NULL]
      /\ g.prev = [h.prev EXCEPT ![k] = NULL] /\ g.key = [h.key EXCEPT ![k] = NoKey]
      /\ g.value = [h.value EXCEPT ![k] = NoValue]
  BY DEF Zeroed
<1>4. Sound(g) /\ Leaf(g, k) /\ \A j : Unlinked(h, j) => Unlinked(g, j) /\ j # k
  BY ZeroedSound
<1> HIDE DEF g
<1>5. Created(h, r)
  BY <1>4 DEF Created
<1>6. \A j \in Items : j # k => (IsFree(g, j) <=> IsFree(h, j)) /\ (Live(g, j) <=> Live(h, j))
  BY <1>1, <1>3 DEF IsFree, Live
<1>7. Live(g, k)
  BY <1>3 DEF Live
<1>8. \A j \in Items : Live(h, j) => j < k
  <2> SUFFICES ASSUME NEW j \in Items, Live(h, j), ~(j < k) PROVE FALSE OBVIOUS
  <2>1. j # k /\ k \in 1 .. j - 1
    BY <1>1 DEF Items
  <2>2. ~IsFree(h, j)
    BY DEF Live, IsFree, Parts
  <2> QED BY <1>1, <2>1, <2>2 DEF Tight
<1>9. Tight(g)
  <2> SUFFICES ASSUME NEW j \in Items, ~IsFree(g, j)
               PROVE  Live(g, j) /\ \A i \in 1 .. j - 1 : Live(g, i)
    BY <1>4 DEF Tight, Sound
  <2>1. CASE j = k
    <3>1. \A i \in 1 .. k - 1 : i \in Items /\ ~IsFree(h, i) /\ i # k
      BY <1>1 DEF Items
    <3>2. \A i \in 1 .. k - 1 : Live(h, i)
      BY <3>1 DEF Tight
    <3> QED BY <1>6, <1>7, <2>1, <3>1, <3>2
  <2>2. CASE j # k
    <3>1. Live(h, j) /\ \A i \in 1 .. j - 1 : Live(h, i)
      BY <1>6, <2>2 DEF Tight
    <3>2. \A i \in 1 .. j - 1 : i \in Items
      BY <1>1 DEF Items
    <3> QED BY <1>6, <1>7, <2>2, <3>1, <3>2
  <2> QED BY <2>1, <2>2
<1>10. Keeps(h, g)
  BY <1>1, <1>2, <1>3, <1>6 DEF Keeps
<1>11. Newest(h, r, type, NoValue)
  BY <1>1, <1>2, <1>3, <1>4, <1>6, <1>8 DEF Newest
<1> QED BY <1>5, <1>9, <1>10, <1>11 DEF Made, g

LEMMA NewIs ==
  ASSUME NEW h, Sound(h), Tight(h), NEW type \in Types, NEW r \in New(h, type)
  PROVE  Made(h, r, type, NoValue)
<1>1. CASE r = [json |-> h, item |-> NULL]
  BY <1>1, NewSound DEF Made, NoneNew, Keeps
<1>2. ASSUME NEW k \in Fresh(h), r = [json |-> Zeroed(h, k, type), item |-> k]
      PROVE  Made(h, r, type, NoValue)
  BY <1>2, ZeroedIs
<1> QED BY <1>1, <1>2 DEF New

(* Deleting the newest item leaves the heap as it was before it.           *)
LEMMA DeleteIs ==
  ASSUME NEW h, NEW r, NEW type, NEW value, Made(h, r, type, value), r.item # NULL
  PROVE  /\ Tight(Delete(r.json, r.item)) /\ Keeps(h, Delete(r.json, r.item))
         /\ \A j \in Items : Live(Delete(r.json, r.item), j) => Live(h, j)
<1> DEFINE k == r.item
           f == r.json
           g == Delete(f, k)
<1>1. /\ k \in Items /\ Leaf(f, k) /\ f \in Heaps /\ Tight(f) /\ Keeps(h, f) /\ Sound(f)
      /\ \A j \in Items : Live(f, j) => j = k \/ (j < k /\ Live(h, j))
      /\ MaxItems \in Nat
  BY ItemsAssumption DEF Made, NoneNew, Newest, Tight, Created
<1>2. ~Live(h, k)
  <2>1. ASSUME Live(h, k) PROVE FALSE
    <3>1. Unlinked(h, k)
      BY <1>1, <2>1 DEF Keeps, Leaf, Unlinked
    <3> QED BY <3>1 DEF Made, Created
  <2> QED BY <2>1
<1>3. g = [f EXCEPT !.blocks = @ \ ({k} \X Parts)]
  BY <1>1 DEF Delete, Behind, Leaf, Unlinked
<1>4. Sound(g)
  BY <1>1, DeleteSound
<1> HIDE DEF f, k
<1>5. /\ g.blocks = f.blocks \ ({k} \X Parts) /\ g.type = f.type
      /\ g.child = f.child /\ g.next = f.next /\ g.prev = f.prev /\ g.key = f.key /\ g.value = f.value
  BY <1>1, <1>3, HeapFields
<1> HIDE DEF g
<1>6. \A j \in Items : (Live(g, j) <=> Live(f, j) /\ j # k) /\ (~IsFree(g, j) => ~IsFree(f, j) /\ j # k)
  BY <1>5 DEF Live, IsFree, Parts
<1>7. Tight(g)
  <2> SUFFICES ASSUME NEW j \in Items, ~IsFree(g, j)
               PROVE  Live(g, j) /\ \A i \in 1 .. j - 1 : Live(g, i)
    BY <1>4 DEF Tight, Sound
  <2>1. Live(f, j) /\ j # k /\ \A i \in 1 .. j - 1 : Live(f, i)
    BY <1>1, <1>6 DEF Tight
  <2>2. j < k /\ \A i \in 1 .. j - 1 : i \in Items /\ i # k
    BY <1>1, <2>1 DEF Items
  <2> QED BY <1>6, <2>1, <2>2
<1>8. Keeps(h, g)
  BY <1>1, <1>2, <1>5, <1>6 DEF Keeps
<1>9. \A j \in Items : Live(g, j) => Live(h, j)
  BY <1>1, <1>6
<1> QED BY <1>7, <1>8, <1>9 DEF g, f, k

(* A text or a key comes to an item that is there.                         *)
LEMMA DressedTight ==
  ASSUME NEW h, Tight(h), NEW k \in Items, Live(h, k), NEW part \in Parts, NEW g \in Heaps,
         g.blocks \in {h.blocks, h.blocks \cup {<<k, part>>}}
  PROVE  Tight(g) /\ \A j \in Items : Live(g, j) <=> Live(h, j)
<1>1. \A j \in Items : Live(g, j) <=> Live(h, j)
  BY DEF Live
<1>2. \A j \in Items : ~IsFree(g, j) => ~IsFree(h, j)
  <2> SUFFICES ASSUME NEW j \in Items, ~IsFree(g, j) PROVE ~IsFree(h, j)
    OBVIOUS
  <2>1. CASE j = k
    BY <2>1 DEF Live, IsFree, Parts
  <2>2. CASE j # k
    BY <2>2 DEF IsFree
  <2> QED BY <2>1, <2>2
<1>3. \A j \in Items : \A i \in 1 .. j - 1 : i \in Items
  BY ItemsAssumption DEF Items
<1> QED BY <1>1, <1>2, <1>3 DEF Tight

(* The item's value is set, and its text or its key may come to it.        *)
LEMMA DressedIs ==
  ASSUME NEW h, NEW r, NEW type, NEW old, Made(h, r, type, old), r.item # NULL,
         NEW g \in Heaps, SameTree(r.json, g), g.type = r.json.type,
         NEW part \in Parts, g.blocks \in {r.json.blocks, r.json.blocks \cup {<<r.item, part>>}},
         \A j \in Items : j # r.item => g.key[j] = r.json.key[j] /\ g.value[j] = r.json.value[j]
  PROVE  Made(h, [json |-> g, item |-> r.item], type, g.value[r.item])
<1> DEFINE k == r.item
           f == r.json
<1>1. /\ k \in Items /\ Leaf(f, k) /\ f \in Heaps /\ Tight(f) /\ Keeps(h, f) /\ Sound(f)
      /\ \A j \in Items : Live(f, j) => j = k \/ (j < k /\ Live(h, j))
      /\ f.type[k] = type
      /\ \A j : Unlinked(h, j) => Unlinked(f, j) /\ j # k
  BY DEF Made, NoneNew, Newest, Tight, Created
<1>2. /\ g.child = f.child /\ g.next = f.next /\ g.prev = f.prev
      /\ \A j \in Items : Live(g, j) <=> Live(f, j)
  BY DEF SameTree
<1>3. Linked(g) /\ \A j : (Unlinked(f, j) <=> Unlinked(g, j)) /\ (Leaf(f, j) <=> Leaf(g, j))
  BY <1>1, SameTreeLinked DEF Sound
<1>4. ~Live(h, k)
  <2>1. ASSUME Live(h, k) PROVE FALSE
    <3>1. Unlinked(h, k)
      BY <1>1, <2>1 DEF Keeps, Leaf, Unlinked
    <3> QED BY <1>1, <3>1
  <2> QED BY <2>1
<1>6. Tight(g)
  BY <1>1, DressedTight DEF Leaf, Unlinked
<1> HIDE DEF f, k
<1>7. Keeps(h, g)
  <2> SUFFICES ASSUME NEW j \in Items, Live(h, j)
               PROVE  /\ Live(g, j)
                      /\ g.type[j] = h.type[j] /\ g.child[j] = h.child[j] /\ g.next[j] = h.next[j]
                      /\ g.prev[j] = h.prev[j] /\ g.key[j] = h.key[j] /\ g.value[j] = h.value[j]
    BY DEF Keeps
  <2>1. j # k
    BY <1>4
  <2> QED BY <1>1, <1>2, <2>1 DEF Keeps, f, k
<1>8. Created(h, [json |-> g, item |-> k]) /\ Newest(h, [json |-> g, item |-> k], type, g.value[k])
  BY <1>1, <1>2, <1>3 DEF Created, Newest, Sound, f
<1> QED BY <1>6, <1>7, <1>8 DEF Made, k

LEMMA CreateNumberIs ==
  ASSUME NEW h, Sound(h), Tight(h), NEW value \in Values, NEW r \in CreateNumber(h, value)
  PROVE  Made(h, r, "number", value)
<1>1. PICK s \in New(h, "number") :
        r = IF s.item = NULL THEN s ELSE [s EXCEPT !.json.value[s.item] = value]
  BY DEF CreateNumber
<1>2. Made(h, s, "number", NoValue) /\ s = [json |-> s.json, item |-> s.item]
  BY NewIs DEF Types, New
<1>3. CASE s.item = NULL
  BY <1>1, <1>2, <1>3, ItemFacts DEF Made, NoneNew, Newest
<1>4. CASE s.item # NULL
  <2> DEFINE f == s.json
             k == s.item
             g == [f EXCEPT !.value[k] = value]
  <2>1. r = [json |-> g, item |-> k]
    BY <1>1, <1>2, <1>4
  <2>2. f \in Heaps /\ k \in Items
    BY <1>2, <1>4 DEF Made, Tight, NoneNew, Newest
  <2>3. /\ g \in Heaps /\ SameTree(f, g) /\ g.type = f.type /\ g.blocks = f.blocks
        /\ g.key = f.key /\ g.value = [f.value EXCEPT ![k] = value]
    <3> HIDE DEF f, k
    <3> QED BY <2>2, HeapFields DEF Heaps, SameTree, Live
  <2>4. /\ \A j \in Items : j # k => g.key[j] = f.key[j] /\ g.value[j] = f.value[j]
        /\ g.value[k] = value
    <3> HIDE DEF g, f, k
    <3> QED BY <2>2, <2>3, HeapFields
  <2> HIDE DEF g
  <2>5. Made(h, [json |-> g, item |-> s.item], "number", g.value[s.item])
    BY <1>2, <1>4, <2>3, <2>4, DressedIs DEF Parts
  <2> QED BY <2>1, <2>4, <2>5
<1> QED BY <1>3, <1>4

LEMMA CreateStringIs ==
  ASSUME NEW h, Sound(h), Tight(h), NEW value \in Values, NEW r \in CreateString(h, value)
  PROVE  Made(h, r, "string", value)
<1>1. PICK s \in New(h, "string") :
        r \in IF s.item = NULL THEN {s}
              ELSE {[s EXCEPT !.json.value[s.item] = value,
                              !.json.blocks = @ \cup {<<s.item, "text">>}],
                    [json |-> Delete(s.json, s.item), item |-> NULL]}
  BY DEF CreateString
<1>2. Made(h, s, "string", NoValue) /\ s = [json |-> s.json, item |-> s.item]
  BY NewIs DEF Types, New
<1>3. CASE s.item = NULL
  BY <1>1, <1>2, <1>3, ItemFacts DEF Made, NoneNew, Newest
<1>4. CASE s.item # NULL /\ r = [s EXCEPT !.json.value[s.item] = value,
                                          !.json.blocks = @ \cup {<<s.item, "text">>}]
  <2> DEFINE f == s.json
             k == s.item
             g == [f EXCEPT !.value[k] = value, !.blocks = @ \cup {<<k, "text">>}]
             new == [f.value EXCEPT ![k] = value]
             blocks == f.blocks \cup {<<k, "text">>}
  <2>1. r = [json |-> g, item |-> k]
    BY <1>2, <1>4
  <2>2. f \in Heaps /\ k \in Items
    BY <1>2, <1>4 DEF Made, Tight, NoneNew, Newest
  <2>3. g = [f EXCEPT !.value = new, !.blocks = blocks]
    OBVIOUS
  <2>4. new \in [Items -> Values \cup {NoValue}] /\ blocks \subseteq Items \X Parts
    <3> HIDE DEF f, k
    <3> QED BY <2>2, HeapFields DEF Parts
  <2>5. \A j \in Items : <<j, "node">> \in blocks <=> <<j, "node">> \in f.blocks
    OBVIOUS
  <2> HIDE DEF g, f, k, new, blocks
  <2>6. /\ g.blocks = blocks /\ g.child = f.child /\ g.next = f.next /\ g.prev = f.prev
        /\ g.type = f.type /\ g.key = f.key /\ g.value = new /\ g \in Heaps
    BY <2>2, <2>3, <2>4 DEF Heaps
  <2>7. SameTree(f, g)
    BY <2>5, <2>6 DEF SameTree, Live
  <2>8. /\ \A j \in Items : j # k => g.key[j] = f.key[j] /\ g.value[j] = f.value[j]
        /\ g.value[k] = value
    BY <2>2, <2>6, HeapFields DEF new
  <2>9. Made(h, [json |-> g, item |-> s.item], "string", g.value[s.item])
    BY <1>2, <1>4, <2>6, <2>7, <2>8, DressedIs DEF Parts, f, k, blocks
  <2> QED BY <2>1, <2>8, <2>9 DEF k
<1>5. CASE s.item # NULL /\ r = [json |-> Delete(s.json, s.item), item |-> NULL]
  <2>1. /\ Tight(Delete(s.json, s.item)) /\ Keeps(h, Delete(s.json, s.item))
        /\ \A j \in Items : Live(Delete(s.json, s.item), j) => Live(h, j)
    BY <1>2, <1>5, DeleteIs
  <2>2. Created(h, r)
    BY CreateStringSound
  <2> QED BY <1>5, <2>1, <2>2 DEF Made, NoneNew
<1> QED BY <1>1, <1>3, <1>4, <1>5

(* add_item_to_object, when it adds: the key, and then the list.           *)
LEMMA AddToObjectIs ==
  ASSUME NEW h, Sound(h), NEW object, NEW item, NEW key \in Keys, item = NULL \/ Unlinked(h, item),
         NEW a \in AddToObject(h, object, key, item), a.added
  PROVE  /\ object # NULL /\ item # NULL /\ object # item
         /\ \E g \in Heaps :
              /\ a.json = AddToArray(g, object, item) /\ SameTree(h, g)
              /\ g.blocks = h.blocks \cup {<<item, "key">>} /\ g.type = h.type /\ g.value = h.value
              /\ g.key[item] = key /\ \A j \in Items : j # item => g.key[j] = h.key[j]
<1> DEFINE g == [h EXCEPT !.key[item] = key, !.blocks = @ \cup {<<item, "key">>}]
           new == [h.key EXCEPT ![item] = key]
           blocks == h.blocks \cup {<<item, "key">>}
<1>1. /\ object # NULL /\ item # NULL /\ object # item
      /\ a.json = AddToArray(g, object, item)
  BY DEF AddToObject
<1>2. h \in Heaps /\ item \in Items
  BY <1>1 DEF Sound, Unlinked
<1>3. /\ new \in [Items -> Keys \cup {NoKey}] /\ blocks \subseteq Items \X Parts
      /\ new[item] = key /\ \A j \in Items : j # item => new[j] = h.key[j]
  BY <1>2, HeapFields DEF Parts
<1>4. g = [h EXCEPT !.key = new, !.blocks = blocks]
  OBVIOUS
<1>5. \A j \in Items : <<j, "node">> \in blocks <=> <<j, "node">> \in h.blocks
  OBVIOUS
<1> HIDE DEF g, new, blocks
<1>6. /\ g.blocks = blocks /\ g.child = h.child /\ g.next = h.next /\ g.prev = h.prev
      /\ g.type = h.type /\ g.key = new /\ g.value = h.value /\ g \in Heaps
  BY <1>2, <1>3, <1>4 DEF Heaps
<1>7. SameTree(h, g)
  BY <1>5, <1>6 DEF SameTree, Live
<1> QED BY <1>1, <1>3, <1>6, <1>7 DEF blocks

(* cJSON_AddStringToObject and cJSON_AddNumberToObject: a new item comes   *)
(* into the list of the object, or nothing is left of it.                  *)
LEMMA AddNewIs ==
  ASSUME NEW h, Sound(h), Tight(h), NEW object, NEW key \in Keys, NEW created, NEW type, NEW value,
         \A r \in created : r = [json |-> r.json, item |-> r.item] /\ Made(h, r, type, value),
         NEW a \in AddNew(object, key, created)
  PROVE  \/ /\ ~a.added /\ Tight(a.json) /\ Keeps(h, a.json)
            /\ \A j \in Items : Live(a.json, j) => Live(h, j)
         \/ /\ a.added /\ object # NULL
            /\ \E f \in Heaps, x \in Items :
                 /\ Made(h, [json |-> f, item |-> x], type, value) /\ f.key[x] = key
                 /\ a.json = AddToArray(f, object, x) /\ x # object
<1>0. PICK r \in created :
        \E b \in AddToObject(r.json, object, key, r.item) :
          a = IF b.added THEN b ELSE [b EXCEPT !.json = Delete(@, r.item)]
  BY DEF AddNew
<1>1. PICK b \in AddToObject(r.json, object, key, r.item) :
        a = IF b.added THEN b ELSE [b EXCEPT !.json = Delete(@, r.item)]
  BY <1>0
<1>2. /\ Made(h, r, type, value) /\ Sound(r.json) /\ (r.item = NULL \/ Unlinked(r.json, r.item))
      /\ (r.item = NULL \/ Newest(h, r, type, value))
  BY DEF Made, Created, Leaf, NoneNew
<1>3. CASE b.added
  <2>1. a = b /\ object # NULL /\ r.item # NULL /\ object # r.item
    BY <1>1, <1>2, <1>3, AddToObjectIs
  <2>2. PICK f \in Heaps :
          /\ b.json = AddToArray(f, object, r.item) /\ SameTree(r.json, f)
          /\ f.blocks = r.json.blocks \cup {<<r.item, "key">>}
          /\ f.type = r.json.type /\ f.value = r.json.value
          /\ f.key[r.item] = key /\ \A j \in Items : j # r.item => f.key[j] = r.json.key[j]
    BY <1>2, <1>3, AddToObjectIs
  <2>3. r.item \in Items /\ f.value[r.item] = value
    BY <1>2, <2>1, <2>2 DEF Newest
  <2>4. Made(h, [json |-> f, item |-> r.item], type, f.value[r.item])
    BY <1>2, <2>1, <2>2, DressedIs DEF Parts
  <2> QED BY <1>3, <2>1, <2>2, <2>3, <2>4
<1>4. CASE ~b.added
  <2>1. b = [json |-> r.json, added |-> FALSE]
    BY <1>4 DEF AddToObject
  <2>2. a = [json |-> Delete(r.json, r.item), added |-> FALSE]
    BY <1>1, <2>1
  <2>3. CASE r.item = NULL
    <3>1. a.json = r.json /\ ~a.added
      BY <2>2, <2>3 DEF Delete
    <3>2. \A j \in Items : Live(r.json, j) => Live(h, j)
      BY <1>2, <2>3, ItemFacts DEF Made, NoneNew, Newest
    <3> QED BY <1>2, <3>1, <3>2 DEF Made
  <2>4. CASE r.item # NULL
    BY <1>2, <2>2, <2>4, DeleteIs
  <2> QED BY <2>3, <2>4
<1> QED BY <1>3, <1>4

-----------------------------------------------------------------------------
(* What is reached from roots: an item comes after an older one, or is the *)
(* first one under it.                                                     *)
Rooted(h, roots) ==
  \A k \in Items : Live(h, k) /\ k \notin roots =>
    \E j \in 1 .. k - 1 : j \in Items /\ Live(h, j) /\ (h.next[j] = k \/ h.child[j] = k)

LEMMA KeptRooted ==
  ASSUME NEW h, NEW g, NEW roots, NEW new, Keeps(h, g), Rooted(h, roots),
         \A j \in Items : Live(g, j) => Live(h, j) \/ j \in new
  PROVE  Rooted(g, roots \cup new)
BY DEF Keeps, Rooted

LEMMA HungRooted ==
  ASSUME NEW h, Sound(h), Tight(h), NEW array \in Items, Live(h, array), NEW item, Unlinked(h, item),
         item # array, NEW roots, Rooted(h, roots \cup {item}),
         item \in roots \/ \A j \in Items : Live(h, j) => j = item \/ j < item
  PROVE  Tight(AddToArray(h, array, item)) /\ Rooted(AddToArray(h, array, item), roots)
<1> DEFINE g == AddToArray(h, array, item)
<1>1. /\ g \in Heaps /\ g.blocks = h.blocks
      /\ \/ ListBegun(h, g, array, item)
         \/ \E first, last : ListGrown(h, g, array, first, last, item)
  BY AddToArrayIs
<1>2. item \in Items /\ NULL \notin Items /\ Items \subseteq Nat \ {0}
  BY ItemFacts, ItemsAssumption DEF Unlinked, Items
<1> HIDE DEF g
<1>3. \A j \in Items : (Live(g, j) <=> Live(h, j)) /\ (IsFree(g, j) <=> IsFree(h, j))
  BY <1>1 DEF Live, IsFree
<1>4. Tight(g)
  <2>1. \A j \in Items : \A i \in 1 .. j - 1 : i \in Items
    BY ItemsAssumption DEF Items
  <2> QED BY <1>1, <1>3, <2>1 DEF Tight
<1>5. \A j, k \in Items : h.next[j] = k \/ h.child[j] = k => g.next[j] = k \/ g.child[j] = k
  BY <1>1, <1>2 DEF ListBegun, ListGrown
<1>6. \E j \in Items : Live(h, j) /\ j # item /\ (g.next[j] = item \/ g.child[j] = item)
  BY <1>1 DEF ListBegun, ListGrown
<1>7. Rooted(g, roots)
  <2> SUFFICES ASSUME NEW k \in Items, Live(g, k), k \notin roots
               PROVE  \E j \in 1 .. k - 1 : j \in Items /\ Live(g, j) /\ (g.next[j] = k \/ g.child[j] = k)
    BY DEF Rooted
  <2>1. CASE k = item
    <3>1. PICK j \in Items : Live(h, j) /\ j # item /\ (g.next[j] = item \/ g.child[j] = item)
      BY <1>6
    <3>2. j \in 1 .. k - 1
      BY <1>2, <2>1, <3>1
    <3> QED BY <1>3, <2>1, <3>1, <3>2
  <2>2. CASE k # item
    <3>1. PICK j \in 1 .. k - 1 : j \in Items /\ Live(h, j) /\ (h.next[j] = k \/ h.child[j] = k)
      BY <1>3, <2>2 DEF Rooted
    <3> QED BY <1>3, <1>5, <3>1
  <2> QED BY <2>1, <2>2
<1> QED BY <1>4, <1>7 DEF g

-----------------------------------------------------------------------------
(* Recursive definitions, by their least counterexample.                   *)
LEMMA Least ==
  ASSUME NEW T \in SUBSET Nat, T # {}
  PROVE  \E m \in T : \A y \in T : m <= y
<1>1. IsWellFoundedOn(OpToRel(<, Nat), Nat)
  BY NatLessThanWellFounded
<1>2. PICK m \in T : \A y \in T : ~(<<y, m>> \in OpToRel(<, Nat))
  BY <1>1, WFMin
<1>3. \A y \in T : ~(y < m)
  BY <1>2 DEF OpToRel
<1> QED BY <1>3

(* A value and a step from one value to the next make a function.          *)
Runs(f, n, base, step) ==
  f[0] = base /\ \A i \in 1 .. n : f[i] = step[<<i, f[i - 1]>>]

LEMMA RunExists ==
  ASSUME NEW n \in Nat, NEW V, NEW base \in V, NEW step \in [(1 .. n) \X V -> V]
  PROVE  \E f \in [0 .. n -> V] : Runs(f, n, base, step)
<1> DEFINE T == {m \in 0 .. n : ~ \E f \in [0 .. m -> V] : Runs(f, m, base, step)}
<1>1. SUFFICES ASSUME T # {} PROVE FALSE
  <2>1. n \in 0 .. n
    OBVIOUS
  <2>2. n \notin T
    BY <1>1
  <2> QED BY <2>1, <2>2
<1>2. PICK m \in T : \A y \in T : m <= y
  <2>1. T \in SUBSET Nat
    OBVIOUS
  <2> HIDE DEF T
  <2> QED BY <1>1, <2>1, Least
<1>3. m \in 0 .. n /\ ~ \E f \in [0 .. m -> V] : Runs(f, m, base, step)
  BY <1>2
<1>4. CASE m = 0
  <2> DEFINE f == [i \in 0 .. m |-> base]
  <2>1. f \in [0 .. m -> V] /\ Runs(f, m, base, step)
    BY <1>4 DEF Runs
  <2> QED BY <1>3, <2>1
<1>5. CASE m > 0
  <2>1. m - 1 \in 0 .. n /\ m - 1 \notin T
    BY <1>2, <1>3, <1>5
  <2>2. PICK f \in [0 .. m - 1 -> V] : Runs(f, m - 1, base, step)
    BY <2>1
  <2>3. f[m - 1] \in V /\ m \in 1 .. n
    BY <1>3, <1>5, <2>2
  <2> DEFINE v == step[<<m, f[m - 1]>>]
             g == [i \in 0 .. m |-> IF i = m THEN v ELSE f[i]]
  <2>4. v \in V
    BY <2>3
  <2> HIDE DEF v
  <2>5. g \in [0 .. m -> V]
    BY <1>3, <1>5, <2>4
  <2>6. /\ g[0] = f[0] /\ g[m] = v
        /\ \A i \in 1 .. m - 1 : g[i] = f[i] /\ g[i - 1] = f[i - 1]
        /\ g[m - 1] = f[m - 1]
    BY <1>3, <1>5
  <2> HIDE DEF g
  <2>7. \A i \in 1 .. m : g[i] = step[<<i, g[i - 1]>>]
    <3> SUFFICES ASSUME NEW i \in 1 .. m PROVE g[i] = step[<<i, g[i - 1]>>]
      OBVIOUS
    <3>1. CASE i = m
      BY <2>6, <3>1 DEF v
    <3>2. CASE i # m
      <4>1. i \in 1 .. m - 1
        BY <1>3, <3>2
      <4> QED BY <2>2, <2>6, <4>1 DEF Runs
    <3> QED BY <3>1, <3>2
  <2>8. Runs(g, m, base, step)
    BY <2>2, <2>6, <2>7 DEF Runs
  <2> QED BY <1>3, <2>5, <2>8
<1> QED BY <1>3, <1>4, <1>5

-----------------------------------------------------------------------------
(* What cJSON_Delete would reach, step by step.                            *)
Reach(R, h, k) ==
  /\ R \in [0 .. MaxItems -> SUBSET Items] /\ R[0] = {k}
  /\ \A n \in 1 .. MaxItems : \A j \in R[n - 1] :
       /\ j \in R[n]
       /\ h.next[j] # NULL => h.next[j] \in R[n]
       /\ h.child[j] # NULL => h.child[j] \in R[n]

LEMMA BehindIs ==
  ASSUME NEW h \in Heaps, NEW k \in Items
  PROVE  \E R : Reach(R, h, k) /\ R[MaxItems] \subseteq Behind(h, k)
<1>1. /\ MaxItems \in Nat /\ NULL \notin Items
      /\ h.next \in [Items -> Links] /\ h.child \in [Items -> Links]
      /\ \A j \in Links : j # NULL => j \in Items
  BY ItemFacts, ItemsAssumption, HeapFields
<1>2. CASE h.next[k] = NULL /\ h.child[k] = NULL
  <2> DEFINE R == [n \in 0 .. MaxItems |-> {k}]
  <2>1. Reach(R, h, k) /\ R[MaxItems] = {k}
    BY <1>1, <1>2 DEF Reach
  <2> QED BY <1>2, <2>1 DEF Behind
<1>3. CASE ~(h.next[k] = NULL /\ h.child[k] = NULL)
  <2> DEFINE After(S) == (S \cup {h.next[j] : j \in S} \cup {h.child[j] : j \in S}) \ {NULL}
             step == [p \in (1 .. MaxItems) \X SUBSET Items |-> After(p[2])]
             R == CHOOSE R : R = [n \in 0 .. MaxItems |->
                    IF n = 0 THEN {k}
                    ELSE LET S == R[n - 1]
                         IN  (S \cup {h.next[j] : j \in S} \cup {h.child[j] : j \in S}) \ {NULL}]
  <2> HIDE DEF R
  <2>1. \A S \in SUBSET Items : After(S) \in SUBSET Items
    BY <1>1
  <2>2. step \in [(1 .. MaxItems) \X SUBSET Items -> SUBSET Items]
    BY <2>1
  <2>3. PICK f \in [0 .. MaxItems -> SUBSET Items] : Runs(f, MaxItems, {k}, step)
    <3> HIDE DEF step
    <3> QED BY <1>1, <2>2, RunExists
  <2>4. \A n \in 0 .. MaxItems : f[n] = IF n = 0 THEN {k} ELSE After(f[n - 1])
    <3> SUFFICES ASSUME NEW n \in 0 .. MaxItems
                 PROVE  f[n] = IF n = 0 THEN {k} ELSE After(f[n - 1])
      OBVIOUS
    <3>1. CASE n = 0
      BY <2>3, <3>1 DEF Runs
    <3>2. CASE n # 0
      <4>1. n \in 1 .. MaxItems /\ n - 1 \in 0 .. MaxItems
        BY <1>1, <3>2
      <4>2. f[n - 1] \in SUBSET Items
        BY <2>3, <4>1
      <4>3. f[n] = step[<<n, f[n - 1]>>]
        <5> HIDE DEF step
        <5> QED BY <2>3, <4>1 DEF Runs
      <4>4. step[<<n, f[n - 1]>>] = After(f[n - 1])
        BY <4>1, <4>2
      <4> QED BY <3>2, <4>3, <4>4
    <3> QED BY <3>1, <3>2
  <2>5. f = [n \in 0 .. MaxItems |->
               IF n = 0 THEN {k}
               ELSE LET S == f[n - 1]
                    IN  (S \cup {h.next[j] : j \in S} \cup {h.child[j] : j \in S}) \ {NULL}]
    BY <2>4
  <2>6. R = [n \in 0 .. MaxItems |->
               IF n = 0 THEN {k}
               ELSE LET S == R[n - 1]
                    IN  (S \cup {h.next[j] : j \in S} \cup {h.child[j] : j \in S}) \ {NULL}]
    BY <2>5 DEF R
  <2>7. Behind(h, k) = R[MaxItems]
    BY <1>3 DEF Behind, R
  <2>8. R[0] = {k} /\ \A n \in 1 .. MaxItems : R[n] = After(R[n - 1])
    <3>1. \A n \in 0 .. MaxItems : R[n] = IF n = 0 THEN {k} ELSE After(R[n - 1])
      BY <2>6
    <3>2. 0 \in 0 .. MaxItems /\ \A n \in 1 .. MaxItems : n \in 0 .. MaxItems /\ n # 0
      BY <1>1
    <3> HIDE DEF After
    <3> QED BY <3>1, <3>2
  <2> HIDE DEF After
  <2>9. R \in [0 .. MaxItems -> SUBSET Items]
    <3> DEFINE T == {n \in 0 .. MaxItems : R[n] \notin SUBSET Items}
    <3>1. ASSUME T # {} PROVE FALSE
      <4>1. T \in SUBSET Nat
        OBVIOUS
      <4>2. PICK m \in T : \A y \in T : m <= y
        <5> HIDE DEF T
        <5> QED BY <3>1, <4>1, Least
      <4>3. m \in 1 .. MaxItems /\ m - 1 \in 0 .. MaxItems /\ m - 1 \notin T
        BY <1>1, <2>8, <4>2
      <4> QED BY <2>1, <2>8, <4>2, <4>3
    <3>2. \A n \in 0 .. MaxItems : R[n] \in SUBSET Items
      BY <3>1
    <3> QED BY <2>6, <3>2
  <2>10. Reach(R, h, k)
    <3>1. \A S : \A j \in S : /\ j # NULL => j \in After(S)
                              /\ h.next[j] # NULL => h.next[j] \in After(S)
                              /\ h.child[j] # NULL => h.child[j] \in After(S)
      BY DEF After
    <3>2. \A n \in 1 .. MaxItems : \A j \in R[n - 1] : j # NULL
      BY <1>1, <2>9
    <3> QED BY <2>8, <2>9, <3>1, <3>2 DEF Reach
  <2> QED BY <2>7, <2>10
<1> QED BY <1>2, <1>3

LEMMA RootStays ==
  ASSUME NEW R, NEW h, NEW k, Reach(R, h, k)
  PROVE  \A n \in 0 .. MaxItems : k \in R[n]
<1> DEFINE T == {n \in 0 .. MaxItems : k \notin R[n]}
<1>1. ASSUME T # {} PROVE FALSE
  <2>1. T \in SUBSET Nat
    BY ItemsAssumption
  <2>2. PICK m \in T : \A y \in T : m <= y
    <3> HIDE DEF T
    <3> QED BY <1>1, <2>1, Least
  <2>3. m \in 1 .. MaxItems /\ m - 1 \in 0 .. MaxItems /\ m - 1 \notin T
    BY ItemsAssumption, <2>2 DEF Reach
  <2> QED BY <2>2, <2>3 DEF Reach
<1> QED BY <1>1

(* The k-th item is reached in k steps: what it comes after is older.      *)
LEMMA AllBehind ==
  ASSUME NEW h \in Heaps, NEW roots \in SUBSET Links, Rooted(h, roots), NEW k \in Items, Live(h, k)
  PROVE  k \in UNION {Behind(h, r) : r \in roots \ {NULL}}
<1> DEFINE Reached(j) == \E r \in roots \ {NULL} :
                           \A R : Reach(R, h, r) => \A n \in j .. MaxItems : j \in R[n]
           T == {j \in Items : Live(h, j) /\ ~Reached(j)}
<1>0. MaxItems \in Nat /\ NULL \notin Items /\ \A j \in Links : j # NULL => j \in Items
  BY ItemFacts, ItemsAssumption
<1>1. ASSUME T # {} PROVE FALSE
  <2>1. T \in SUBSET Nat
    BY <1>0 DEF Items
  <2>2. PICK m \in T : \A y \in T : m <= y
    <3> HIDE DEF T
    <3> QED BY <1>1, <2>1, Least
  <2>3. m \in 1 .. MaxItems /\ Live(h, m) /\ ~Reached(m)
    BY <2>2 DEF Items
  <2>4. CASE m \in roots
    <3>1. \A R : Reach(R, h, m) => \A n \in m .. MaxItems : m \in R[n]
      <4>1. \A n \in m .. MaxItems : n \in 0 .. MaxItems
        BY <1>0, <2>3
      <4> QED BY <4>1, RootStays
    <3>2. m # NULL
      BY <1>0, <2>2
    <3> QED BY <2>3, <2>4, <3>1, <3>2
  <2>5. CASE m \notin roots
    <3>1. PICK j \in 1 .. m - 1 : j \in Items /\ Live(h, j) /\ (h.next[j] = m \/ h.child[j] = m)
      BY <2>2, <2>3, <2>5 DEF Rooted
    <3>2. j \notin T
      BY <1>0, <2>2, <2>3, <3>1
    <3>3. PICK r \in roots \ {NULL} : \A R : Reach(R, h, r) => \A n \in j .. MaxItems : j \in R[n]
      BY <3>1, <3>2
    <3>4. ASSUME NEW R, Reach(R, h, r), NEW n \in m .. MaxItems PROVE m \in R[n]
      <4>1. n \in 1 .. MaxItems /\ n - 1 \in j .. MaxItems /\ m # NULL
        BY <1>0, <2>2, <2>3, <3>1
      <4>2. j \in R[n - 1]
        BY <3>3, <3>4, <4>1
      <4> QED BY <3>1, <3>4, <4>1, <4>2 DEF Reach
    <3> QED BY <2>3, <3>4
  <2> QED BY <2>4, <2>5
<1>2. Reached(k)
  BY <1>1
<1>3. PICK r \in roots \ {NULL} : \A R : Reach(R, h, r) => \A n \in k .. MaxItems : k \in R[n]
  BY <1>2
<1>4. PICK R : Reach(R, h, r) /\ R[MaxItems] \subseteq Behind(h, r)
  BY <1>0, BehindIs
<1>5. MaxItems \in k .. MaxItems
  BY <1>0 DEF Items
<1> QED BY <1>3, <1>4, <1>5

(* An outcome is a record.                                                 *)
LEMMA OutcomeRecords ==
  ASSUME NEW h, NEW type, NEW value
  PROVE  /\ \A r \in New(h, type) : r = [json |-> r.json, item |-> r.item]
         /\ \A r \in CreateNumber(h, value) : r = [json |-> r.json, item |-> r.item]
         /\ \A r \in CreateString(h, value) : r = [json |-> r.json, item |-> r.item]
<1>1. \A t : \A r \in New(h, t) : r = [json |-> r.json, item |-> r.item]
  BY DEF New
<1>2. ASSUME NEW r \in CreateNumber(h, value) PROVE r = [json |-> r.json, item |-> r.item]
  <2>1. PICK s \in New(h, "number") :
          r = IF s.item = NULL THEN s ELSE [s EXCEPT !.json.value[s.item] = value]
    BY DEF CreateNumber
  <2>2. s = [json |-> s.json, item |-> s.item]
    BY <1>1
  <2>3. r = IF s.item = NULL THEN s
            ELSE [json |-> [s.json EXCEPT !.value[s.item] = value], item |-> s.item]
    BY <2>1, <2>2
  <2> QED BY <2>2, <2>3
<1>3. ASSUME NEW r \in CreateString(h, value) PROVE r = [json |-> r.json, item |-> r.item]
  <2>1. PICK s \in New(h, "string") :
          r \in IF s.item = NULL THEN {s}
                ELSE {[s EXCEPT !.json.value[s.item] = value,
                                !.json.blocks = @ \cup {<<s.item, "text">>}],
                      [json |-> Delete(s.json, s.item), item |-> NULL]}
    BY DEF CreateString
  <2>2. s = [json |-> s.json, item |-> s.item]
    BY <1>1
  <2>3. \/ r = s \/ r = [json |-> Delete(s.json, s.item), item |-> NULL]
        \/ r = [json |-> [s.json EXCEPT !.value[s.item] = value,
                                        !.blocks = @ \cup {<<s.item, "text">>}], item |-> s.item]
    BY <2>1, <2>2
  <2> QED BY <2>2, <2>3
<1> QED BY <1>1, <1>2, <1>3

-----------------------------------------------------------------------------
(* The items of a list, in order.  The j-th one is not among the first     *)
(* j - 1 items of the heap, so that a list has no more than MaxItems.      *)
ListOf(h, c, s) ==
  /\ s \in Seq(Items)
  /\ \A j \in 1 .. Len(s) : Live(h, s[j]) /\ s[j] >= j /\ h.prev[s[j]] # NULL
  /\ \A j \in 1 .. Len(s) : h.next[s[j]] = IF j = Len(s) THEN NULL ELSE s[j + 1]
  /\ h.child[c] = IF s = <<>> THEN NULL ELSE s[1]
  /\ s # <<>> => h.prev[s[1]] = s[Len(s)]

LEMMA KeptList ==
  ASSUME NEW h, NEW g, Keeps(h, g), NEW c \in Items, Live(h, c), NEW s, ListOf(h, c, s)
  PROVE  /\ ListOf(g, c, s)
         /\ \A j \in 1 .. Len(s) : /\ g.key[s[j]] = h.key[s[j]] /\ g.value[s[j]] = h.value[s[j]]
                                   /\ g.type[s[j]] = h.type[s[j]]
<1>1. \A j \in 1 .. Len(s) : s[j] \in Items /\ Live(h, s[j])
  BY DEF ListOf
<1>2. s # <<>> => s[1] \in Items /\ Live(h, s[1])
  BY <1>1 DEF ListOf
<1>3. g.child[c] = h.child[c] /\ (s # <<>> => g.prev[s[1]] = h.prev[s[1]])
  BY <1>2 DEF Keeps
<1>4. \A j \in 1 .. Len(s) : /\ Live(g, s[j]) /\ g.prev[s[j]] = h.prev[s[j]]
                             /\ g.next[s[j]] = h.next[s[j]] /\ g.key[s[j]] = h.key[s[j]]
                             /\ g.value[s[j]] = h.value[s[j]] /\ g.type[s[j]] = h.type[s[j]]
  BY <1>1 DEF Keeps
<1> QED BY <1>3, <1>4 DEF ListOf

(* An item comes to the end of a list ...                                  *)
LEMMA HungList ==
  ASSUME NEW h, Sound(h), NEW c \in Items, Live(h, c), NEW x, Unlinked(h, x), x # c,
         NEW s, ListOf(h, c, s), \A j \in 1 .. Len(s) : s[j] < x
  PROVE  ListOf(AddToArray(h, c, x), c, Append(s, x))
<1> DEFINE g == AddToArray(h, c, x)
           t == Append(s, x)
           n == Len(s)
<1>1. /\ g.blocks = h.blocks
      /\ \/ ListBegun(h, g, c, x)
         \/ \E first, last : ListGrown(h, g, c, first, last, x)
  BY AddToArrayIs
<1>2. /\ x \in Items /\ Live(h, x) /\ h.prev[x] = NULL /\ h.next[x] = NULL /\ NULL \notin Items
      /\ s \in Seq(Items) /\ n \in Nat
      /\ \A j \in 1 .. n : s[j] \in Items /\ s[j] # x
      /\ Items \subseteq Nat \ {0}
  BY ItemFacts, ItemsAssumption DEF Unlinked, ListOf, Items
<1>3. /\ t \in Seq(Items) /\ Len(t) = n + 1 /\ t[n + 1] = x /\ \A j \in 1 .. n : t[j] = s[j]
      /\ t # <<>>
  BY <1>2
<1> HIDE DEF g, t
<1>4. \A j \in Items : Live(g, j) <=> Live(h, j)
  BY <1>1 DEF Live
<1>5. x >= n + 1
  <2>1. CASE n = 0
    BY <1>2, <2>1
  <2>2. CASE n # 0
    <3>1. n \in 1 .. n
      BY <1>2, <2>2
    <3>2. s[n] >= n /\ s[n] < x /\ s[n] \in Items
      BY <1>2, <3>1 DEF ListOf
    <3>3. s[n] \in Nat /\ x \in Nat /\ n \in Nat
      BY <1>2, <3>2 DEF Items
    <3> DEFINE y == s[n]
    <3>4. y \in Nat /\ y >= n /\ y < x
      BY <3>2, <3>3
    <3> HIDE DEF y, n
    <3> QED BY <3>3, <3>4
  <2> QED BY <2>1, <2>2
<1>6. CASE ListBegun(h, g, c, x)
  <2>1. s = <<>> /\ n = 0
    BY <1>2, <1>6 DEF ListBegun, ListOf
  <2>2. g.child[c] = x /\ g.prev[x] = x /\ g.next[x] = NULL
    BY <1>2, <1>6 DEF ListBegun
  <2>3. Len(t) = 1 /\ t[1] = x
    BY <1>3, <2>1
  <2> HIDE DEF n
  <2> QED BY <1>2, <1>3, <1>4, <1>5, <2>1, <2>2, <2>3 DEF ListOf, g, t
<1>7. ASSUME NEW first, NEW last, ListGrown(h, g, c, first, last, x) PROVE ListOf(g, c, t)
  <2>1. s # <<>> /\ n \in 1 .. n /\ first = s[1] /\ last = s[n] /\ 1 \in 1 .. n
    <3>1. h.child[c] = first /\ first # NULL
      BY <1>2, <1>7 DEF ListGrown
    <3>2. s # <<>> /\ first = s[1]
      BY <3>1 DEF ListOf
    <3>3. last = s[n]
      BY <1>7, <3>2 DEF ListOf, ListGrown
    <3> QED BY <1>2, <3>2, <3>3
  <2>2. \A j \in 1 .. n : h.next[s[j]] = IF j = n THEN NULL ELSE s[j + 1]
    BY DEF ListOf
  <2>3. \A j \in 1 .. n : j # n => s[j] # last /\ s[j + 1] \in Items
    <3>1. \A j \in 1 .. n : j # n => j + 1 \in 1 .. n
      BY <1>2
    <3>2. \A j \in 1 .. n : j # n => h.next[s[j]] # NULL
      BY <1>2, <2>2, <3>1
    <3> QED BY <1>2, <1>7, <3>1, <3>2 DEF ListGrown
  <2>4. /\ \A j \in Items : g.prev[j] = IF j = first THEN x ELSE IF j = x THEN last ELSE h.prev[j]
        /\ \A j \in Items : g.next[j] = IF j = last THEN x ELSE h.next[j]
        /\ g.child[c] = first /\ first # x /\ last # x /\ last \in Items
    BY <1>7 DEF ListGrown
  <2>5. g.next[x] = NULL /\ g.prev[x] # NULL /\ g.prev[s[1]] = x
    <3>1. first \in Items /\ last # NULL
      BY <1>2, <2>1, <2>4
    <3>2. g.prev[first] = x /\ g.prev[x] = last /\ g.next[x] = h.next[x]
      BY <1>2, <2>4, <3>1
    <3> QED BY <1>2, <2>1, <3>1, <3>2
  <2>6. \A j \in 1 .. n : g.next[s[j]] = IF j = n THEN x ELSE s[j + 1]
    BY <1>2, <2>1, <2>2, <2>3, <2>4
  <2>7. \A j \in 1 .. n : g.prev[s[j]] # NULL
    BY <1>2, <2>4 DEF ListOf
  <2>8. \A j \in 1 .. n + 1 : g.next[t[j]] = IF j = n + 1 THEN NULL ELSE t[j + 1]
    <3> SUFFICES ASSUME NEW j \in 1 .. n + 1
                 PROVE  g.next[t[j]] = IF j = n + 1 THEN NULL ELSE t[j + 1]
      OBVIOUS
    <3>1. CASE j = n + 1
      BY <1>3, <2>5, <3>1
    <3>2. CASE j = n
      BY <1>2, <1>3, <2>6, <3>2
    <3>3. CASE j < n
      <4>1. j \in 1 .. n /\ j + 1 \in 1 .. n /\ j # n + 1 /\ j # n
        BY <1>2, <3>3
      <4> QED BY <1>3, <2>6, <4>1
    <3> QED BY <1>2, <3>1, <3>2, <3>3
  <2>9. \A j \in 1 .. n + 1 : Live(g, t[j]) /\ t[j] >= j /\ g.prev[t[j]] # NULL
    <3> SUFFICES ASSUME NEW j \in 1 .. n + 1 PROVE Live(g, t[j]) /\ t[j] >= j /\ g.prev[t[j]] # NULL
      OBVIOUS
    <3>1. CASE j = n + 1
      BY <1>2, <1>3, <1>4, <1>5, <2>5, <3>1
    <3>2. CASE j \in 1 .. n
      BY <1>2, <1>3, <1>4, <2>7, <3>2 DEF ListOf
    <3> QED BY <1>2, <3>1, <3>2
  <2>10. g.child[c] = t[1] /\ g.prev[t[1]] = t[Len(t)]
    BY <1>3, <2>1, <2>4, <2>5
  <2> HIDE DEF n
  <2> QED BY <1>3, <2>8, <2>9, <2>10 DEF ListOf
<1> QED BY <1>1, <1>6, <1>7 DEF g, t

(* ... and another list, with other items, stays as it is.                 *)
LEMMA HungOther ==
  ASSUME NEW h, Sound(h), NEW c \in Items, Live(h, c), NEW x, Unlinked(h, x), x # c,
         NEW s, ListOf(h, c, s), NEW d \in Items, d # c, NEW t, ListOf(h, d, t),
         \A j \in 1 .. Len(s) : \A k \in 1 .. Len(t) : s[j] # t[k]
  PROVE  ListOf(AddToArray(h, c, x), d, t) /\ \A k \in 1 .. Len(t) : x # t[k]
<1> DEFINE g == AddToArray(h, c, x)
<1>1. /\ g.blocks = h.blocks
      /\ \/ ListBegun(h, g, c, x)
         \/ \E first, last : ListGrown(h, g, c, first, last, x)
  BY AddToArrayIs
<1>2. /\ h.prev[x] = NULL /\ NULL \notin Items
      /\ t \in Seq(Items) /\ Len(t) \in Nat /\ \A k \in 1 .. Len(t) : t[k] \in Items /\ t[k] # x
      /\ t # <<>> => 1 \in 1 .. Len(t)
  BY ItemFacts DEF Unlinked, ListOf
<1> HIDE DEF g
<1>3. /\ \A k \in 1 .. Len(t) : g.prev[t[k]] = h.prev[t[k]] /\ g.next[t[k]] = h.next[t[k]]
      /\ g.child[d] = h.child[d]
  <2>1. CASE ListBegun(h, g, c, x)
    BY <1>2, <2>1 DEF ListBegun
  <2>2. ASSUME NEW first, NEW last, ListGrown(h, g, c, first, last, x)
        PROVE  /\ \A k \in 1 .. Len(t) : g.prev[t[k]] = h.prev[t[k]] /\ g.next[t[k]] = h.next[t[k]]
               /\ g.child[d] = h.child[d]
    <3>1. s # <<>> /\ first = s[1]
      BY <1>2, <2>2 DEF ListGrown, ListOf
    <3>2. 1 \in 1 .. Len(s) /\ Len(s) \in 1 .. Len(s) /\ last = s[Len(s)]
      BY <2>2, <3>1 DEF ListGrown, ListOf
    <3>3. \A k \in 1 .. Len(t) : t[k] # first /\ t[k] # last
      BY <3>1, <3>2
    <3> QED BY <1>2, <2>2, <3>3 DEF ListGrown
  <2> QED BY <1>1, <2>1, <2>2
<1>4. \A k \in 1 .. Len(t) : Live(g, t[k]) <=> Live(h, t[k])
  BY <1>1 DEF Live
<1>5. ListOf(g, d, t)
  BY <1>2, <1>3, <1>4 DEF ListOf
<1> QED BY <1>2, <1>5 DEF g

(* Reading a list gives its items.                                         *)
LEMMA ListIs ==
  ASSUME NEW h \in Heaps, NEW c \in Items, NEW s, ListOf(h, c, s)
  PROVE  ListFrom(h, h.child[c]) = s
<1> DEFINE first == h.child[c]
           V == Seq(Items)
           Longer(t) == IF NextLink(h, first, t) = NULL THEN t ELSE Append(t, NextLink(h, first, t))
           step == [p \in (1 .. MaxItems) \X V |-> Longer(p[2])]
           L == CHOOSE L : L = [n \in 0 .. MaxItems |->
                  IF n = 0 THEN <<>>
                  ELSE IF NextLink(h, first, L[n - 1]) = NULL THEN L[n - 1]
                  ELSE Append(L[n - 1], NextLink(h, first, L[n - 1]))]
<1> HIDE DEF L
<1>1. /\ MaxItems \in Nat /\ NULL \notin Items /\ <<>> \in V
      /\ h.next \in [Items -> Links] /\ first \in Links
      /\ \A j \in Links : j # NULL => j \in Items
  <2>1. MaxItems \in Nat /\ NULL \notin Items /\ \A j \in Links : j # NULL => j \in Items
    BY ItemFacts, ItemsAssumption
  <2>2. h.next \in [Items -> Links] /\ h.child \in [Items -> Links]
    BY HeapFields
  <2> QED BY <2>1, <2>2
<1>2. \A t \in V : Longer(t) \in V
  <2> SUFFICES ASSUME NEW t \in V, NextLink(h, first, t) # NULL PROVE NextLink(h, first, t) \in Items
    OBVIOUS
  <2>1. CASE t = <<>>
    BY <1>1, <2>1 DEF NextLink
  <2>2. CASE t # <<>>
    <3>1. t[Len(t)] \in Items
      BY <2>2
    <3>2. h.next[t[Len(t)]] \in Links
      BY <1>1, <3>1
    <3> HIDE DEF first
    <3> QED BY <1>1, <2>2, <3>2 DEF NextLink
  <2> QED BY <2>1, <2>2
<1> HIDE DEF first
<1>3. step \in [(1 .. MaxItems) \X V -> V]
  <2> HIDE DEF V, Longer
  <2> QED BY <1>2
<1>4. PICK f \in [0 .. MaxItems -> V] : Runs(f, MaxItems, <<>>, step)
  <2> HIDE DEF step, V
  <2> QED BY <1>1, <1>3, RunExists
<1>5. f[0] = <<>> /\ \A n \in 1 .. MaxItems : f[n] = Longer(f[n - 1])
  <2>1. ASSUME NEW n \in 1 .. MaxItems PROVE f[n] = Longer(f[n - 1])
    <3>1. n - 1 \in 0 .. MaxItems
      BY <1>1
    <3>2. f[n - 1] \in V
      BY <3>1
    <3>3. f[n] = step[<<n, f[n - 1]>>]
      <4> HIDE DEF step
      <4> QED BY <1>4 DEF Runs
    <3> HIDE DEF Longer, V
    <3> QED BY <3>2, <3>3
  <2> QED BY <1>4, <2>1 DEF Runs
<1>6. \A n \in 0 .. MaxItems : f[n] = IF n = 0 THEN <<>> ELSE Longer(f[n - 1])
  <2>1. \A n \in 0 .. MaxItems : n # 0 => n \in 1 .. MaxItems
    BY <1>1
  <2> HIDE DEF Longer
  <2> QED BY <1>5, <2>1
<1>7. f = [n \in 0 .. MaxItems |->
             IF n = 0 THEN <<>>
             ELSE IF NextLink(h, first, f[n - 1]) = NULL THEN f[n - 1]
             ELSE Append(f[n - 1], NextLink(h, first, f[n - 1]))]
  BY <1>6
<1>8. L = [n \in 0 .. MaxItems |->
             IF n = 0 THEN <<>>
             ELSE IF NextLink(h, first, L[n - 1]) = NULL THEN L[n - 1]
             ELSE Append(L[n - 1], NextLink(h, first, L[n - 1]))]
  BY <1>7 DEF L
<1>9. ListFrom(h, first) = L[MaxItems]
  BY DEF ListFrom, L
<1>10. L[0] = <<>> /\ \A n \in 1 .. MaxItems : L[n] = Longer(L[n - 1])
  <2>1. \A n \in 0 .. MaxItems : L[n] = IF n = 0 THEN <<>> ELSE Longer(L[n - 1])
    BY <1>8
  <2>2. 0 \in 0 .. MaxItems /\ \A n \in 1 .. MaxItems : n \in 0 .. MaxItems /\ n # 0
    BY <1>1
  <2> HIDE DEF Longer
  <2> QED BY <2>1, <2>2
<1> DEFINE l == Len(s)
           upto(n) == IF n <= l THEN n ELSE l
           P(n) == /\ L[n] \in V /\ Len(L[n]) = upto(n)
                   /\ \A j \in 1 .. upto(n) : L[n][j] = s[j]
<1>11. /\ s \in V /\ l \in Nat
       /\ first = IF s = <<>> THEN NULL ELSE s[1]
       /\ \A j \in 1 .. l : s[j] \in Items /\ h.next[s[j]] = IF j = l THEN NULL ELSE s[j + 1]
       /\ l <= MaxItems
  <2>1. s \in V /\ l \in Nat /\ first = (IF s = <<>> THEN NULL ELSE s[1])
        /\ \A j \in 1 .. l : s[j] \in Items /\ h.next[s[j]] = IF j = l THEN NULL ELSE s[j + 1]
    BY DEF ListOf, first
  <2>2. CASE l = 0
    <3>1. 0 <= MaxItems
      BY <1>1
    <3> QED BY <2>1, <2>2, <3>1
  <2>3. CASE l # 0
    <3>1. l \in 1 .. l /\ s[l] \in Items /\ s[l] >= l
      <4>1. l \in 1 .. l
        BY <2>1, <2>3
      <4> QED BY <2>1, <4>1 DEF ListOf
    <3> DEFINE x == s[l]
    <3>2. x \in Nat /\ x <= MaxItems /\ x >= l
      BY <3>1, <1>1 DEF Items
    <3> HIDE DEF x, l
    <3> QED BY <1>1, <2>1, <3>2
  <2> QED BY <2>1, <2>2, <2>3
<1> HIDE DEF l
<1>12. \A n \in 0 .. MaxItems : P(n)
  <2> DEFINE T == {n \in 0 .. MaxItems : ~P(n)}
  <2>1. ASSUME T # {} PROVE FALSE
    <3>1. T \in SUBSET Nat
      OBVIOUS
    <3>2. PICK m \in T : \A y \in T : m <= y
      <4> HIDE DEF T
      <4> QED BY <2>1, <3>1, Least
    <3>3. m \in 0 .. MaxItems /\ ~P(m)
      BY <3>2
    <3>4. CASE m = 0
      <4>1. upto(0) = 0 /\ L[0] = <<>>
        BY <1>10, <1>11
      <4>2. L[0] \in V /\ Len(L[0]) = 0 /\ \A j \in 1 .. 0 : L[0][j] = s[j]
        BY <1>1, <4>1
      <4>3. P(0)
        BY <4>1, <4>2
      <4> QED BY <3>3, <3>4, <4>3
    <3>5. CASE m # 0
      <4>1. m \in 1 .. MaxItems /\ m - 1 \in 0 .. MaxItems
        BY <1>1, <3>3, <3>5
      <4>2. P(m - 1)
        <5>1. m - 1 \notin T
          <6> HIDE DEF T
          <6> QED BY <1>1, <3>2, <3>1, <4>1
        <5> HIDE DEF P
        <5> QED BY <4>1, <5>1
      <4> DEFINE t == L[m - 1]
      <4>3. t \in V /\ Len(t) = upto(m - 1) /\ \A j \in 1 .. upto(m - 1) : t[j] = s[j]
        BY <4>2
      <4>4. L[m] = Longer(t)
        BY <1>10, <4>1
      <4> HIDE DEF t, P
      <4>5. CASE m <= l
        <5>1. upto(m - 1) = m - 1 /\ upto(m) = m
          BY <1>11, <4>1, <4>5
        <5>2. NextLink(h, first, t) = s[m] /\ s[m] \in Items
          <6>0. s[m] \in Items /\ s # <<>>
            <7>1. m \in 1 .. l /\ l # 0
              BY <1>11, <4>1, <4>5
            <7> QED BY <1>11, <7>1 DEF l
          <6>1. CASE m = 1
            <7>1. t = <<>>
              BY <4>3, <5>1, <6>1
            <7> QED BY <1>11, <6>0, <6>1, <7>1 DEF NextLink
          <6>2. CASE m # 1
            <7>1. m - 1 \in 1 .. l /\ m - 1 # l /\ m - 1 \in 1 .. m - 1 /\ (m - 1) + 1 = m
              BY <1>11, <4>1, <4>5, <6>2
            <7>2. t # <<>> /\ t[Len(t)] = s[m - 1]
              BY <4>3, <5>1, <7>1
            <7>3. h.next[s[m - 1]] = s[m]
              BY <1>11, <7>1
            <7> QED BY <6>0, <7>2, <7>3 DEF NextLink
          <6> QED BY <6>1, <6>2
        <5>3. L[m] = Append(t, s[m])
          BY <1>1, <4>4, <5>2
        <5>4. /\ L[m] \in V /\ Len(L[m]) = (m - 1) + 1
              /\ \A j \in 1 .. m - 1 : L[m][j] = t[j]
              /\ L[m][(m - 1) + 1] = s[m]
          BY <4>3, <5>1, <5>2, <5>3
        <5>5. \A j \in 1 .. m : L[m][j] = s[j]
          <6>1. (m - 1) + 1 = m /\ \A j \in 1 .. m : j = m \/ j \in 1 .. m - 1
            BY <4>1
          <6> QED BY <4>3, <5>1, <5>4, <6>1
        <5>6. Len(L[m]) = m
          BY <4>1, <5>4
        <5> QED BY <3>3, <5>1, <5>4, <5>5, <5>6 DEF P
      <4>6. CASE ~(m <= l)
        <5>1. upto(m - 1) = l /\ upto(m) = l
          BY <1>11, <4>1, <4>6
        <5>2. NextLink(h, first, t) = NULL
          <6>1. CASE l = 0
            <7>1. t = <<>> /\ s = <<>>
              BY <4>3, <5>1, <6>1, <1>11 DEF l
            <7> QED BY <1>11, <7>1 DEF NextLink
          <6>2. CASE l # 0
            <7>1. l \in 1 .. l
              BY <1>11, <6>2
            <7>2. t # <<>> /\ t[Len(t)] = s[l]
              BY <4>3, <5>1, <6>2, <7>1
            <7> QED BY <1>11, <7>1, <7>2 DEF NextLink
          <6> QED BY <6>1, <6>2
        <5>3. L[m] = t
          BY <4>4, <5>2
        <5> QED BY <3>3, <4>3, <5>1, <5>3 DEF P
      <4> QED BY <4>5, <4>6
    <3> QED BY <3>4, <3>5
  <2> HIDE DEF P
  <2> QED BY <2>1
<1>13. L[MaxItems] = s
  <2> DEFINE r == L[MaxItems]
  <2>1. MaxItems \in 0 .. MaxItems /\ upto(MaxItems) = l
    BY <1>1, <1>11
  <2>2. r \in V /\ Len(r) = l /\ \A j \in 1 .. l : r[j] = s[j]
    BY <1>12, <2>1
  <2> HIDE DEF r
  <2>3. r = s
    BY <1>11, <2>2 DEF l
  <2> QED BY <2>3 DEF r
<1> QED BY <1>9, <1>13 DEF first
=============================================================================
