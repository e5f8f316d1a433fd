------------------------------- MODULE CJson -------------------------------
(***************************************************************************)
(* The item trees of cJSON, as far as main_loop builds them: items on the  *)
(* heap, with their keys and texts, in lists linked by next and prev.  The *)
(* first item of a list keeps the last one in its prev.                    *)
(*                                                                         *)
(* A call is an operator from a heap to the set of its outcomes: every     *)
(* allocation in it may fail.                                              *)
(*                                                                         *)
(* A definition X_Y just before a definition X is X with a plausible       *)
(* mistake, Y.  No action uses one: the properties are tried against them. *)
(***************************************************************************)
EXTENDS Integers, Sequences

CONSTANTS
  MaxItems,   \* how many items the heap can hold
  Keys,       \* the keys of objects
  Values      \* the texts and numbers of items

ASSUME ItemsAssumption == MaxItems \in Nat

NULL    == 0
Items   == 1 .. MaxItems
Links   == 0 .. MaxItems
Parts   == {"node", "key", "text"}
Types   == {"invalid", "object", "array", "string", "number"}
NoKey   == "no key"
NoValue == "no value"

(* The heap: the allocated blocks, and what the items hold.                *)
Heaps == [blocks : SUBSET (Items \X Parts),
          type  : [Items -> Types],
          child : [Items -> Links],
          next  : [Items -> Links],
          prev  : [Items -> Links],
          key   : [Items -> Keys \cup {NoKey}],
          value : [Items -> Values \cup {NoValue}]]

EmptyHeap == [blocks |-> {},
              type  |-> [k \in Items |-> "invalid"],
              child |-> [k \in Items |-> NULL],
              next  |-> [k \in Items |-> NULL],
              prev  |-> [k \in Items |-> NULL],
              key   |-> [k \in Items |-> NoKey],
              value |-> [k \in Items |-> NoValue]]

Live(h, k)   == <<k, "node">> \in h.blocks
IsFree(h, k) == \A part \in Parts : <<k, part>> \notin h.blocks

(* Where malloc puts an item makes no difference: the lowest place.        *)
Fresh(h) == {k \in Items : IsFree(h, k) /\ \A j \in 1 .. k - 1 : ~IsFree(h, j)}

(* cJSON_New_Item, and the type its callers set: the item is zeroed.       *)
Zeroed(h, k, type) ==
  [blocks |-> h.blocks \cup {<<k, "node">>},
   type   |-> [h.type EXCEPT ![k] = type],
   child  |-> [h.child EXCEPT ![k] = NULL],
   next   |-> [h.next EXCEPT ![k] = NULL],
   prev   |-> [h.prev EXCEPT ![k] = NULL],
   key    |-> [h.key EXCEPT ![k] = NoKey],
   value  |-> [h.value EXCEPT ![k] = NoValue]]

New(h, type) ==
  {[json |-> h, item |-> NULL]}
    \cup {[json |-> Zeroed(h, k, type), item |-> k] : k \in Fresh(h)}

(* cJSON_Delete: an item and what is behind it and below it.               *)
Behind(h, k) ==
  LET R[n \in 0 .. MaxItems] ==
        IF n = 0 THEN {k}
        ELSE LET S == R[n - 1]
             IN  (S \cup {h.next[j] : j \in S} \cup {h.child[j] : j \in S}) \ {NULL}
  IN  IF h.next[k] = NULL /\ h.child[k] = NULL THEN {k} ELSE R[MaxItems]

Delete(h, k) ==
  IF k = NULL THEN h
  ELSE [h EXCEPT !.blocks = @ \ (Behind(h, k) \X Parts)]

(* cJSON_CreateNumber, and cJSON_CreateString with its copy of the text.   *)
CreateNumber(h, value) ==
  {IF r.item = NULL THEN r ELSE [r EXCEPT !.json.value[r.item] = value]
     : r \in New(h, "number")}

CreateString_KeepsItem(h, value) ==
  UNION {IF r.item = NULL THEN {r}
         ELSE {[r EXCEPT !.json.value[r.item] = value,
                         !.json.blocks = @ \cup {<<r.item, "text">>}],
               [json |-> r.json, item |-> NULL]}
           : r \in New(h, "string")}

CreateString(h, value) ==
  UNION {IF r.item = NULL THEN {r}
         ELSE {[r EXCEPT !.json.value[r.item] = value,
                         !.json.blocks = @ \cup {<<r.item, "text">>}],
               [json |-> Delete(r.json, r.item), item |-> NULL]}
           : r \in New(h, "string")}

(* add_item_to_array: the first item finds the last one, with its prev.    *)
AddToArray_LastNotKept(h, array, item) ==
  IF item = NULL \/ array = NULL \/ array = item THEN h
  ELSE LET first == h.child[array]
           last  == h.prev[first]
       IN  IF first = NULL
           THEN [h EXCEPT !.child[array] = item, !.prev[item] = item, !.next[item] = NULL]
           ELSE IF last = NULL THEN h
           ELSE [h EXCEPT !.next[last] = item, !.prev[item] = last]

AddToArray(h, array, item) ==
  IF item = NULL \/ array = NULL \/ array = item THEN h
  ELSE LET first == h.child[array]
           last  == h.prev[first]
       IN  IF first = NULL
           THEN [h EXCEPT !.child[array] = item, !.prev[item] = item, !.next[item] = NULL]
           ELSE IF last = NULL THEN h
           ELSE [h EXCEPT !.next[last] = item, !.prev = [@ EXCEPT ![item] = last, ![first] = item]]

(* add_item_to_object: the item gets a copy of the key.                    *)
AddToObject(h, object, key, item) ==
  {[json |-> h, added |-> FALSE]}
    \cup (IF object = NULL \/ item = NULL \/ object = item THEN {}
          ELSE {[json  |-> AddToArray([h EXCEPT !.key[item] = key,
                                                !.blocks = @ \cup {<<item, "key">>}],
                                      object, item),
                 added |-> TRUE]})

(* cJSON_AddStringToObject and cJSON_AddNumberToObject: what could not be  *)
(* added is deleted.                                                       *)
AddNew(object, key, created) ==
  UNION {{IF a.added THEN a ELSE [a EXCEPT !.json = Delete(@, r.item)]
            : a \in AddToObject(r.json, object, key, r.item)}
           : r \in created}

-----------------------------------------------------------------------------
(* The items of a list, from its first one on to the one without a next.   *)
NextLink(h, first, s) == IF s = <<>> THEN first ELSE h.next[s[Len(s)]]
ListFrom(h, first) ==
  LET L[n \in 0 .. MaxItems] ==
        IF n = 0 THEN <<>>
        ELSE IF NextLink(h, first, L[n - 1]) = NULL THEN L[n - 1]
        ELSE Append(L[n - 1], NextLink(h, first, L[n - 1]))
  IN  L[MaxItems]

(* A list is a ring through prev and a line through next: next and prev    *)
(* undo each other, except that the first item's prev is the last item.    *)
NextIsUndone(h) ==
  \A k \in Items : Live(h, k) /\ h.next[k] # NULL =>
    Live(h, h.next[k]) /\ h.prev[h.next[k]] = k

FirstKeepsLast(h) ==
  \A a \in Items : Live(h, a) /\ h.child[a] # NULL =>
    /\ Live(h, h.child[a])
    /\ h.prev[h.child[a]] # NULL /\ h.next[h.prev[h.child[a]]] = NULL

PrevIsUndone(h) ==
  \A k \in Items : Live(h, k) /\ h.prev[k] # NULL =>
    /\ Live(h, h.prev[k]) /\ h.prev[h.prev[k]] # NULL
    /\ h.next[h.prev[k]] \in {k, NULL}
    /\ \A j \in Items : Live(h, j) /\ h.prev[j] = h.prev[k] => j = k

Linked(h) == NextIsUndone(h) /\ FirstKeepsLast(h) /\ PrevIsUndone(h)
=============================================================================
