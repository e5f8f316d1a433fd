----------------------------- MODULE MCJsonPrint -----------------------------
(* Trees for JsonPrint, small enough for TLC.                              *)
EXTENDS JsonPrint

Str(p, e, c) == [plain |-> p, escaped |-> e, control |-> c]
NoKey == Str(0, 0, 0)
Tree(type, child, next, key, value) ==
  [items |-> Len(type), type |-> type, child |-> child, next |-> next, key |-> key, value |-> value]

(* An event of main_loop: strings, numbers, and an array of k addresses.   *)
Event(k) ==
  LET leaf(j) == j \in {2, 3, 4} \/ j > 5
      last    == 5 + k
  IN Tree([j \in 1 .. last |-> CASE j = 1 -> "object" [] j = 4 -> "number" [] j = 5 -> "array"
                               [] OTHER -> "string"],
          [j \in 1 .. last |-> CASE j = 1 -> 2 [] j = 5 -> (IF k = 0 THEN 0 ELSE 6) [] OTHER -> 0],
          [j \in 1 .. last |-> IF j \in {1, 5, last} THEN 0 ELSE j + 1],
          [j \in 1 .. last |-> IF j \in 2 .. 5 THEN Str(j, 0, 0) ELSE NoKey],
          [j \in 1 .. last |-> CASE j = 2 -> Str(0, 0, 0) [] j = 3 -> Str(1, 2, 1) [] j = 4 -> 3
                               [] j > 5 -> Str(j, 0, 0) [] OTHER -> 0])

(* Empty and nested containers, the other leaves, and a value or the root  *)
(* missing.                                                                *)
Nested ==
  Tree(<<"object", "object", "array", "array", "literal", "object">>, <<2, 0, 4, 0, 0, 0>>,
       <<0, 3, 0, 5, 6, 0>>, <<NoKey, Str(1, 0, 0), Str(0, 0, 2), NoKey, NoKey, NoKey>>,
       <<0, 0, 0, 0, 4, 0>>)
Text     == Tree(<<"string">>, <<0>>, <<0>>, <<NoKey>>, <<Str(0, 0, 3)>>)
Untyped  == Tree(<<"array", "invalid">>, <<2, 0>>, <<0, 0>>, <<NoKey, NoKey>>, <<0, 0>>)
Nothing  == Tree(<<>>, <<>>, <<>>, <<>>, <<>>)

(* Two strings of all lengths, in an object.                               *)
Few == {Str(p, e, c) : p \in 0 .. 3, e \in 0 .. 2, c \in 0 .. 1}
Pairs == {Tree(<<"object", "string", "string">>, <<2, 0, 0>>, <<0, 3, 0>>,
               <<NoKey, Str(1, 0, 0), a>>, <<0, a, b>>) : a, b \in Few}

AllTrees == {Event(k) : k \in 0 .. 3} \cup {Nested, Text, Untyped, Nothing} \cup Pairs
=============================================================================
