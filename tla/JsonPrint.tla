------------------------------ MODULE JsonPrint ------------------------------
(***************************************************************************)
(* cJSON_Print, as main_loop uses it for its events: the walk over the     *)
(* tree (print_value, print_object, print_array), and the print buffer,    *)
(* which grows by realloc (ensure).                                        *)
(*                                                                         *)
(* A piece of text is a token, and its size what counts.  Several writers  *)
(* leave offset where it was and put a NUL after their token; their caller *)
(* then looks for that NUL (update_offset).  A write at offset hides what  *)
(* was in the buffer from there on.                                        *)
(*                                                                         *)
(* The recursion is the sequence stack: one frame per object or array that *)
(* is open, with the member its loop is at.                                *)
(*                                                                         *)
(* A definition X_Y just before a definition X is X with a plausible       *)
(* mistake, Y.  No action uses one: the properties are tried against them. *)
(***************************************************************************)
EXTENDS Integers, Sequences, SequencesExt

CONSTANTS
  Trees,      \* the trees that may be printed
  INT_MAX,    \* the largest size
  DEFAULT_BUFFER_SIZE

(* A tree: of each item its type, first child, next sibling, key and       *)
(* value.  Item 1 is the root, 0 is NULL; the others are numbered so that  *)
(* an item comes before its children and before the next one.  A key, and  *)
(* the value of a string, is how many of its characters go as they are,    *)
(* behind a backslash, and as \uXXXX; the value of another leaf its length. *)
Containers == {"object", "array"}
Leaves     == {"string", "number", "literal"}
Items(t)   == 1 .. t.items
Strings    == [plain : Nat, escaped : Nat, control : Nat]

IsTree(t) ==
  /\ t.items \in Nat
  /\ t.type  \in [Items(t) -> Containers \cup Leaves \cup {"invalid"}]
  /\ t.child \in [Items(t) -> 0 .. t.items]
  /\ t.next  \in [Items(t) -> 0 .. t.items]
  /\ \A k \in Items(t) : t.child[k] \notin 1 .. k /\ t.next[k] \notin 1 .. k
  /\ t.key   \in [Items(t) -> Strings]
  /\ \A k \in Items(t) : t.value[k] \in IF t.type[k] = "string" THEN Strings ELSE Nat

ASSUME SizesAssumption == INT_MAX \in Nat /\ DEFAULT_BUFFER_SIZE \in 1 .. INT_MAX
ASSUME TreesAssumption == \A t \in Trees : IsTree(t)

VARIABLES
  tree, format,           \* the arguments
  pc, item, stack, depth,
  buffer,                 \* the block: "none", "live", "freed", "twice" or "result"
  pointer,                \* p->buffer is not NULL
  length, offset,
  text,                   \* the tokens in the buffer: what, where, size
  end,                    \* where the NUL after the last token is
  wrote                   \* the end of the last write

NoNul == -1

printbuffer == <<buffer, pointer, length, offset, text, end, wrote>>
vars == <<tree, format, pc, item, stack, depth, printbuffer>>

PrintInit ==
  /\ tree \in Trees /\ format \in BOOLEAN
  /\ pc = "start" /\ item = 0 /\ stack = <<>> /\ depth = 0
  /\ buffer = "none" /\ pointer = FALSE /\ length = 0 /\ offset = 0
  /\ text = <<>> /\ end = NoNul /\ wrote = 0

-----------------------------------------------------------------------------
(* ensure: room for needed bytes at offset and one more.                   *)
Required(needed) == needed + offset + 1

NewSize(needed) ==
  IF Required(needed) > INT_MAX \div 2 THEN INT_MAX ELSE Required(needed) * 2

Fits(needed)    == Required(needed) <= length
Refused(needed) == ~pointer \/ offset >= length \/ Required(needed) > INT_MAX

Ensure(needed) ==
  /\ ~Refused(needed)
  /\ length' = IF Fits(needed) THEN length ELSE NewSize(needed)

(* deallocate: a block that has been freed before is freed twice.          *)
Deallocated == IF buffer = "live" THEN "freed" ELSE "twice"

(* A realloc that fails has the buffer freed, and print must know of it.   *)
EnsureFails_KeepsPointer(needed) ==
  /\ \/ Refused(needed) /\ UNCHANGED <<buffer, length>>
     \/ ~Refused(needed) /\ ~Fits(needed) /\ buffer' = Deallocated /\ length' = 0
  /\ pc' = "fail"
  /\ UNCHANGED <<tree, format, item, stack, depth, pointer, offset, text, end, wrote>>

EnsureFails(needed) ==
  /\ \/ Refused(needed) /\ UNCHANGED <<buffer, pointer, length>>
     \/ /\ ~Refused(needed) /\ ~Fits(needed)
        /\ buffer' = Deallocated /\ pointer' = FALSE /\ length' = 0
  /\ pc' = "fail"
  /\ UNCHANGED <<tree, format, item, stack, depth, offset, text, end, wrote>>

(* A token of that size, and one NUL after it or none; offset advances.    *)
(* Tokens end one after the other, so it hides the last ones or none.      *)
Before == Cardinality({j \in 1 .. Len(text) : text[j].at + text[j].size <= offset})

Put(what, needed, size, nul, advance) ==
  /\ Ensure(needed)
  /\ text' = Append(SubSeq(text, 1, Before), [what |-> what, at |-> offset, size |-> size])
  /\ end' = IF nul = 1 THEN offset + size ELSE NoNul
  /\ wrote' = offset + size + nul
  /\ offset' = offset + advance
  /\ UNCHANGED <<tree, format, buffer, pointer>>

(* The same, where nothing else is done but to go on.                      *)
Write(what, needed, size, nul, advance, to) ==
  \/ /\ Put(what, needed, size, nul, advance)
     /\ pc' = to /\ UNCHANGED <<item, stack, depth>>
  \/ EnsureFails(needed)

(* update_offset: on to the NUL.                                           *)
UpdateOffset(to) ==
  /\ offset' = end /\ pc' = to
  /\ UNCHANGED <<tree, format, item, stack, depth, buffer, pointer, length, text, end, wrote>>

Pretty(a, b) == IF format THEN a ELSE b
Top == Last(stack)

(* Of a string: the characters it has, and those it is written with.       *)
Length(s)  == s.plain + s.escaped + s.control
Escaped(s) == s.plain + 2 * s.escaped + 6 * s.control

(* A control character is counted as if a backslash were enough.           *)
OutputLength_Short(s) == Length(s) + s.escaped + s.control

OutputLength(s) == Length(s) + s.escaped + 5 * s.control

-----------------------------------------------------------------------------
(* print: the first buffer.                                                *)
Start ==
  /\ pc = "start" /\ pc' = "value"
  /\ buffer' = "live" /\ pointer' = TRUE /\ length' = DEFAULT_BUFFER_SIZE
  /\ item' = IF tree.items = 0 THEN 0 ELSE 1
  /\ UNCHANGED <<tree, format, stack, depth, offset, text, end, wrote>>

StartFails ==
  /\ pc = "start" /\ pc' = "fail"
  /\ UNCHANGED <<tree, format, item, stack, depth, printbuffer>>

(* print_value: NULL, and what has no type, cannot be printed; ...         *)
Type == IF item = 0 THEN "invalid" ELSE tree.type[item]

PrintNothing ==
  /\ pc = "value" /\ Type = "invalid"
  /\ pc' = "fail"
  /\ UNCHANGED <<tree, format, item, stack, depth, printbuffer>>

(* ... a literal is copied with its NUL, ...                               *)
PrintLiteral ==
  /\ pc = "value" /\ Type = "literal"
  /\ LET size == tree.value[item]
     IN  Write(<<"value", item>>, size + 1, size, 1, 0, "value_end")

(* ... a number moves offset itself, ...                                   *)
PrintNumber ==
  /\ pc = "value" /\ Type = "number"
  /\ LET size == tree.value[item]
     IN  Write(<<"value", item>>, size + 1, size, 1, size, "value_end")

(* ... and a string is counted, and then written in quotes.                *)
PrintString ==
  /\ pc = "value" /\ Type = "string"
  /\ LET s == tree.value[item]
     IN  Write(<<"value", item>>, OutputLength(s) + 3, Escaped(s) + 2, 1, 0, "value_end")

(* print_object and print_array: the bracket.                              *)
Open ==
  /\ pc = "value" /\ Type \in Containers
  /\ LET size   == IF Type = "object" THEN Pretty(2, 1) ELSE 1
         needed == IF Type = "object" THEN size + 1 ELSE 1
     IN  \/ /\ Put(<<"open", item>>, needed, size, 0, size)
            /\ stack' = Append(stack, [item |-> item, kid |-> tree.child[item]])
            /\ depth' = depth + 1
            /\ pc' = "member" /\ UNCHANGED item
         \/ EnsureFails(needed)

InObject == tree.type[Top.item] = "object"

(* The loop: to the next member, or out.                                   *)
Member ==
  /\ pc = "member"
  /\ pc' = IF Top.kid = 0 THEN "close"
           ELSE IF ~InObject THEN "value" ELSE Pretty("tabs", "key")
  /\ item' = Top.kid
  /\ UNCHANGED <<tree, format, stack, depth, printbuffer>>

Tabs ==
  /\ pc = "tabs"
  /\ Write(<<"tabs", depth>>, depth, depth, 0, depth, "key")

Key ==
  /\ pc = "key"
  /\ LET s == tree.key[item]
     IN  Write(<<"key", item>>, OutputLength(s) + 3, Escaped(s) + 2, 1, 0, "key_end")

KeyEnd == pc = "key_end" /\ UpdateOffset("colon")

Colon ==
  /\ pc = "colon"
  /\ Write(<<"colon", item>>, Pretty(2, 1), Pretty(2, 1), 0, Pretty(2, 1), "value")

(* The value has been printed: update_offset, in the loop or in print.     *)
ValueEnd_NotMeasured ==
  /\ pc = "value_end"
  /\ pc' = IF stack = <<>> THEN "shrink" ELSE "comma"
  /\ UNCHANGED <<tree, format, item, stack, depth, printbuffer>>

ValueEnd ==
  /\ pc = "value_end"
  /\ UpdateOffset(IF stack = <<>> THEN "shrink" ELSE "comma")

(* A member's line end, with a comma unless it is the last; its size is    *)
(* what is written.  An array has a comma between two elements only.       *)
Comma ==
  /\ pc = "comma"
  /\ LET next == tree.next[Top.kid]
         more == IF next = 0 THEN 0 ELSE 1
         size == IF InObject THEN Pretty(1, 0) + more ELSE Pretty(2, 1)
     IN  \/ /\ InObject \/ next # 0
            /\ Put(<<"comma", Top.kid>>, size + 1, size, 1, size)
            /\ stack' = [stack EXCEPT ![Len(stack)].kid = next]
            /\ pc' = "member" /\ UNCHANGED <<item, depth>>
         \/ (InObject \/ next # 0) /\ EnsureFails(size + 1)
         \/ /\ ~InObject /\ next = 0
            /\ stack' = [stack EXCEPT ![Len(stack)].kid = next]
            /\ pc' = "member"
            /\ UNCHANGED <<tree, format, item, depth, printbuffer>>

(* The closing bracket, indented by one tab less.                          *)
Close ==
  /\ pc = "close"
  /\ LET size   == IF InObject THEN Pretty(depth, 1) ELSE 1
         needed == IF InObject THEN Pretty(depth + 1, 2) ELSE 2
     IN  \/ /\ Put(<<"close", Top.item>>, needed, size, 1, 0)
            /\ stack' = Front(stack) /\ depth' = depth - 1
            /\ pc' = "value_end" /\ UNCHANGED item
         \/ EnsureFails(needed)

(* print: the result is as long as the text.                               *)
Shrink ==
  /\ pc = "shrink" /\ pc' = "done"
  /\ buffer' = "result" /\ pointer' = FALSE /\ length' = offset + 1
  /\ UNCHANGED <<tree, format, item, stack, depth, offset, text, end, wrote>>

ShrinkFails ==
  /\ pc = "shrink" /\ pc' = "fail"
  /\ UNCHANGED <<tree, format, item, stack, depth, printbuffer>>

(* The way out of print: what the pointer still leads to is freed.         *)
Fail ==
  /\ pc = "fail" /\ pc' = "failed"
  /\ buffer' = IF pointer THEN Deallocated ELSE buffer
  /\ pointer' = FALSE
  /\ UNCHANGED <<tree, format, item, stack, depth, length, offset, text, end, wrote>>

PrintNext ==
  \/ Start \/ StartFails \/ PrintNothing \/ PrintLiteral \/ PrintNumber \/ PrintString
  \/ Open \/ Member \/ Tabs \/ Key \/ KeyEnd \/ Colon \/ ValueEnd \/ Comma \/ Close
  \/ Shrink \/ ShrinkFails \/ Fail

PrintSpec == PrintInit /\ [][PrintNext]_vars

-----------------------------------------------------------------------------
(* The reference definition: the text of item k, where d brackets are      *)
(* open, is a value or what its members print between two brackets; kids   *)
(* is the text of its members.                                             *)
ItemText(t, k, d, kids) ==
  IF t.type[k] \in Containers
  THEN <<<<"open", k>>>> \o (kids[t.type[k] = "object"][d + 1] \o <<<<"close", k>>>>)
  ELSE <<<<"value", k>>>>

KeyText(pretty, k, d) ==
  (IF pretty THEN <<<<"tabs", d>>>> ELSE <<>>) \o <<<<"key", k>>, <<"colon", k>>>>

CommaText(t, k, inObject) ==
  IF inObject \/ t.next[k] # 0 THEN <<<<"comma", k>>>> ELSE <<>>

(* The text of the members from k on, in an object or an array, at a       *)
(* depth; rest is that of those behind k.                                  *)
MembersFrom(t, pretty, k, kids, rest) ==
  [inObject \in BOOLEAN |-> [d \in Nat |->
     (IF inObject THEN KeyText(pretty, k, d) ELSE <<>>)
     \o (ItemText(t, k, d, kids) \o (CommaText(t, k, inObject) \o rest[inObject][d]))]]

NoMembers == [inObject \in BOOLEAN |-> [d \in Nat |-> <<>>]]

Members(t, pretty) ==
  LET M[k \in 0 .. t.items] ==
        IF k = 0 THEN NoMembers ELSE MembersFrom(t, pretty, k, M[t.child[k]], M[t.next[k]])
  IN  M

Rendering(t, pretty) == ItemText(t, 1, 0, Members(t, pretty)[t.child[1]])

(* Every variable keeps its type; depth counts the open brackets, and the  *)
(* loops are at members of what is open.                                   *)
PrintTypeOK ==
  /\ pc \in {"start", "value", "member", "tabs", "key", "key_end", "colon", "value_end",
            "comma", "close", "shrink", "done", "fail", "failed"}
  /\ tree \in Trees /\ format \in BOOLEAN
  /\ item \in 0 .. tree.items
  /\ stack \in Seq([item : Items(tree), kid : 0 .. tree.items])
  /\ \A j \in 1 .. Len(stack) : tree.type[stack[j].item] \in Containers
  /\ depth = Len(stack)
  /\ buffer \in {"none", "live", "freed", "twice", "result"} /\ pointer \in BOOLEAN
  /\ length \in 0 .. INT_MAX /\ offset \in Nat /\ end \in Nat \cup {NoNul} /\ wrote \in Nat

(* The writers take care of the buffer: none has ever written past its     *)
(* end, offset stays in it, and where update_offset looks for the NUL      *)
(* there is one, inside the buffer.                                        *)
WritesInside ==
  buffer = "live" =>
    /\ wrote <= length /\ offset < length
    /\ pc \in {"key_end", "value_end"} => end \in offset .. length - 1

(* What cJSON_Print returns is the whole text of the tree, piece after     *)
(* piece with nothing lost and no gap, in a block of exactly its length.   *)
PrintsTheTree ==
  pc = "done" =>
    /\ [j \in 1 .. Len(text) |-> text[j].what] = Rendering(tree, format)
    /\ \A j \in 1 .. Len(text) :
         text[j].at + text[j].size = (IF j = Len(text) THEN offset ELSE text[j + 1].at)
    /\ end = offset /\ length = offset + 1 /\ depth = 0

(* The buffer is freed on every path that fails, wherever it fails, by     *)
(* ensure or by print and never by both, and is the result's on the other. *)
BufferIsFreed ==
  /\ buffer # "twice"
  /\ pc = "failed" => buffer \in {"none", "freed"}
  /\ pc = "done" <=> buffer = "result"
=============================================================================
