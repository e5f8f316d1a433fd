--------------------------- MODULE JsonPrintProofs ---------------------------
(***************************************************************************)
(* Proofs about JsonPrint: whatever the tree, the format and the sizes of  *)
(* its texts, and wherever an allocation fails, no writer leaves the       *)
(* buffer, update_offset finds a NUL, the buffer is freed once, and what   *)
(* is returned is the text of the tree.                                    *)
(*                                                                         *)
(* WritesInside is nearly inductive: each writer asks ensure for at least  *)
(* what it writes.  What it lacks is that there is a buffer to write to    *)
(* (BufferInv), and that the loops are at items that exist (WalkInv).      *)
(* BufferInv also ties the pointer to the block: print, on its way out,    *)
(* knows the block by its pointer alone.                                   *)
(*                                                                         *)
(* For the text, TextInv says that the tokens follow one another without   *)
(* a gap up to where the next one goes, which is offset, or the NUL that   *)
(* update_offset is about to find; so no write hides a token.  RenderInv   *)
(* says that what is written, followed by what the walk has yet to write,  *)
(* is the Rendering of the tree.  B[d] is what comes after a value inside  *)
(* d brackets: it is built along the stack, frame by frame.  The reference *)
(* definition is a recursive function over the items; its table is filled  *)
(* from the last item down, by a least counterexample.                     *)
(***************************************************************************)
EXTENDS JsonPrint, FiniteSetTheorems, SequenceTheorems, WellFoundedInduction, TLAPS

Over == {"start", "fail", "done", "failed"}

BufferInv ==
  /\ pc \notin Over => buffer = "live"
  /\ pc = "start" => buffer = "none" /\ offset = 0 /\ wrote = 0 /\ stack = <<>>
  /\ pc = "fail" => buffer # "result"
  /\ buffer = "live" => pointer = TRUE
  /\ buffer # "live" => pointer = FALSE

WalkInv ==
  /\ pc \in {"member", "tabs", "key", "key_end", "colon", "comma", "close"} => stack # <<>>
  /\ pc \in {"tabs", "key", "key_end", "colon"} => item # 0
  /\ pc \in {"tabs", "key", "key_end", "colon", "value", "value_end", "comma"} =>
       \A j \in 1 .. Len(stack) : stack[j].kid # 0
  /\ \A j \in 1 .. Len(stack) : j < Len(stack) => stack[j].kid # 0

PrintInv == PrintTypeOK /\ BufferInv /\ WalkInv /\ WritesInside /\ BufferIsFreed

Frames == [item : Items(tree), kid : 0 .. tree.items]

(* The counts of a string: what is written is what was counted.            *)
LEMMA StringSizes ==
  ASSUME NEW s \in Strings
  PROVE  Escaped(s) \in Nat /\ OutputLength(s) = Escaped(s)
BY DEF Strings, Escaped, OutputLength, Length

LEMMA TreeShape ==
  ASSUME PrintTypeOK
  PROVE  /\ tree.items \in Nat
         /\ \A k \in Items(tree) :
              /\ tree.child[k] \in 0 .. tree.items /\ tree.next[k] \in 0 .. tree.items
              /\ tree.key[k] \in Strings
              /\ tree.type[k] = "string" => tree.value[k] \in Strings
              /\ tree.type[k] \in {"literal", "number"} => tree.value[k] \in Nat
         /\ item # 0 => item \in Items(tree)
<1>1. IsTree(tree) /\ item \in 0 .. tree.items
  BY TreesAssumption DEF PrintTypeOK
<1> QED BY <1>1 DEF IsTree, Items

(* One write: if a writer asks for what it writes, it stays inside.        *)
LEMMA PutInside ==
  ASSUME PrintInv, buffer = "live", pointer = TRUE, NEW what, NEW needed \in Nat, NEW size \in Nat,
         NEW nul \in {0, 1}, NEW advance \in {0, size},
         size + nul <= needed,
         Put(what, needed, size, nul, advance)
  PROVE  /\ buffer' = "live" /\ pointer' = TRUE /\ length' \in 0 .. INT_MAX /\ offset' \in Nat /\ wrote' \in Nat
         /\ wrote' <= length' /\ offset' < length'
         /\ end' \in Nat \cup {NoNul}
         /\ nul = 1 => end' \in offset' .. length' - 1
         /\ tree' = tree /\ format' = format
<1>1. /\ offset \in Nat /\ length \in 0 .. INT_MAX /\ INT_MAX \in Nat
      /\ ~Refused(needed)
      /\ length' = IF Fits(needed) THEN length ELSE NewSize(needed)
      /\ end' = (IF nul = 1 THEN offset + size ELSE NoNul)
      /\ wrote' = offset + size + nul
      /\ offset' = offset + advance /\ buffer' = "live" /\ pointer' = TRUE /\ tree' = tree /\ format' = format
  BY SizesAssumption DEF PrintInv, PrintTypeOK, Put, Ensure
<1>2. Required(needed) = needed + offset + 1 /\ Required(needed) \in Nat /\ Required(needed) <= INT_MAX
  BY <1>1 DEF Required, Refused
<1>3. length' \in 0 .. INT_MAX /\ Required(needed) <= length'
  <2>1. CASE Fits(needed)
    BY <1>1, <1>2, <2>1 DEF Fits
  <2>2. CASE ~Fits(needed) /\ Required(needed) > INT_MAX \div 2
    BY <1>1, <1>2, <2>2 DEF NewSize
  <2>3. CASE ~Fits(needed) /\ ~ Required(needed) > INT_MAX \div 2
    <3>1. INT_MAX \div 2 \in Nat /\ 2 * (INT_MAX \div 2) <= INT_MAX
      BY <1>1
    <3>2. length' = Required(needed) * 2
      BY <1>1, <2>3 DEF NewSize
    <3> HIDE DEF Required
    <3> QED BY <1>1, <1>2, <2>3, <3>1, <3>2
  <2> QED BY <2>1, <2>2, <2>3
<1>4. offset + size + nul + 1 <= length'
  BY <1>1, <1>2, <1>3
<1>5. offset' < length' /\ wrote' <= length' /\ wrote' \in Nat /\ offset' \in Nat
  BY <1>1, <1>3, <1>4
<1>6. nul = 1 => end' \in offset' .. length' - 1 /\ end' \in Nat
  BY <1>1, <1>3, <1>4
<1>7. end' \in Nat \cup {NoNul}
  BY <1>1, <1>6
<1> QED BY <1>1, <1>3, <1>5, <1>6, <1>7

(* A refusal or a failed realloc ends in fail, with a buffer or without.   *)
LEMMA EnsureFailsKeeps ==
  ASSUME PrintInv, pc \notin Over, NEW needed, EnsureFails(needed)
  PROVE  PrintInv'
<1>1. /\ pc' = "fail" /\ UNCHANGED <<tree, format, item, stack, depth, offset, text, end, wrote>>
      /\ buffer = "live" /\ pointer = TRUE
      /\ \/ buffer' = "live" /\ pointer' = TRUE /\ length' = length
         \/ buffer' = "freed" /\ pointer' = FALSE /\ length' = 0
  BY DEF EnsureFails, Deallocated, PrintInv, BufferInv
<1>2. length' \in 0 .. INT_MAX
  BY <1>1, SizesAssumption DEF PrintInv, PrintTypeOK
<1>3. pointer' \in BOOLEAN
  BY <1>1
<1>4. PrintTypeOK'
  BY <1>1, <1>2, <1>3 DEF PrintInv, PrintTypeOK
<1>5. BufferInv' /\ BufferIsFreed'
  BY <1>1 DEF BufferInv, BufferIsFreed, Over
<1>6. WalkInv'
  BY <1>1 DEF PrintInv, WalkInv
<1>7. WritesInside'
  BY <1>1 DEF PrintInv, WritesInside
<1> QED BY <1>4, <1>5, <1>6, <1>7 DEF PrintInv

(* A write after which only pc has moved on in the walk.                   *)
LEMMA WriteKeeps ==
  ASSUME PrintInv, pc \notin Over,
         NEW what, NEW needed \in Nat, NEW size \in Nat, NEW nul \in {0, 1},
         NEW advance \in {0, size}, NEW to \in {"value_end", "key", "key_end", "value"},
         size + nul <= needed,
         to \in {"value_end", "key_end"} => nul = 1,
         to \in {"key", "key_end"} => stack # <<>> /\ item # 0,
         \A j \in 1 .. Len(stack) : stack[j].kid # 0,
         Write(what, needed, size, nul, advance, to)
  PROVE  PrintInv'
<1>1. CASE EnsureFails(needed)
  BY <1>1, EnsureFailsKeeps
<1>2. CASE Put(what, needed, size, nul, advance) /\ pc' = to /\ UNCHANGED <<item, stack, depth>>
  <2>1. buffer = "live" /\ pointer = TRUE
    BY DEF PrintInv, BufferInv
  <2>2. /\ buffer' = "live" /\ pointer' = TRUE /\ length' \in 0 .. INT_MAX /\ offset' \in Nat /\ wrote' \in Nat
        /\ wrote' <= length' /\ offset' < length' /\ end' \in Nat \cup {NoNul}
        /\ nul = 1 => end' \in offset' .. length' - 1
        /\ tree' = tree /\ format' = format
    BY <1>2, <2>1, PutInside
  <2>3. PrintTypeOK'
    BY <1>2, <2>2 DEF PrintInv, PrintTypeOK
  <2>4. BufferInv' /\ BufferIsFreed'
    BY <1>2, <2>2 DEF BufferInv, BufferIsFreed, Over
  <2>5. WalkInv'
    BY <1>2 DEF PrintInv, WalkInv
  <2>6. WritesInside'
    BY <1>2, <2>2 DEF WritesInside
  <2> QED BY <2>3, <2>4, <2>5, <2>6 DEF PrintInv
<1> QED BY <1>1, <1>2 DEF Write

(* The frame on top, and the stack without it.                             *)
LEMMA TopFacts ==
  ASSUME PrintTypeOK, stack # <<>>
  PROVE  /\ Len(stack) \in Nat /\ Len(stack) > 0 /\ Top = stack[Len(stack)]
         /\ Top.item \in Items(tree) /\ Top.kid \in 0 .. tree.items
         /\ depth \in Nat /\ depth > 0
         /\ Front(stack) \in Seq(Frames) /\ Len(Front(stack)) = Len(stack) - 1
         /\ \A j \in 1 .. Len(stack) - 1 : Front(stack)[j] = stack[j]
<1>1. stack \in Seq(Frames) /\ depth = Len(stack)
  BY DEF PrintTypeOK, Frames
<1> DEFINE F == Frames
<1>2. stack \in Seq(F) /\ depth = Len(stack)
  BY <1>1
<1> HIDE DEF F
<1>3. /\ Len(stack) \in Nat /\ Len(stack) > 0 /\ Top = stack[Len(stack)]
      /\ stack[Len(stack)] \in F
  BY <1>2 DEF Top, Last
<1>4. /\ Front(stack) \in Seq(F) /\ Len(Front(stack)) = Len(stack) - 1
      /\ \A j \in 1 .. Len(stack) - 1 : Front(stack)[j] = stack[j]
  BY <1>2, <1>3 DEF Front
<1>5. stack[Len(stack)].item \in Items(tree) /\ stack[Len(stack)].kid \in 0 .. tree.items
  BY <1>3 DEF F, Frames
<1> QED BY <1>2, <1>3, <1>4, <1>5 DEF F

LEMMA PrintInitInv == PrintInit => PrintInv
<1> SUFFICES ASSUME PrintInit PROVE PrintInv OBVIOUS
<1>1. tree.items \in Nat
  BY TreesAssumption DEF PrintInit, IsTree
<1>2. PrintTypeOK
  <2>1. /\ length \in 0 .. INT_MAX /\ offset \in Nat /\ wrote \in Nat /\ end \in Nat \cup {NoNul}
        /\ item \in 0 .. tree.items
    BY <1>1, SizesAssumption DEF PrintInit, NoNul
  <2>2. pointer \in BOOLEAN /\ buffer = "none" /\ pc = "start" /\ tree \in Trees /\ format \in BOOLEAN
    BY DEF PrintInit
  <2>3. /\ stack \in Seq([item : Items(tree), kid : 0 .. tree.items])
        /\ \A j \in 1 .. Len(stack) : tree.type[stack[j].item] \in Containers
        /\ depth = Len(stack)
    BY DEF PrintInit
  <2> QED BY <2>1, <2>2, <2>3 DEF PrintTypeOK
<1>3. BufferInv /\ WalkInv /\ WritesInside /\ BufferIsFreed
  BY DEF PrintInit, BufferInv, WalkInv, WritesInside, BufferIsFreed, Over
<1> QED BY <1>2, <1>3 DEF PrintInv

-----------------------------------------------------------------------------
(* The leaves and the pieces between: what they ask for is enough.         *)
LEMMA LeafStep ==
  ASSUME PrintInv, PrintLiteral \/ PrintNumber \/ PrintString \/ Tabs \/ Key \/ Colon
  PROVE  PrintInv'
<1> USE DEF Over
<1>1. /\ PrintTypeOK /\ format \in BOOLEAN
      /\ pc = "value" => \A j \in 1 .. Len(stack) : stack[j].kid # 0
      /\ pc \in {"tabs", "key", "colon"} =>
           stack # <<>> /\ item # 0 /\ \A j \in 1 .. Len(stack) : stack[j].kid # 0
  BY DEF PrintInv, PrintTypeOK, WalkInv
<1>2. CASE PrintLiteral
  <2>1. tree.value[item] \in Nat /\ pc = "value"
    BY <1>1, <1>2, TreeShape DEF PrintLiteral, Type
  <2> DEFINE size == tree.value[item]
  <2>2. Write(<<"value", item>>, size + 1, size, 1, 0, "value_end")
    BY <1>2 DEF PrintLiteral
  <2> HIDE DEF size
  <2>3. size \in Nat
    BY <2>1 DEF size
  <2> QED BY <1>1, <2>1, <2>2, <2>3, WriteKeeps
<1>3. CASE PrintNumber
  <2>1. tree.value[item] \in Nat /\ pc = "value"
    BY <1>1, <1>3, TreeShape DEF PrintNumber, Type
  <2> DEFINE size == tree.value[item]
  <2>2. Write(<<"value", item>>, size + 1, size, 1, size, "value_end")
    BY <1>3 DEF PrintNumber
  <2> HIDE DEF size
  <2>3. size \in Nat
    BY <2>1 DEF size
  <2> QED BY <1>1, <2>1, <2>2, <2>3, WriteKeeps
<1>4. CASE PrintString
  <2>1. tree.value[item] \in Strings /\ pc = "value"
    BY <1>1, <1>4, TreeShape DEF PrintString, Type
  <2> DEFINE size == Escaped(tree.value[item])
  <2>2. OutputLength(tree.value[item]) = size /\ size \in Nat
    BY <2>1, StringSizes
  <2>3. Write(<<"value", item>>, size + 3, size + 2, 1, 0, "value_end")
    BY <1>4, <2>2 DEF PrintString
  <2> HIDE DEF size
  <2> QED BY <1>1, <2>1, <2>2, <2>3, WriteKeeps
<1>5. CASE Tabs
  <2>1. depth \in Nat /\ pc = "tabs" /\ Write(<<"tabs", depth>>, depth, depth, 0, depth, "key")
    BY <1>1, <1>5, TopFacts DEF Tabs
  <2> QED BY <1>1, <2>1, WriteKeeps
<1>6. CASE Key
  <2>1. tree.key[item] \in Strings /\ pc = "key"
    BY <1>1, <1>6, TreeShape DEF Key
  <2> DEFINE size == Escaped(tree.key[item])
  <2>2. OutputLength(tree.key[item]) = size /\ size \in Nat
    BY <2>1, StringSizes
  <2>3. Write(<<"key", item>>, size + 3, size + 2, 1, 0, "key_end")
    BY <1>6, <2>2 DEF Key
  <2> HIDE DEF size
  <2> QED BY <1>1, <2>1, <2>2, <2>3, WriteKeeps
<1>7. CASE Colon
  <2> DEFINE size == Pretty(2, 1)
  <2>1. size \in Nat
    BY <1>1 DEF Pretty
  <2>2. pc = "colon" /\ Write(<<"colon", item>>, size, size, 0, size, "value")
    BY <1>7 DEF Colon
  <2> HIDE DEF size
  <2> QED BY <1>1, <2>1, <2>2, WriteKeeps
<1> QED BY <1>2, <1>3, <1>4, <1>5, <1>6, <1>7

(* A bracket opens: what is open below is at a member.                     *)
LEMMA OpenStep == ASSUME PrintInv, Open PROVE PrintInv'
<1> DEFINE size == IF Type = "object" THEN Pretty(2, 1) ELSE 1
           needed == IF Type = "object" THEN size + 1 ELSE 1
           frame == [item |-> item, kid |-> tree.child[item]]
<1>1. /\ PrintTypeOK /\ format \in BOOLEAN /\ pc = "value" /\ Type \in Containers /\ buffer = "live" /\ pointer = TRUE
      /\ stack \in Seq(Frames) /\ depth = Len(stack)
      /\ \A j \in 1 .. Len(stack) : stack[j].kid # 0
  BY DEF PrintInv, PrintTypeOK, BufferInv, WalkInv, Open, Over, Frames
<1>2. size \in Nat /\ needed \in Nat /\ size <= needed
  BY <1>1 DEF Pretty
<1>3. item \in Items(tree) /\ frame \in Frames /\ tree.type[item] \in Containers
  <2>1. item # 0 /\ tree.type[item] \in Containers
    BY <1>1 DEF Type, Containers
  <2>2. item \in Items(tree) /\ tree.child[item] \in 0 .. tree.items
    BY <1>1, <2>1, TreeShape
  <2> QED BY <2>1, <2>2 DEF Frames
<1>4. \/ /\ Put(<<"open", item>>, needed, size, 0, size)
         /\ stack' = Append(stack, frame) /\ depth' = depth + 1 /\ pc' = "member" /\ item' = item
      \/ EnsureFails(needed)
  BY DEF Open
<1> HIDE DEF size, needed, frame
<1>5. CASE EnsureFails(needed)
  <2>1. pc \notin Over
    BY <1>1 DEF Over
  <2> QED BY <2>1, <1>5, EnsureFailsKeeps
<1>6. CASE /\ Put(<<"open", item>>, needed, size, 0, size)
           /\ stack' = Append(stack, frame) /\ depth' = depth + 1 /\ pc' = "member" /\ item' = item
  <2>0. size + 0 <= needed
    BY <1>2
  <2>1. /\ buffer' = "live" /\ pointer' = TRUE /\ length' \in 0 .. INT_MAX /\ offset' \in Nat /\ wrote' \in Nat
        /\ wrote' <= length' /\ offset' < length' /\ end' \in Nat \cup {NoNul}
        /\ tree' = tree /\ format' = format
    BY <1>1, <1>2, <1>6, <2>0, PutInside
  <2> DEFINE F == Frames
  <2> HIDE DEF F
  <2>2. stack \in Seq(F) /\ frame \in F
    BY <1>1, <1>3 DEF F
  <2>3. /\ stack' \in Seq(F) /\ Len(stack') = Len(stack) + 1 /\ stack' # <<>> /\ Len(stack) \in Nat
        /\ \A j \in 1 .. Len(stack) : stack'[j] = stack[j]
        /\ stack'[Len(stack) + 1] = frame
    BY <1>6, <2>2
  <2>4. frame.item = item
    BY DEF frame
  <2>5. \A j \in 1 .. Len(stack') : tree.type[stack'[j].item] \in Containers
    <3> TAKE j \in 1 .. Len(stack')
    <3>1. CASE j = Len(stack) + 1
      BY <2>3, <2>4, <1>3, <3>1
    <3>2. CASE j \in 1 .. Len(stack)
      <4>1. tree.type[stack[j].item] \in Containers
        BY <1>1, <3>2 DEF PrintTypeOK
      <4> QED BY <2>3, <3>2, <4>1
    <3> QED BY <2>3, <3>1, <3>2
  <2>6. stack' \in Seq([item : Items(tree), kid : 0 .. tree.items])'
    BY <2>1, <2>3 DEF F, Frames, Items
  <2>7. PrintTypeOK'
    BY <1>1, <1>6, <2>1, <2>3, <2>5, <2>6 DEF PrintTypeOK
  <2>8. BufferInv' /\ BufferIsFreed'
    BY <1>6, <2>1 DEF BufferInv, BufferIsFreed, Over
  <2>9. WalkInv'
    BY <1>1, <1>6, <2>3 DEF WalkInv
  <2>10. WritesInside'
    BY <1>6, <2>1 DEF WritesInside
  <2> QED BY <2>7, <2>8, <2>9, <2>10 DEF PrintInv
<1> QED BY <1>4, <1>5, <1>6

(* The loop goes to a member, or to the closing bracket.                   *)
LEMMA MemberStep == ASSUME PrintInv, Member PROVE PrintInv'
<1>1. /\ PrintTypeOK /\ format \in BOOLEAN /\ pc = "member" /\ buffer = "live" /\ pointer = TRUE /\ stack # <<>>
  BY DEF PrintInv, PrintTypeOK, BufferInv, WalkInv, Member, Over
<1>2. /\ Len(stack) \in Nat /\ Len(stack) > 0 /\ Top = stack[Len(stack)] /\ Top.kid \in 0 .. tree.items
  BY <1>1, TopFacts
<1>3. /\ pc' \in {"close", "value", "tabs", "key"} /\ (pc' # "close" => Top.kid # 0)
      /\ item' = Top.kid
      /\ UNCHANGED <<tree, format, stack, depth, buffer, pointer, length, offset, text, end, wrote>>
  BY DEF Member, Pretty, printbuffer
<1>4. PrintTypeOK'
  BY <1>1, <1>2, <1>3 DEF PrintTypeOK
<1>5. BufferInv' /\ BufferIsFreed' /\ WritesInside'
  BY <1>1, <1>3 DEF PrintInv, BufferInv, BufferIsFreed, WritesInside, Over
<1>6. WalkInv'
  <2>1. \A j \in 1 .. Len(stack) : j < Len(stack) => stack[j].kid # 0
    BY DEF PrintInv, WalkInv
  <2>2. pc' # "close" => \A j \in 1 .. Len(stack) : stack[j].kid # 0
    BY <1>2, <1>3, <2>1
  <2> HIDE DEF Top
  <2> QED BY <1>1, <1>3, <2>1, <2>2 DEF WalkInv
<1> QED BY <1>4, <1>5, <1>6 DEF PrintInv

(* On to the NUL: WritesInside has it in the buffer.                       *)
LEMMA EndStep == ASSUME PrintInv, KeyEnd \/ ValueEnd PROVE PrintInv'
<1>1. /\ PrintTypeOK /\ WalkInv /\ pc \in {"key_end", "value_end"} /\ buffer = "live" /\ pointer = TRUE
      /\ end \in offset .. length - 1 /\ wrote <= length /\ offset \in Nat /\ length \in Nat
  BY SizesAssumption
     DEF PrintInv, PrintTypeOK, WritesInside, BufferInv, KeyEnd, ValueEnd, Over
<1>2. /\ offset' = end
      /\ UNCHANGED <<tree, format, item, stack, depth, buffer, pointer, length, text, end, wrote>>
      /\ \/ pc = "key_end" /\ pc' = "colon"
         \/ pc = "value_end" /\ pc' = "shrink"
         \/ pc = "value_end" /\ pc' = "comma" /\ stack # <<>>
  BY DEF KeyEnd, ValueEnd, UpdateOffset
<1>3. offset' \in Nat /\ offset' < length'
  BY <1>1, <1>2
<1>4. PrintTypeOK'
  BY <1>1, <1>2, <1>3 DEF PrintTypeOK
<1>5. BufferInv' /\ BufferIsFreed' /\ WritesInside'
  BY <1>1, <1>2, <1>3 DEF PrintInv, BufferInv, BufferIsFreed, WritesInside, Over
<1>6. WalkInv'
  BY <1>1, <1>2 DEF WalkInv
<1> QED BY <1>4, <1>5, <1>6 DEF PrintInv

(* Past a member: the frame on top is at the next one, or at none.         *)
LEMMA NextFrame ==
  ASSUME PrintTypeOK, stack # <<>>, NEW next \in 0 .. tree.items,
         stack' = [stack EXCEPT ![Len(stack)].kid = next]
  PROVE  /\ stack' \in Seq(Frames) /\ Len(stack') = Len(stack)
         /\ \A j \in 1 .. Len(stack) : stack'[j].item = stack[j].item
         /\ \A j \in 1 .. Len(stack) : j < Len(stack) => stack'[j] = stack[j]
<1> DEFINE F == Frames
<1>1. stack \in Seq(F) /\ Len(stack) \in Nat /\ Len(stack) > 0
  BY TopFacts DEF PrintTypeOK, Frames
<1>2. stack[Len(stack)] \in F
  BY <1>1
<1>3. /\ [stack[Len(stack)] EXCEPT !.kid = next] \in F
      /\ [stack[Len(stack)] EXCEPT !.kid = next].item = stack[Len(stack)].item
  BY <1>2 DEF Frames
<1> DEFINE frame == [stack[Len(stack)] EXCEPT !.kid = next]
<1>4. stack' = [stack EXCEPT ![Len(stack)] = frame]
  OBVIOUS
<1>5. frame \in F /\ frame.item = stack[Len(stack)].item
  BY <1>3
<1> HIDE DEF F, frame
<1>6. /\ stack' \in Seq(F) /\ Len(stack') = Len(stack)
      /\ \A j \in 1 .. Len(stack) : stack'[j] = IF j = Len(stack) THEN frame ELSE stack[j]
  BY <1>1, <1>4, <1>5
<1> QED BY <1>5, <1>6 DEF F

LEMMA CommaStep == ASSUME PrintInv, Comma PROVE PrintInv'
<1> DEFINE next == tree.next[Top.kid]
           more == IF next = 0 THEN 0 ELSE 1
           size == IF InObject THEN Pretty(1, 0) + more ELSE Pretty(2, 1)
           needed == size + 1
<1>1. /\ PrintTypeOK /\ WalkInv /\ format \in BOOLEAN /\ pc = "comma" /\ buffer = "live" /\ pointer = TRUE /\ stack # <<>>
      /\ \A j \in 1 .. Len(stack) : stack[j].kid # 0
      /\ wrote <= length /\ offset < length
  BY DEF PrintInv, PrintTypeOK, BufferInv, WalkInv, WritesInside, Comma, Over
<1>2. next \in 0 .. tree.items
  <2>1. Top.kid \in 0 .. tree.items /\ Top.kid # 0 /\ tree.items \in Nat
    BY <1>1, TopFacts, TreeShape
  <2>2. Top.kid \in Items(tree)
    BY <2>1 DEF Items
  <2> HIDE DEF Top
  <2> QED BY <1>1, <2>2, TreeShape
<1>3. size \in Nat /\ needed \in Nat /\ size + 1 <= needed
  BY <1>1 DEF Pretty
<1>4. \/ /\ Put(<<"comma", Top.kid>>, needed, size, 1, size)
         /\ stack' = [stack EXCEPT ![Len(stack)].kid = next]
         /\ pc' = "member" /\ item' = item /\ depth' = depth
      \/ EnsureFails(needed)
      \/ /\ stack' = [stack EXCEPT ![Len(stack)].kid = next]
         /\ pc' = "member"
         /\ UNCHANGED <<tree, format, item, depth, buffer, pointer, length, offset, text, end, wrote>>
  BY DEF Comma, printbuffer
<1> HIDE DEF next, size, needed
<1>5. CASE EnsureFails(needed)
  <2>1. pc \notin Over
    BY <1>1 DEF Over
  <2> QED BY <2>1, <1>5, EnsureFailsKeeps
<1>6. ASSUME stack' = [stack EXCEPT ![Len(stack)].kid = next], pc' = "member",
             buffer' = "live", pointer' = TRUE, length' \in 0 .. INT_MAX, offset' \in Nat, wrote' \in Nat,
             wrote' <= length', offset' < length', end' \in Nat \cup {NoNul},
             tree' = tree, format' = format, item' = item, depth' = depth
      PROVE  PrintInv'
  <2>1. /\ stack' \in Seq(Frames) /\ Len(stack') = Len(stack)
        /\ \A j \in 1 .. Len(stack) : stack'[j].item = stack[j].item
        /\ \A j \in 1 .. Len(stack) : j < Len(stack) => stack'[j] = stack[j]
    BY <1>1, <1>2, <1>6, NextFrame
  <2>2. \A j \in 1 .. Len(stack') : tree.type[stack'[j].item] \in Containers
    BY <1>1, <2>1 DEF PrintTypeOK
  <2>3. Len(stack) \in Nat /\ Len(stack) > 0
    BY <1>1, TopFacts
  <2>4. stack' # <<>>
    BY <2>1, <2>3
  <2>5. stack' \in Seq([item : Items(tree), kid : 0 .. tree.items])'
    BY <1>6, <2>1 DEF Frames, Items
  <2>6. PrintTypeOK'
    BY <1>1, <1>6, <2>1, <2>2, <2>5 DEF PrintTypeOK
  <2>7. BufferInv' /\ BufferIsFreed' /\ WritesInside'
    BY <1>6 DEF BufferInv, BufferIsFreed, WritesInside, Over
  <2>8. WalkInv'
    BY <1>1, <1>6, <2>1, <2>4 DEF WalkInv
  <2> QED BY <2>6, <2>7, <2>8 DEF PrintInv
<1>7. CASE /\ Put(<<"comma", Top.kid>>, needed, size, 1, size)
           /\ stack' = [stack EXCEPT ![Len(stack)].kid = next]
           /\ pc' = "member" /\ item' = item /\ depth' = depth
  <2>1. /\ buffer' = "live" /\ pointer' = TRUE /\ length' \in 0 .. INT_MAX /\ offset' \in Nat /\ wrote' \in Nat
        /\ wrote' <= length' /\ offset' < length' /\ end' \in Nat \cup {NoNul}
        /\ tree' = tree /\ format' = format
    BY <1>1, <1>3, <1>7, PutInside
  <2> QED BY <1>6, <1>7, <2>1
<1>8. CASE /\ stack' = [stack EXCEPT ![Len(stack)].kid = next]
           /\ pc' = "member"
           /\ UNCHANGED <<tree, format, item, depth, buffer, pointer, length, offset, text, end, wrote>>
  <2>1. length \in 0 .. INT_MAX /\ offset \in Nat /\ wrote \in Nat /\ end \in Nat \cup {NoNul}
    BY <1>1 DEF PrintTypeOK
  <2> QED BY <1>1, <1>6, <1>8, <2>1
<1> QED BY <1>4, <1>5, <1>7, <1>8

(* The closing bracket: the frame below, if there is one, is at a member.  *)
LEMMA CloseStep == ASSUME PrintInv, Close PROVE PrintInv'
<1> DEFINE size == IF InObject THEN Pretty(depth, 1) ELSE 1
           needed == IF InObject THEN Pretty(depth + 1, 2) ELSE 2
<1>1. /\ PrintTypeOK /\ WalkInv /\ format \in BOOLEAN /\ pc = "close" /\ buffer = "live" /\ pointer = TRUE /\ stack # <<>>
      /\ \A j \in 1 .. Len(stack) : j < Len(stack) => stack[j].kid # 0
  BY DEF PrintInv, PrintTypeOK, BufferInv, WalkInv, Close, Over
<1>2. /\ depth \in Nat /\ depth > 0 /\ Len(stack) \in Nat /\ Len(stack) > 0 /\ depth = Len(stack)
      /\ Front(stack) \in Seq(Frames) /\ Len(Front(stack)) = Len(stack) - 1
      /\ \A j \in 1 .. Len(stack) - 1 : Front(stack)[j] = stack[j]
  BY <1>1, TopFacts DEF PrintTypeOK
<1>3. size \in Nat /\ needed \in Nat /\ size + 1 <= needed
  BY <1>1, <1>2 DEF Pretty
<1>4. \/ /\ Put(<<"close", Top.item>>, needed, size, 1, 0)
         /\ stack' = Front(stack) /\ depth' = depth - 1
         /\ pc' = "value_end" /\ item' = item
      \/ EnsureFails(needed)
  BY DEF Close
<1> HIDE DEF size, needed
<1>5. CASE EnsureFails(needed)
  <2>1. pc \notin Over
    BY <1>1 DEF Over
  <2> QED BY <2>1, <1>5, EnsureFailsKeeps
<1>6. CASE /\ Put(<<"close", Top.item>>, needed, size, 1, 0)
           /\ stack' = Front(stack) /\ depth' = depth - 1
           /\ pc' = "value_end" /\ item' = item
  <2>1. /\ buffer' = "live" /\ pointer' = TRUE /\ length' \in 0 .. INT_MAX /\ offset' \in Nat /\ wrote' \in Nat
        /\ wrote' <= length' /\ offset' < length' /\ end' \in Nat \cup {NoNul}
        /\ end' \in offset' .. length' - 1
        /\ tree' = tree /\ format' = format
    BY <1>1, <1>3, <1>6, PutInside
  <2>2. /\ stack' \in Seq(Frames) /\ Len(stack') = Len(stack) - 1
        /\ \A j \in 1 .. Len(stack') : j < Len(stack) /\ j \in 1 .. Len(stack) /\ stack'[j] = stack[j]
    BY <1>2, <1>6
  <2>3. \A j \in 1 .. Len(stack') : tree.type[stack'[j].item] \in Containers /\ stack'[j].kid # 0
    BY <1>1, <2>2 DEF PrintTypeOK
  <2>4. stack' \in Seq([item : Items(tree), kid : 0 .. tree.items])'
    BY <2>1, <2>2 DEF Frames, Items
  <2>5. depth' = Len(stack')
    BY <1>2, <1>6, <2>2
  <2>6. PrintTypeOK'
    BY <1>1, <1>6, <2>1, <2>3, <2>4, <2>5 DEF PrintTypeOK
  <2>7. BufferInv' /\ BufferIsFreed' /\ WritesInside'
    BY <1>6, <2>1 DEF BufferInv, BufferIsFreed, WritesInside, Over
  <2>8. WalkInv'
    BY <1>6, <2>3 DEF WalkInv
  <2> QED BY <2>6, <2>7, <2>8 DEF PrintInv
<1> QED BY <1>4, <1>5, <1>6

(* The beginning and the ends of cJSON_Print.                              *)
LEMMA FrameStep ==
  ASSUME PrintInv,
         Start \/ StartFails \/ PrintNothing \/ Shrink \/ ShrinkFails \/ Fail \/ UNCHANGED vars
  PROVE  PrintInv'
<1>1. /\ PrintTypeOK /\ BufferInv /\ WalkInv /\ WritesInside /\ BufferIsFreed
      /\ tree.items \in Nat /\ INT_MAX \in Nat /\ DEFAULT_BUFFER_SIZE \in 1 .. INT_MAX
  BY TreeShape, SizesAssumption DEF PrintInv
<1>2. CASE Start
  <2>1. /\ stack = <<>> /\ wrote = 0 /\ offset = 0 /\ pc' = "value"
        /\ buffer' = "live" /\ pointer' = TRUE /\ length' = DEFAULT_BUFFER_SIZE
        /\ item' = (IF tree.items = 0 THEN 0 ELSE 1)
        /\ UNCHANGED <<tree, format, stack, depth, offset, text, end, wrote>>
    BY <1>1, <1>2 DEF Start, BufferInv
  <2>2. PrintTypeOK'
    BY <1>1, <2>1 DEF PrintTypeOK
  <2>3. BufferInv' /\ WalkInv' /\ WritesInside' /\ BufferIsFreed'
    BY <1>1, <2>1 DEF BufferInv, WalkInv, WritesInside, BufferIsFreed, Over
  <2> QED BY <2>2, <2>3 DEF PrintInv
<1>3. CASE Shrink
  <2>1. /\ pc = "shrink" /\ buffer = "live" /\ pointer = TRUE /\ offset < length /\ pc' = "done"
        /\ buffer' = "result" /\ pointer' = FALSE /\ length' = offset + 1
        /\ UNCHANGED <<tree, format, item, stack, depth, offset, text, end, wrote>>
    BY <1>1, <1>3 DEF Shrink, BufferInv, WritesInside, Over
  <2>2. length' \in 0 .. INT_MAX
    BY <1>1, <2>1 DEF PrintTypeOK
  <2>3. PrintTypeOK'
    BY <1>1, <2>1, <2>2 DEF PrintTypeOK
  <2>4. BufferInv' /\ WalkInv' /\ WritesInside' /\ BufferIsFreed'
    BY <1>1, <2>1 DEF BufferInv, WalkInv, WritesInside, BufferIsFreed, Over
  <2> QED BY <2>3, <2>4 DEF PrintInv
<1>4. CASE StartFails \/ PrintNothing \/ ShrinkFails
  <2>1. /\ pc \in {"start", "value", "shrink"} /\ pc' = "fail"
        /\ UNCHANGED <<tree, format, item, stack, depth, buffer, pointer, length, offset, text, end, wrote>>
    BY <1>4 DEF StartFails, PrintNothing, ShrinkFails, printbuffer
  <2>2. PrintTypeOK'
    BY <1>1, <2>1 DEF PrintTypeOK
  <2>3. BufferInv' /\ WalkInv' /\ WritesInside' /\ BufferIsFreed'
    BY <1>1, <2>1 DEF BufferInv, WalkInv, WritesInside, BufferIsFreed, Over
  <2> QED BY <2>2, <2>3 DEF PrintInv
<1>5. CASE Fail
  <2>1. /\ pc = "fail" /\ pc' = "failed" /\ buffer \in {"none", "live", "freed"}
        /\ pointer' = FALSE
        /\ buffer' = (IF buffer = "live" THEN "freed" ELSE buffer)
        /\ UNCHANGED <<tree, format, item, stack, depth, length, offset, text, end, wrote>>
    BY <1>1, <1>5 DEF Fail, Deallocated, BufferInv, BufferIsFreed, PrintTypeOK
  <2>2. PrintTypeOK'
    BY <1>1, <2>1 DEF PrintTypeOK
  <2>3. BufferInv' /\ WalkInv' /\ WritesInside' /\ BufferIsFreed'
    BY <1>1, <2>1 DEF BufferInv, WalkInv, WritesInside, BufferIsFreed, Over
  <2> QED BY <2>2, <2>3 DEF PrintInv
<1>6. CASE UNCHANGED vars
  BY <1>6 DEF vars, printbuffer, PrintInv, PrintTypeOK, BufferInv, WalkInv, WritesInside,
     BufferIsFreed
<1> QED BY <1>2, <1>3, <1>4, <1>5, <1>6

LEMMA PrintNextInv == PrintInv /\ [PrintNext]_vars => PrintInv'
BY LeafStep, OpenStep, MemberStep, EndStep, CommaStep, CloseStep, FrameStep DEF PrintNext

-----------------------------------------------------------------------------
(* The invariant holds in every behaviour: print_value, print_object and   *)
(* print_array, in any order a tree asks for, and wherever memory fails.   *)
THEOREM PrintInvariance == PrintSpec => []PrintInv
BY PrintInitInv, PrintNextInv, PTL DEF PrintSpec

(* Every variable keeps its type, and depth counts the open brackets.      *)
THEOREM PrintTypeCorrect == PrintSpec => []PrintTypeOK
<1>1. PrintInv => PrintTypeOK
  BY DEF PrintInv
<1> QED BY <1>1, PrintInvariance, PTL

(* No writer of cJSON_Print ever leaves the buffer that ensure has grown,  *)
(* and update_offset finds a NUL: for trees and sizes without bound.       *)
THEOREM WritesCorrect == PrintSpec => []WritesInside
<1>1. PrintInv => WritesInside
  BY DEF PrintInv
<1> QED BY <1>1, PrintInvariance, PTL

(* The buffer is freed on every failure and never twice, whichever of      *)
(* ensure and print does it, and returned on success.                      *)
THEOREM FreedCorrect == PrintSpec => []BufferIsFreed
<1>1. PrintInv => BufferIsFreed
  BY DEF PrintInv
<1> QED BY <1>1, PrintInvariance, PTL
-----------------------------------------------------------------------------
(* The reference definition: what the members of an item print.            *)
Token   == {"value", "open", "close", "tabs", "key", "colon", "comma"} \X Nat
Texts   == Seq(Token)
Printed == [BOOLEAN -> [Nat -> Texts]]

(* A set of numbers that is not empty has a least one.                     *)
LEMMA Least ==
  ASSUME NEW T \in SUBSET Nat, T # {}
  PROVE  \E m \in T : \A y \in T : m <= y
<1>1. IsWellFoundedOn(OpToRel(<, Nat), Nat)
  BY NatLessThanWellFounded
<1>2. PICK m \in T : \A y \in T : ~(<<y, m>> \in OpToRel(<, Nat))
  BY <1>1, WFMin
<1>3. \A y \in T : ~(y < m)
  BY <1>2 DEF OpToRel
<1> QED BY <1>3

(* Texts put together.                                                     *)
LEMMA TextFacts ==
  /\ <<>> \in Texts
  /\ \A r \in Token : <<r>> \in Texts
  /\ \A r, s \in Token : <<r, s>> \in Texts /\ <<r, s>> = <<r>> \o <<s>>
  /\ \A s, t \in Texts : s \o t \in Texts
  /\ \A s \in Texts : s \o <<>> = s /\ <<>> \o s = s
  /\ \A s, t, u \in Texts : (s \o t) \o u = s \o (t \o u)
  /\ \A s \in Texts, r \in Token : Append(s, r) = s \o <<r>>
<1>1. <<>> \in Texts /\ \A r \in Token : <<r>> \in Texts
  BY DEF Texts
<1>2. \A r, s \in Token : <<r, s>> \in Texts /\ <<r, s>> = <<r>> \o <<s>>
  <2> TAKE r, s \in Token
  <2>1. <<r, s>> \in Seq(Token) /\ <<r>> \in Seq(Token)
    OBVIOUS
  <2>2. <<r, s>> = Append(<<r>>, s)
    OBVIOUS
  <2>3. Append(<<r>>, s) = <<r>> \o <<s>>
    BY <2>1, AppendIsConcat
  <2> QED BY <2>1, <2>2, <2>3 DEF Texts
<1>3. \A s, t \in Texts : s \o t \in Texts
  BY ConcatProperties DEF Texts
<1>4. \A s \in Texts : s \o <<>> = s /\ <<>> \o s = s
  BY ConcatEmptySeq DEF Texts
<1>5. \A s, t, u \in Texts : (s \o t) \o u = s \o (t \o u)
  BY ConcatAssociative DEF Texts
<1>6. \A s \in Texts, r \in Token : Append(s, r) = s \o <<r>>
  BY AppendIsConcat DEF Texts
<1> QED BY <1>1, <1>2, <1>3, <1>4, <1>5, <1>6

(* What an item, a key and a comma print are texts.                        *)
LEMMA PieceTypes ==
  ASSUME NEW t \in Trees, NEW pretty, NEW k \in Nat, NEW d \in Nat,
         NEW kids \in Printed, NEW inObject \in BOOLEAN
  PROVE  /\ ItemText(t, k, d, kids) \in Texts /\ KeyText(pretty, k, d) \in Texts
         /\ CommaText(t, k, inObject) \in Texts
<1>1. \A w \in {"value", "open", "close", "tabs", "key", "colon", "comma"} :
        <<w, k>> \in Token /\ <<w, d>> \in Token
  BY DEF Token
<1>2. kids[t.type[k] = "object"][d + 1] \in Texts
  <2>1. \A b \in BOOLEAN : kids[b][d + 1] \in Texts
    <3>1. d + 1 \in Nat
      OBVIOUS
    <3> QED BY <3>1, Zenon DEF Printed
  <2>2. (t.type[k] = "object") \in BOOLEAN
    OBVIOUS
  <2> QED BY <2>1, <2>2, Zenon
<1>3. ItemText(t, k, d, kids) \in Texts
  BY <1>1, <1>2, TextFacts DEF ItemText
<1>4. CommaText(t, k, inObject) \in Texts
  BY <1>1, TextFacts DEF CommaText
<1>5. KeyText(pretty, k, d) \in Texts
  BY <1>1, TextFacts DEF KeyText
<1> QED BY <1>3, <1>4, <1>5

(* v is what the members from k on print, from what k's own members and    *)
(* those after k do.                                                       *)
Unfolds(v, t, pretty, k, kids, rest) ==
  \A b \in BOOLEAN, d \in Nat :
    v[b][d] = (IF b THEN KeyText(pretty, k, d) ELSE <<>>)
              \o (ItemText(t, k, d, kids) \o (CommaText(t, k, b) \o rest[b][d]))

LEMMA MembersFromType ==
  ASSUME NEW t \in Trees, NEW pretty, NEW k \in Nat, NEW kids \in Printed, NEW rest \in Printed
  PROVE  /\ MembersFrom(t, pretty, k, kids, rest) \in Printed
         /\ Unfolds(MembersFrom(t, pretty, k, kids, rest), t, pretty, k, kids, rest)
<1> DEFINE E(b, d) == (IF b THEN KeyText(pretty, k, d) ELSE <<>>)
                      \o (ItemText(t, k, d, kids) \o (CommaText(t, k, b) \o rest[b][d]))
<1>1. \A b \in BOOLEAN, d \in Nat : E(b, d) \in Texts
  <2> TAKE b \in BOOLEAN, d \in Nat
  <2>1. rest[b][d] \in Texts
    BY DEF Printed
  <2> QED BY <2>1, PieceTypes, TextFacts
<1>2. MembersFrom(t, pretty, k, kids, rest) = [b \in BOOLEAN |-> [d \in Nat |-> E(b, d)]]
  BY DEF MembersFrom
<1> HIDE DEF E
<1>3. /\ MembersFrom(t, pretty, k, kids, rest) \in Printed
      /\ \A b \in BOOLEAN, d \in Nat : MembersFrom(t, pretty, k, kids, rest)[b][d] = E(b, d)
  BY <1>1, <1>2 DEF Printed
<1> QED BY <1>3 DEF E, Unfolds

(* The table of what the members print is filled from the last item down,  *)
(* since items only refer to later ones.                                   *)
IsTable(t, pretty, f, first) ==
  /\ f[0] = NoMembers
  /\ \A k \in Items(t) : k >= first =>
       f[k] = MembersFrom(t, pretty, k, f[t.child[k]], f[t.next[k]])

(* A tree's items refer to later ones, or to none.                         *)
LEMMA LaterItems ==
  ASSUME NEW t \in Trees
  PROVE  /\ t.items \in Nat /\ Items(t) = 1 .. t.items
         /\ \A k \in Items(t) : /\ t.child[k] \in 0 .. t.items
                                /\ t.next[k] \in 0 .. t.items
                                /\ t.child[k] = 0 \/ t.child[k] > k
                                /\ t.next[k] = 0 \/ t.next[k] > k
<1>1. IsTree(t)
  BY TreesAssumption
<1>2. t.items \in Nat /\ Items(t) = 1 .. t.items
  BY <1>1 DEF IsTree, Items
<1>3. ASSUME NEW k \in Items(t)
      PROVE  /\ t.child[k] \in 0 .. t.items /\ t.next[k] \in 0 .. t.items
             /\ t.child[k] \notin 1 .. k /\ t.next[k] \notin 1 .. k
  BY <1>1, <1>3 DEF IsTree
<1>4. ASSUME NEW k \in Items(t)
      PROVE  (t.child[k] = 0 \/ t.child[k] > k) /\ (t.next[k] = 0 \/ t.next[k] > k)
  BY <1>2, <1>3
<1> QED BY <1>2, <1>3, <1>4

LEMMA NoMembersType ==
  NoMembers \in Printed /\ \A b \in BOOLEAN, d \in Nat : NoMembers[b][d] = <<>>
BY TextFacts DEF NoMembers, Printed

LEMMA TableExists ==
  ASSUME NEW t \in Trees, NEW pretty
  PROVE  \E f \in [0 .. t.items -> Printed] : IsTable(t, pretty, f, 1)
<1> DEFINE N == t.items
           Fills(m) == \E f \in [0 .. N -> Printed] : IsTable(t, pretty, f, N + 1 - m)
           T == {m \in 0 .. N : ~Fills(m)}
<1>1. /\ N \in Nat /\ Items(t) = 1 .. N
      /\ \A k \in 1 .. N : /\ t.child[k] \in 0 .. N /\ t.next[k] \in 0 .. N
                           /\ t.child[k] = 0 \/ t.child[k] > k
                           /\ t.next[k] = 0 \/ t.next[k] > k
  BY LaterItems
<1> HIDE DEF N
<1>2. Fills(0)
  <2> DEFINE f == [k \in 0 .. N |-> NoMembers]
  <2>1. f \in [0 .. N -> Printed] /\ f[0] = NoMembers
    BY <1>1, NoMembersType
  <2>2. \A k \in 1 .. N : ~ k >= N + 1 - 0
    BY <1>1
  <2>3. IsTable(t, pretty, f, N + 1 - 0)
    BY <1>1, <2>1, <2>2 DEF IsTable
  <2> QED BY <2>1, <2>3
<1>3. ASSUME NEW m \in 1 .. N, Fills(m - 1) PROVE Fills(m)
  <2> DEFINE q == N + 1 - m
  <2>1. q \in 1 .. N /\ N + 1 - (m - 1) = q + 1
    BY <1>1
  <2>2. PICK f \in [0 .. N -> Printed] : IsTable(t, pretty, f, q + 1)
    BY <1>3, <2>1
  <2> DEFINE v == MembersFrom(t, pretty, q, f[t.child[q]], f[t.next[q]])
             g == [f EXCEPT ![q] = v]
  <2> HIDE DEF q
  <2>3. f[t.child[q]] \in Printed /\ f[t.next[q]] \in Printed /\ q \in Nat
    BY <1>1, <2>1
  <2>4. v \in Printed
    BY <2>3, MembersFromType
  <2>5. /\ v = MembersFrom(t, pretty, q, f[t.child[q]], f[t.next[q]])
        /\ g \in [0 .. N -> Printed] /\ g[q] = v /\ \A k \in 0 .. N : k # q => g[k] = f[k]
    BY <1>1, <2>1, <2>4
  <2> HIDE DEF v, g
  <2>6. g[0] = NoMembers
    BY <1>1, <2>1, <2>2, <2>5 DEF IsTable
  <2>7. ASSUME NEW k \in Items(t), k >= q
        PROVE  g[k] = MembersFrom(t, pretty, k, g[t.child[k]], g[t.next[k]])
    <3>1. /\ t.child[k] \in 0 .. N /\ t.child[k] # q
          /\ t.next[k] \in 0 .. N /\ t.next[k] # q
      BY <1>1, <2>1, <2>7
    <3>2. g[t.child[k]] = f[t.child[k]] /\ g[t.next[k]] = f[t.next[k]]
      BY <2>5, <3>1
    <3>3. CASE k = q
      BY <2>5, <3>2, <3>3
    <3>4. CASE k # q
      <4>1. k \in 0 .. N /\ k >= q + 1
        BY <1>1, <2>1, <2>7, <3>4
      <4>2. f[k] = MembersFrom(t, pretty, k, f[t.child[k]], f[t.next[k]])
        BY <2>2, <4>1 DEF IsTable
      <4> QED BY <2>5, <3>2, <3>4, <4>1, <4>2
    <3> QED BY <3>3, <3>4
  <2>8. IsTable(t, pretty, g, q)
    BY <2>6, <2>7 DEF IsTable
  <2> QED BY <2>5, <2>8 DEF q
<1>4. T = {}
  <2>1. SUFFICES ASSUME T # {} PROVE FALSE
    OBVIOUS
  <2>2. PICK m \in T : \A y \in T : m <= y
    <3>1. T \in SUBSET Nat OBVIOUS
    <3> HIDE DEF T
    <3> QED BY <2>1, <3>1, Least
  <2>3. m \in 0 .. N /\ ~Fills(m)
    OBVIOUS
  <2>4. m # 0
    <3> HIDE DEF Fills
    <3> QED BY <1>2, <2>3
  <2>5. m \in 1 .. N /\ m - 1 \in 0 .. N /\ ~ m <= m - 1
    BY <1>1, <2>3, <2>4
  <2>6. m - 1 \notin T
    <3> HIDE DEF T
    <3> QED BY <2>2, <2>5
  <2>7. Fills(m - 1)
    <3> HIDE DEF Fills
    <3> QED BY <2>5, <2>6
  <2> HIDE DEF Fills
  <2> QED BY <1>3, <2>3, <2>5, <2>7
<1>5. Fills(N)
  <2> HIDE DEF Fills
  <2> QED BY <1>1, <1>4
<1>6. N + 1 - N = 1
  BY <1>1
<1> QED BY <1>5, <1>6 DEF N

(* Members is that table.                                                  *)
LEMMA MembersIs ==
  ASSUME NEW t \in Trees, NEW pretty
  PROVE  /\ Members(t, pretty) \in [0 .. t.items -> Printed]
         /\ Members(t, pretty)[0] = NoMembers
         /\ \A k \in Items(t) :
              Members(t, pretty)[k]
                = MembersFrom(t, pretty, k, Members(t, pretty)[t.child[k]],
                                            Members(t, pretty)[t.next[k]])
<1> DEFINE N == t.items
           M == CHOOSE M : M = [k \in 0 .. N |->
                  IF k = 0 THEN NoMembers
                  ELSE MembersFrom(t, pretty, k, M[t.child[k]], M[t.next[k]])]
<1>1. Members(t, pretty) = M
  BY DEF Members
<1>2. PICK f \in [0 .. N -> Printed] : IsTable(t, pretty, f, 1)
  BY TableExists
<1>3. N \in Nat /\ Items(t) = 1 .. N
  BY LaterItems
<1>4. f = [k \in 0 .. N |->
             IF k = 0 THEN NoMembers ELSE MembersFrom(t, pretty, k, f[t.child[k]], f[t.next[k]])]
  <2>1. f = [k \in 0 .. N |-> f[k]]
    OBVIOUS
  <2>2. \A k \in 0 .. N : f[k] = IF k = 0 THEN NoMembers
                                 ELSE MembersFrom(t, pretty, k, f[t.child[k]], f[t.next[k]])
    BY <1>2, <1>3 DEF IsTable
  <2> QED BY <2>1, <2>2
<1>5. M = [k \in 0 .. N |->
             IF k = 0 THEN NoMembers ELSE MembersFrom(t, pretty, k, M[t.child[k]], M[t.next[k]])]
  BY <1>4
<1> HIDE DEF M
<1>6. \A k \in 0 .. N : M[k] = IF k = 0 THEN NoMembers
                               ELSE MembersFrom(t, pretty, k, M[t.child[k]], M[t.next[k]])
  BY <1>5
<1>7. \A k \in 1 .. N : /\ M[k] = MembersFrom(t, pretty, k, M[t.child[k]], M[t.next[k]])
                        /\ N - k \in Nat
  BY <1>3, <1>6
<1>8. M[0] = NoMembers
  BY <1>3, <1>6
<1>9. \A k \in 0 .. N : M[k] \in Printed
  <2> DEFINE T == {m \in 0 .. N : M[N - m] \notin Printed}
  <2>1. T = {}
    <3>1. SUFFICES ASSUME T # {} PROVE FALSE
      OBVIOUS
    <3>2. PICK m \in T : \A y \in T : m <= y
      <4>1. T \in SUBSET Nat OBVIOUS
      <4> HIDE DEF T
      <4> QED BY <3>1, <4>1, Least
    <3> DEFINE k == N - m
    <3>3. k \in 0 .. N /\ M[k] \notin Printed /\ k # 0
      BY <1>3, <1>8, <3>2, NoMembersType
    <3>4. /\ k \in 1 .. N /\ k \in Nat
          /\ t.child[k] \in 0 .. N /\ (t.child[k] = 0 \/ t.child[k] > k)
          /\ t.next[k] \in 0 .. N /\ (t.next[k] = 0 \/ t.next[k] > k)
      BY <1>3, <3>3, LaterItems
    <3>5. ASSUME NEW j \in 0 .. N, j = 0 \/ j > k PROVE M[j] \in Printed
      <4>1. CASE j = 0
        BY <1>8, <4>1, NoMembersType
      <4>2. CASE j > k
        <5>1. N - j \in 0 .. N /\ N - (N - j) = j /\ ~ m <= N - j
          BY <1>3, <3>4, <4>2
        <5>2. N - j \notin T
          <6> HIDE DEF T
          <6> QED BY <3>2, <5>1
        <5> QED BY <5>1, <5>2
      <4> QED BY <3>5, <4>1, <4>2
    <3> HIDE DEF k
    <3>6. M[t.child[k]] \in Printed /\ M[t.next[k]] \in Printed
      BY <3>4, <3>5
    <3>7. MembersFrom(t, pretty, k, M[t.child[k]], M[t.next[k]]) \in Printed
      BY <3>4, <3>6, MembersFromType
    <3> QED BY <1>7, <3>3, <3>4, <3>7
  <2>2. ASSUME NEW k \in 0 .. N PROVE M[k] \in Printed
    <3>1. N - k \in 0 .. N /\ N - (N - k) = k
      BY <1>3
    <3>2. N - k \notin T
      <4> HIDE DEF T
      <4> QED BY <2>1
    <3> QED BY <3>1, <3>2
  <2> QED BY <2>2
<1>10. M \in [0 .. N -> Printed]
  BY <1>5, <1>9
<1> QED BY <1>1, <1>3, <1>7, <1>8, <1>10

-----------------------------------------------------------------------------
(* The text: tokens without a gap, up to offset or to the NUL that         *)
(* update_offset is about to find.                                         *)
Pieces  == [what : Token, at : Nat, size : Nat]
Written == [j \in 1 .. Len(text) |-> text[j].what]
Final   == IF pc \in {"key_end", "value_end"} THEN end ELSE offset

TextInv ==
  /\ text \in Seq(Pieces)
  /\ \A j \in 1 .. Len(text) : text[j].at + text[j].size <= Final
  /\ \A j \in 1 .. Len(text) :
       text[j].at + text[j].size = IF j = Len(text) THEN Final ELSE text[j + 1].at
  /\ pc = "start" => text = <<>>
  /\ pc \in {"shrink", "done"} => end = offset /\ stack = <<>>

(* A write at offset hides nothing of such a text and follows its end.     *)
LEMMA PutText ==
  ASSUME PrintTypeOK, TextInv, pc \notin {"key_end", "value_end"},
         NEW what \in Token, NEW needed, NEW size \in Nat, NEW nul \in {0, 1}, NEW advance,
         Put(what, needed, size, nul, advance),
         \/ nul = 1 /\ pc' \in {"key_end", "value_end"}
         \/ advance = size /\ pc' \in {"key", "value", "member"}
  PROVE  TextInv' /\ Written' = Append(Written, what)
<1> DEFINE S == Pieces
           n == Len(text)
           x == [what |-> what, at |-> offset, size |-> size]
<1>1. /\ text \in Seq(S) /\ n \in Nat /\ offset \in Nat
      /\ \A j \in 1 .. n : text[j].at + text[j].size <= offset
      /\ \A j \in 1 .. n : text[j].at + text[j].size = IF j = n THEN offset ELSE text[j + 1].at
  BY DEF TextInv, Final, PrintTypeOK
<1>2. Before = n
  <2>1. {j \in 1 .. n : text[j].at + text[j].size <= offset} = 1 .. n
    BY <1>1
  <2>2. Cardinality(1 .. n) = n
    <3> HIDE DEF n
    <3>1. n \in Int /\ (1 > n => n = 0) /\ n - 1 + 1 = n
      BY <1>1
    <3>2. Cardinality(1 .. n) = IF 1 > n THEN 0 ELSE n - 1 + 1
      BY <3>1, FS_Interval
    <3> QED BY <3>1, <3>2
  <2> QED BY <2>1, <2>2 DEF Before
<1>3. text' = Append(text, x)
  <2>1. text' = Append(SubSeq(text, 1, n), x)
    BY <1>2 DEF Put
  <2>2. SubSeq(text, 1, n) = text
    <3> HIDE DEF S
    <3> QED BY <1>1
  <2> QED BY <2>1, <2>2
<1>4. x \in S /\ x.what = what /\ x.at = offset /\ x.size = size
  BY <1>1 DEF Pieces
<1>5. Final' = offset + size
  <2>1. (nul = 1 => end' = offset + size) /\ (advance = size => offset' = offset + size)
    BY DEF Put
  <2>2. CASE nul = 1 /\ pc' \in {"key_end", "value_end"}
    BY <2>1, <2>2 DEF Final
  <2>3. CASE advance = size /\ pc' \in {"key", "value", "member"}
    BY <2>1, <2>3 DEF Final
  <2> QED BY <2>2, <2>3
<1> HIDE DEF S, x
<1>6. /\ text' \in Seq(S) /\ Len(text') = n + 1
      /\ \A j \in 1 .. n : text'[j] = text[j]
      /\ text'[n + 1] = x
  BY <1>1, <1>3, <1>4
<1>7. \A j \in 1 .. n : text[j].at \in Nat /\ text[j].size \in Nat /\ text[j].what \in Token
  <2>1. \A j \in 1 .. n : text[j] \in S
    BY <1>1
  <2> QED BY <2>1 DEF S, Pieces
<1>8. \A j \in 1 .. n + 1 : text'[j].at + text'[j].size <= offset + size
  <2> TAKE j \in 1 .. n + 1
  <2>1. CASE j \in 1 .. n
    BY <1>1, <1>6, <1>7, <2>1
  <2>2. CASE j = n + 1
    BY <1>1, <1>4, <1>6, <2>2
  <2> QED BY <1>1, <2>1, <2>2
<1>9. \A j \in 1 .. n + 1 :
        text'[j].at + text'[j].size = IF j = n + 1 THEN offset + size ELSE text'[j + 1].at
  <2> TAKE j \in 1 .. n + 1
  <2>1. CASE j \in 1 .. n /\ j # n
    <3>1. j + 1 \in 1 .. n /\ j # n + 1
      BY <1>1, <2>1
    <3> QED BY <1>1, <1>6, <2>1, <3>1
  <2>2. CASE j = n /\ j \in 1 .. n
    <3>1. n # n + 1
      BY <1>1
    <3> QED BY <1>1, <1>4, <1>6, <2>2, <3>1
  <2>3. CASE j = n + 1
    BY <1>1, <1>4, <1>6, <2>3
  <2> QED BY <1>1, <2>1, <2>2, <2>3
<1>10. TextInv'
  <2>1. pc' \notin {"start", "shrink", "done"}
    OBVIOUS
  <2>2. text' \in Seq(Pieces')
    BY <1>6 DEF S, Pieces, Token
  <2> QED BY <1>5, <1>6, <1>8, <1>9, <2>1, <2>2 DEF TextInv
<1>11. Written' = Append(Written, what)
  <2>1. Written' = [j \in 1 .. n + 1 |-> text'[j].what]
    BY <1>6 DEF Written
  <2>2. /\ Written = [j \in 1 .. n |-> text[j].what] /\ Written \in Texts
    <3>1. Written = [j \in 1 .. n |-> text[j].what]
      BY DEF Written
    <3> HIDE DEF n
    <3> QED BY <1>1, <1>7, <3>1 DEF Texts
  <2>3. \A j \in 1 .. n + 1 : text'[j].what = IF j = n + 1 THEN what ELSE text[j].what
    BY <1>1, <1>4, <1>6
  <2> HIDE DEF n
  <2>4. Len(Written) = n
    BY <1>1, <2>2 DEF Texts
  <2>5. Append(Written, what) = [j \in 1 .. n + 1 |-> IF j = n + 1 THEN what ELSE text[j].what]
    BY <1>1, <2>2, <2>4 DEF Texts
  <2> QED BY <2>1, <2>3, <2>5
<1> QED BY <1>10, <1>11

(* A step that writes nothing, and leaves the end of the text.             *)
LEMMA TextSame ==
  ASSUME TextInv, text' = text, Final' = Final, pc' # "start",
         pc' \in {"shrink", "done"} => end' = offset' /\ stack' = <<>>
  PROVE  TextInv' /\ Written' = Written
BY DEF TextInv, Written, Pieces, Token

LEMMA WrittenType == ASSUME TextInv PROVE Written \in Texts
<1> DEFINE S == Pieces
           n == Len(text)
<1>1. text \in Seq(S) /\ n \in Nat
  BY DEF TextInv
<1>2. \A j \in 1 .. n : text[j] \in S
  BY <1>1
<1>3. \A j \in 1 .. n : text[j].what \in Token
  BY <1>2 DEF S, Pieces
<1>4. Written = [j \in 1 .. n |-> text[j].what]
  BY DEF Written
<1> HIDE DEF n
<1> QED BY <1>1, <1>3, <1>4 DEF Texts

-----------------------------------------------------------------------------
(* What has been written and what the walk has yet to write are together   *)
(* the rendering.                                                          *)

(* What an item prints, and what the members from k on print.              *)
ItemOf(k, d)    == ItemText(tree, k, d, Members(tree, format)[tree.child[k]])
RestOf(k, b, d) == Members(tree, format)[k][b][d]
Bracket(k)      == <<<<"close", k>>>>

(* What comes after the member that the j-th frame is at, if X comes after *)
(* the frame's closing bracket.                                            *)
After(frame, j, X) ==
  CommaText(tree, frame.kid, tree.type[frame.item] = "object")
  \o (RestOf(tree.next[frame.kid], tree.type[frame.item] = "object", j)
      \o (Bracket(frame.item) \o X))

(* B has, for each number of open brackets, what comes after a value.      *)
Chain(B) ==
  /\ B \in [Nat -> Texts] /\ B[0] = <<>>
  /\ \A j \in 1 .. Len(stack) : stack[j].kid # 0 => B[j] = After(stack[j], j, B[j - 1])

ToGo(X) == Written \o X = Rendering(tree, format)

Renders(B) ==
  /\ pc = "value" /\ item # 0 => ToGo(ItemOf(item, depth) \o B[depth])
  /\ pc = "member" => ToGo(RestOf(Top.kid, InObject, depth) \o (Bracket(Top.item) \o B[depth - 1]))
  /\ pc = "tabs" => ToGo(<<<<"tabs", depth>>>> \o (<<<<"key", item>>>>
                         \o (<<<<"colon", item>>>> \o (ItemOf(item, depth) \o B[depth]))))
  /\ pc = "key" => ToGo(<<<<"key", item>>>>
                        \o (<<<<"colon", item>>>> \o (ItemOf(item, depth) \o B[depth])))
  /\ pc \in {"key_end", "colon"} => ToGo(<<<<"colon", item>>>> \o (ItemOf(item, depth) \o B[depth]))
  /\ pc \in {"value_end", "comma"} => ToGo(B[depth])
  /\ pc = "close" => ToGo(Bracket(Top.item) \o B[depth - 1])
  /\ pc \in {"shrink", "done"} => ToGo(<<>>)

RenderInv == \E B : Chain(B) /\ Renders(B)

(* One token more.                                                         *)
LEMMA Advance ==
  ASSUME NEW w \in Texts, NEW r \in Token, NEW c \in Texts
  PROVE  w \o (<<r>> \o c) = Append(w, r) \o c
<1>1. <<r>> \in Texts /\ Append(w, r) = w \o <<r>>
  BY TextFacts
<1> DEFINE s == <<r>>
<1>2. s \in Texts /\ Append(w, r) = w \o s
  BY <1>1
<1> HIDE DEF s
<1>3. (w \o s) \o c = w \o (s \o c)
  BY <1>2, TextFacts
<1> QED BY <1>2, <1>3 DEF s

LEMMA TokenFacts ==
  ASSUME NEW k \in Nat
  PROVE  \A w \in {"value", "open", "close", "tabs", "key", "colon", "comma"} : <<w, k>> \in Token
BY DEF Token

(* What is yet to be written are texts.                                    *)
LEMMA RestTypes ==
  ASSUME PrintTypeOK
  PROVE  /\ \A k \in 0 .. tree.items, b \in BOOLEAN, d \in Nat : RestOf(k, b, d) \in Texts
         /\ \A b \in BOOLEAN, d \in Nat : RestOf(0, b, d) = <<>>
         /\ \A k \in Items(tree), d \in Nat : ItemOf(k, d) \in Texts
<1>1. tree \in Trees /\ format \in BOOLEAN
  BY DEF PrintTypeOK
<1>2. tree.items \in Nat
  BY <1>1, LaterItems
<1>3. ASSUME NEW k \in 0 .. tree.items, NEW b \in BOOLEAN, NEW d \in Nat
      PROVE  RestOf(k, b, d) \in Texts
  <2>1. Members(tree, format)[k] \in Printed
    BY <1>1, MembersIs
  <2> QED BY <2>1 DEF RestOf, Printed
<1>4. ASSUME NEW b \in BOOLEAN, NEW d \in Nat PROVE RestOf(0, b, d) = <<>>
  BY <1>1, MembersIs, NoMembersType DEF RestOf
<1>5. ASSUME NEW k \in Items(tree), NEW d \in Nat PROVE ItemOf(k, d) \in Texts
  <2>1. tree.child[k] \in 0 .. tree.items /\ k \in Nat
    BY <1>1, LaterItems
  <2>2. Members(tree, format)[tree.child[k]] \in Printed
    BY <1>1, <2>1, MembersIs
  <2> QED BY <1>1, <2>1, <2>2, PieceTypes DEF ItemOf
<1> QED BY <1>3, <1>4, <1>5

(* What the members from k on print begins with what k prints.             *)
LEMMA RestUnfolds ==
  ASSUME PrintTypeOK, NEW k \in Items(tree), NEW b \in BOOLEAN, NEW d \in Nat
  PROVE  RestOf(k, b, d) = (IF b THEN KeyText(format, k, d) ELSE <<>>)
                           \o (ItemOf(k, d) \o (CommaText(tree, k, b) \o RestOf(tree.next[k], b, d)))
<1>1. tree \in Trees /\ format \in BOOLEAN
  BY DEF PrintTypeOK
<1>2. k \in Nat /\ tree.child[k] \in 0 .. tree.items /\ tree.next[k] \in 0 .. tree.items
  BY <1>1, LaterItems
<1>3. /\ Members(tree, format)[tree.child[k]] \in Printed
      /\ Members(tree, format)[tree.next[k]] \in Printed
      /\ Members(tree, format)[k] = MembersFrom(tree, format, k, Members(tree, format)[tree.child[k]],
                                                Members(tree, format)[tree.next[k]])
  BY <1>1, <1>2, MembersIs
<1> DEFINE kids == Members(tree, format)[tree.child[k]]
           rest == Members(tree, format)[tree.next[k]]
<1>4. /\ RestOf(k, b, d) = MembersFrom(tree, format, k, kids, rest)[b][d]
      /\ ItemOf(k, d) = ItemText(tree, k, d, kids) /\ RestOf(tree.next[k], b, d) = rest[b][d]
      /\ kids \in Printed /\ rest \in Printed
  BY <1>3 DEF RestOf, ItemOf
<1> HIDE DEF kids, rest
<1>5. MembersFrom(tree, format, k, kids, rest)[b][d]
        = (IF b THEN KeyText(format, k, d) ELSE <<>>)
          \o (ItemText(tree, k, d, kids) \o (CommaText(tree, k, b) \o rest[b][d]))
  <2>1. Unfolds(MembersFrom(tree, format, k, kids, rest), tree, format, k, kids, rest)
    BY <1>1, <1>2, <1>4, MembersFromType
  <2> QED BY <2>1, Zenon DEF Unfolds
<1> QED BY <1>4, <1>5

LEMMA AfterType ==
  ASSUME PrintTypeOK, NEW frame \in Frames, frame.kid # 0, NEW j \in Nat, NEW X \in Texts
  PROVE  After(frame, j, X) \in Texts /\ Bracket(frame.item) \in Texts
<1> DEFINE b == tree.type[frame.item] = "object"
<1>1. tree \in Trees /\ format \in BOOLEAN /\ b \in BOOLEAN
  BY DEF PrintTypeOK
<1>2. After(frame, j, X) = CommaText(tree, frame.kid, b)
                           \o (RestOf(tree.next[frame.kid], b, j) \o (Bracket(frame.item) \o X))
  BY DEF After
<1> HIDE DEF b
<1>3. frame.kid \in Items(tree) /\ frame.item \in Items(tree)
  BY <1>1, LaterItems DEF Frames
<1>4. frame.kid \in Nat /\ frame.item \in Nat /\ tree.next[frame.kid] \in 0 .. tree.items
  BY <1>1, <1>3, LaterItems
<1>5. Bracket(frame.item) \in Texts
  BY <1>4, TokenFacts, TextFacts DEF Bracket
<1>6. RestOf(tree.next[frame.kid], b, j) \in Texts
  BY <1>1, <1>4, RestTypes
<1>7. CommaText(tree, frame.kid, b) \in Texts
  <2>1. NoMembers \in Printed
    BY NoMembersType
  <2> QED BY <1>1, <1>4, <2>1, PieceTypes
<1> QED BY <1>2, <1>5, <1>6, <1>7, TextFacts

(* What comes after the values depends on the tree and the stack.          *)
LEMMA ChainSame ==
  ASSUME NEW B, Chain(B), UNCHANGED <<tree, format, stack>>
  PROVE  Chain(B)'
BY DEF Chain, After, RestOf, Bracket, Texts, Token

(* What is written next is the first token of what is to be written.       *)
LEMMA WroteToken ==
  ASSUME PrintTypeOK, TextInv, pc \notin {"key_end", "value_end"},
         NEW what \in Token, NEW needed, NEW size \in Nat, NEW nul \in {0, 1}, NEW advance,
         Put(what, needed, size, nul, advance),
         \/ nul = 1 /\ pc' \in {"key_end", "value_end"}
         \/ advance = size /\ pc' \in {"key", "value", "member"},
         NEW X \in Texts, ToGo(<<what>> \o X)
  PROVE  /\ TextInv' /\ tree' = tree /\ format' = format
         /\ Written' \o X = Rendering(tree, format)
<1>1. TextInv' /\ Written' = Append(Written, what)
  BY PutText
<1>2. Written \o (<<what>> \o X) = Rendering(tree, format)
  BY DEF ToGo
<1>3. Written \in Texts
  BY WrittenType
<1>4. Append(Written, what) \o X = Written \o (<<what>> \o X)
  BY <1>3, Advance
<1>5. tree' = tree /\ format' = format
  BY DEF Put
<1> QED BY <1>1, <1>2, <1>4, <1>5

(* A refused or failed ensure ends the text.                               *)
LEMMA FailedText ==
  ASSUME TextInv, RenderInv, pc \notin {"key_end", "value_end"}, pc' = "fail",
         UNCHANGED <<tree, format, stack, text, offset>>
  PROVE  TextInv' /\ RenderInv'
<1>1. TextInv'
  BY TextSame DEF Final
<1>2. PICK B : Chain(B)
  BY DEF RenderInv
<1>3. Chain(B)'
  BY <1>2, ChainSame
<1>4. Renders(B)'
  BY DEF Renders
<1> QED BY <1>1, <1>3, <1>4 DEF RenderInv

(* A writer of one token, after which only pc has moved on in the walk.    *)
LEMMA WriteText ==
  ASSUME PrintTypeOK, TextInv, RenderInv, pc \notin {"key_end", "value_end"},
         NEW what \in Token, NEW needed, NEW size \in Nat, NEW nul \in {0, 1}, NEW advance,
         NEW to \in {"value_end", "key", "key_end", "value"},
         \/ nul = 1 /\ to \in {"key_end", "value_end"}
         \/ advance = size /\ to \in {"key", "value"},
         NEW B, Chain(B), NEW X \in Texts, ToGo(<<what>> \o X),
         to = "value_end" => X = B[depth],
         to = "key" => X = <<<<"key", item>>>>
                           \o (<<<<"colon", item>>>> \o (ItemOf(item, depth) \o B[depth])),
         to = "key_end" => X = <<<<"colon", item>>>> \o (ItemOf(item, depth) \o B[depth]),
         to = "value" => X = ItemOf(item, depth) \o B[depth],
         Write(what, needed, size, nul, advance, to)
  PROVE  TextInv' /\ RenderInv'
<1>1. CASE EnsureFails(needed)
  <2>1. pc' = "fail" /\ UNCHANGED <<tree, format, stack, text, offset>>
    BY <1>1 DEF EnsureFails
  <2> QED BY <2>1, FailedText
<1>2. CASE Put(what, needed, size, nul, advance) /\ pc' = to /\ UNCHANGED <<item, stack, depth>>
  <2>1. /\ TextInv' /\ tree' = tree /\ format' = format
        /\ Written' \o X = Rendering(tree, format)
    BY <1>2, WroteToken
  <2>2. Chain(B)'
    BY <1>2, <2>1, ChainSame
  <2>3. Renders(B)'
    <3>1. ToGo(X)'
      BY <2>1 DEF ToGo
    <3>2. ItemOf(item, depth)' = ItemOf(item, depth)
      BY <1>2, <2>1 DEF ItemOf
    <3>3. CASE to = "value_end"
      BY <1>2, <3>1, <3>3 DEF Renders
    <3>4. CASE to = "key"
      BY <1>2, <3>1, <3>2, <3>4 DEF Renders
    <3>5. CASE to = "key_end"
      BY <1>2, <3>1, <3>2, <3>5 DEF Renders
    <3>6. CASE to = "value"
      BY <1>2, <3>1, <3>2, <3>6 DEF Renders
    <3> QED BY <3>3, <3>4, <3>5, <3>6
  <2> QED BY <2>1, <2>2, <2>3 DEF RenderInv
<1> QED BY <1>1, <1>2 DEF Write

(* What is written in one piece: a leaf, a key and what is around it.      *)
LEMMA LeafText ==
  ASSUME PrintInv, TextInv, RenderInv,
         PrintLiteral \/ PrintNumber \/ PrintString \/ Tabs \/ Key \/ Colon
  PROVE  TextInv' /\ RenderInv'
<1>1. /\ PrintTypeOK /\ format \in BOOLEAN /\ tree \in Trees
      /\ depth \in Nat /\ pc \in {"value", "tabs", "key", "colon"}
      /\ pc \in {"tabs", "key", "colon"} => item # 0
  <2>1. stack \in Seq(Frames) /\ depth = Len(stack)
    BY DEF PrintInv, PrintTypeOK, Frames
  <2> QED BY <2>1 DEF PrintInv, PrintTypeOK, WalkInv, PrintLiteral, PrintNumber, PrintString, Tabs,
             Key, Colon
<1>2. PICK B : Chain(B) /\ Renders(B)
  BY DEF RenderInv
<1> DEFINE X0 == B[depth]
           X1 == ItemOf(item, depth) \o X0
           X2 == <<<<"colon", item>>>> \o X1
           X3 == <<<<"key", item>>>> \o X2
<1>3. item # 0
  BY <1>1 DEF PrintLiteral, PrintNumber, PrintString, Type, Tabs, Key, Colon
<1>4. item \in Items(tree) /\ item \in Nat
  BY <1>1, <1>3, TreeShape, LaterItems
<1>5. X0 \in Texts
  BY <1>1, <1>2 DEF Chain
<1>6. ItemOf(item, depth) \in Texts
  BY <1>1, <1>4, RestTypes
<1>7. /\ <<"colon", item>> \in Token /\ <<"key", item>> \in Token /\ <<"value", item>> \in Token
      /\ <<"tabs", depth>> \in Token
  BY <1>1, <1>4, TokenFacts
<1>8. X1 \in Texts
  BY <1>5, <1>6, TextFacts
<1>9. X2 \in Texts
  <2>1. <<<<"colon", item>>>> \in Texts
    BY <1>7, TextFacts
  <2> HIDE DEF X1
  <2> QED BY <1>8, <2>1, TextFacts
<1>10. X3 \in Texts
  <2>1. <<<<"key", item>>>> \in Texts
    BY <1>7, TextFacts
  <2> HIDE DEF X2
  <2> QED BY <1>9, <2>1, TextFacts
<1>11. /\ pc = "value" => ToGo(X1)
       /\ pc = "tabs" => ToGo(<<<<"tabs", depth>>>> \o X3)
       /\ pc = "key" => ToGo(<<<<"key", item>>>> \o X2)
       /\ pc = "colon" => ToGo(<<<<"colon", item>>>> \o X1)
  BY <1>2, <1>3 DEF Renders
<1>12. /\ X1 = ItemOf(item, depth) \o B[depth]
       /\ X2 = <<<<"colon", item>>>> \o (ItemOf(item, depth) \o B[depth])
       /\ X3 = <<<<"key", item>>>> \o (<<<<"colon", item>>>> \o (ItemOf(item, depth) \o B[depth]))
       /\ X0 = B[depth]
  OBVIOUS
<1>13. ASSUME pc = "value", Type \notin Containers PROVE ToGo(<<<<"value", item>>>> \o X0)
  <2>1. ItemOf(item, depth) = <<<<"value", item>>>>
    BY <1>3, <1>13 DEF ItemOf, ItemText, Type
  <2> QED BY <1>11, <1>13, <2>1
<1> HIDE DEF X0, X1, X2, X3
<1>14. CASE PrintLiteral
  <2> DEFINE size == tree.value[item]
  <2>1. /\ pc = "value" /\ Type = "literal"
        /\ Write(<<"value", item>>, size + 1, size, 1, 0, "value_end")
    BY <1>14 DEF PrintLiteral
  <2> HIDE DEF size
  <2>2. size \in Nat
    BY <1>1, <1>3, <1>4, <2>1, TreeShape DEF size, Type
  <2>3. ToGo(<<<<"value", item>>>> \o X0)
    BY <1>13, <2>1 DEF Containers
  <2> QED BY <1>1, <1>2, <1>5, <1>7, <1>12, <2>1, <2>2, <2>3, WriteText
<1>15. CASE PrintNumber
  <2> DEFINE size == tree.value[item]
  <2>1. /\ pc = "value" /\ Type = "number"
        /\ Write(<<"value", item>>, size + 1, size, 1, size, "value_end")
    BY <1>15 DEF PrintNumber
  <2> HIDE DEF size
  <2>2. size \in Nat
    BY <1>1, <1>3, <1>4, <2>1, TreeShape DEF size, Type
  <2>3. ToGo(<<<<"value", item>>>> \o X0)
    BY <1>13, <2>1 DEF Containers
  <2> QED BY <1>1, <1>2, <1>5, <1>7, <1>12, <2>1, <2>2, <2>3, WriteText
<1>16. CASE PrintString
  <2> DEFINE s == tree.value[item]
             size == Escaped(s) + 2
             needed == OutputLength(s) + 3
  <2>1. /\ pc = "value" /\ Type = "string"
        /\ Write(<<"value", item>>, needed, size, 1, 0, "value_end")
    BY <1>16 DEF PrintString
  <2>2. s \in Strings
    BY <1>1, <1>3, <1>4, <2>1, TreeShape DEF Type
  <2>3. size \in Nat
    BY <2>2, StringSizes
  <2> HIDE DEF s, size, needed
  <2>4. ToGo(<<<<"value", item>>>> \o X0)
    BY <1>13, <2>1 DEF Containers
  <2> QED BY <1>1, <1>2, <1>5, <1>7, <1>12, <2>1, <2>3, <2>4, WriteText
<1>17. CASE Tabs
  <2>1. pc = "tabs" /\ Write(<<"tabs", depth>>, depth, depth, 0, depth, "key")
    BY <1>17 DEF Tabs
  <2> QED BY <1>1, <1>2, <1>7, <1>10, <1>11, <1>12, <2>1, WriteText
<1>18. CASE Key
  <2> DEFINE s == tree.key[item]
             size == Escaped(s) + 2
             needed == OutputLength(s) + 3
  <2>1. pc = "key" /\ Write(<<"key", item>>, needed, size, 1, 0, "key_end")
    BY <1>18 DEF Key
  <2>2. s \in Strings
    BY <1>1, <1>4, TreeShape
  <2>3. size \in Nat
    BY <2>2, StringSizes
  <2> HIDE DEF s, size, needed
  <2> QED BY <1>1, <1>2, <1>7, <1>9, <1>11, <1>12, <2>1, <2>3, WriteText
<1>19. CASE Colon
  <2> DEFINE size == Pretty(2, 1)
  <2>1. pc = "colon" /\ Write(<<"colon", item>>, size, size, 0, size, "value")
    BY <1>19 DEF Colon
  <2>2. size \in Nat
    BY <1>1 DEF Pretty
  <2> HIDE DEF size
  <2> QED BY <1>1, <1>2, <1>7, <1>8, <1>11, <1>12, <2>1, <2>2, WriteText
<1> QED BY <1>14, <1>15, <1>16, <1>17, <1>18, <1>19

(* The NUL is where the last token ends.                                   *)
LEMMA EndText ==
  ASSUME PrintInv, TextInv, RenderInv, KeyEnd \/ ValueEnd
  PROVE  TextInv' /\ RenderInv'
<1>1. /\ pc \in {"key_end", "value_end"} /\ offset' = end
      /\ UNCHANGED <<tree, format, item, stack, depth, text, end>>
      /\ \/ pc = "key_end" /\ pc' = "colon"
         \/ pc = "value_end" /\ pc' = "shrink" /\ stack = <<>>
         \/ pc = "value_end" /\ pc' = "comma"
  BY DEF KeyEnd, ValueEnd, UpdateOffset
<1>2. TextInv' /\ Written' = Written
  BY <1>1, TextSame DEF Final
<1>3. PICK B : Chain(B) /\ Renders(B)
  BY DEF RenderInv
<1>4. Chain(B)'
  BY <1>1, <1>3, ChainSame
<1>5. /\ \A X : ToGo(X)' <=> ToGo(X)
      /\ ItemOf(item, depth)' = ItemOf(item, depth)
  BY <1>1, <1>2 DEF ToGo, ItemOf
<1>6. pc' = "shrink" => B[depth] = <<>>
  BY <1>1, <1>3 DEF Chain, PrintInv, PrintTypeOK
<1>7. Renders(B)'
  <2>1. CASE pc = "key_end" /\ pc' = "colon"
    BY <1>1, <1>3, <1>5, <2>1 DEF Renders
  <2>2. CASE pc = "value_end" /\ pc' = "shrink"
    <3>1. ToGo(<<>>)
      BY <1>3, <1>6, <2>2 DEF Renders
    <3> QED BY <1>5, <2>2, <3>1 DEF Renders
  <2>3. CASE pc = "value_end" /\ pc' = "comma"
    BY <1>1, <1>3, <1>5, <2>3 DEF Renders
  <2> QED BY <1>1, <2>1, <2>2, <2>3
<1> QED BY <1>2, <1>4, <1>7 DEF RenderInv

(* The beginning and the ends of cJSON_Print.                              *)
LEMMA FrameText ==
  ASSUME PrintInv, TextInv, RenderInv,
         Start \/ StartFails \/ PrintNothing \/ Shrink \/ ShrinkFails \/ Fail \/ UNCHANGED vars
  PROVE  TextInv' /\ RenderInv'
<1>1. /\ UNCHANGED <<tree, format, stack, depth, text, offset, end>>
      /\ tree \in Trees /\ depth = Len(stack)
  BY DEF Start, StartFails, PrintNothing, Shrink, ShrinkFails, Fail, vars, printbuffer, PrintInv,
     PrintTypeOK
<1>2. PICK B : Chain(B) /\ Renders(B)
  BY DEF RenderInv
<1>3. Chain(B)'
  BY <1>1, <1>2, ChainSame
<1>4. CASE Start
  <2>1. /\ pc = "start" /\ pc' = "value" /\ stack = <<>> /\ text = <<>>
        /\ item' = IF tree.items = 0 THEN 0 ELSE 1
    BY <1>4 DEF Start, PrintInv, BufferInv, TextInv
  <2>2. TextInv' /\ Written' = Written
    BY <1>1, <2>1, TextSame DEF Final
  <2>3. depth = 0 /\ B[0] = <<>>
    BY <1>1, <1>2, <2>1 DEF Chain
  <2>4. Written = <<>>
    BY <2>1 DEF Written
  <2>5. ASSUME tree.items # 0 PROVE (ToGo(ItemOf(item, depth) \o B[depth]))'
    <3>1. item' = 1 /\ 1 \in Items(tree) /\ 0 \in Nat
      BY <1>1, <2>1, <2>5, LaterItems
    <3>2. ItemOf(1, 0) \in Texts
      BY <3>1, RestTypes DEF PrintInv
    <3>3. ItemOf(1, 0) = Rendering(tree, format)
      BY DEF ItemOf, Rendering
    <3>4. <<>> \o (ItemOf(1, 0) \o <<>>) = Rendering(tree, format)
      BY <3>2, <3>3, TextFacts
    <3>5. ItemOf(item, depth)' = ItemOf(1, 0)
      BY <1>1, <2>3, <3>1 DEF ItemOf
    <3> QED BY <1>1, <2>2, <2>3, <2>4, <3>4, <3>5 DEF ToGo
  <2>6. Renders(B)'
    BY <2>1, <2>5 DEF Renders
  <2> QED BY <1>3, <2>2, <2>6 DEF RenderInv
<1>5. CASE StartFails \/ PrintNothing \/ ShrinkFails \/ Fail
  <2>1. pc \in {"start", "value", "shrink", "fail"} /\ pc' \in {"fail", "failed"}
    BY <1>5 DEF StartFails, PrintNothing, ShrinkFails, Fail
  <2>2. TextInv'
    BY <1>1, <2>1, TextSame DEF Final
  <2>3. Renders(B)'
    BY <2>1 DEF Renders
  <2> QED BY <1>3, <2>2, <2>3 DEF RenderInv
<1>6. CASE Shrink
  <2>1. pc = "shrink" /\ pc' = "done"
    BY <1>6 DEF Shrink
  <2>2. TextInv' /\ Written' = Written
    BY <1>1, <2>1, TextSame DEF Final, TextInv
  <2>3. ToGo(<<>>)'
    BY <1>1, <1>2, <2>1, <2>2 DEF Renders, ToGo
  <2>4. Renders(B)'
    BY <2>1, <2>3 DEF Renders
  <2> QED BY <1>3, <2>2, <2>4 DEF RenderInv
<1>7. CASE UNCHANGED vars
  <2>1. /\ UNCHANGED <<pc, item, stack, depth>>
        /\ \A X : ToGo(X)' <=> ToGo(X)
    BY <1>1, <1>7 DEF vars, printbuffer, ToGo, Written
  <2>2. TextInv'
    BY <1>1, <2>1 DEF TextInv, Final, Pieces, Token
  <2>3. /\ ItemOf(item, depth)' = ItemOf(item, depth)
        /\ RestOf(Top.kid, InObject, depth)' = RestOf(Top.kid, InObject, depth)
        /\ Bracket(Top.item)' = Bracket(Top.item)
    BY <1>1, <2>1 DEF ItemOf, RestOf, Bracket, Top, InObject
  <2>4. Renders(B)'
    BY <1>1, <1>2, <2>1, <2>3 DEF Renders
  <2> QED BY <1>3, <2>2, <2>4 DEF RenderInv
<1> QED BY <1>4, <1>5, <1>6, <1>7

(* The frame on top and the texts around it.                               *)
LEMMA TopTexts ==
  ASSUME PrintTypeOK, stack # <<>>, NEW B, Chain(B)
  PROVE  /\ depth \in Nat /\ depth > 0 /\ depth - 1 \in Nat /\ depth = Len(stack)
         /\ Top = stack[depth] /\ Top \in Frames
         /\ Top.item \in Items(tree) /\ Top.item \in Nat /\ Top.kid \in 0 .. tree.items
         /\ B[depth] \in Texts /\ B[depth - 1] \in Texts
         /\ Bracket(Top.item) \in Texts /\ <<"close", Top.item>> \in Token
         /\ Top.kid # 0 => Top.kid \in Items(tree) /\ Top.kid \in Nat
                           /\ B[depth] = After(Top, depth, B[depth - 1])
<1>1. /\ depth \in Nat /\ depth > 0 /\ depth = Len(stack) /\ Top = stack[depth]
      /\ Top.item \in Items(tree) /\ Top.kid \in 0 .. tree.items
  BY TopFacts DEF PrintTypeOK
<1>2. Top \in Frames
  <2> DEFINE F == Frames
  <2>1. stack \in Seq(F)
    BY DEF F, Frames, PrintTypeOK
  <2> HIDE DEF F
  <2>2. stack[depth] \in F
    BY <1>1, <2>1
  <2> QED BY <1>1, <2>2 DEF F
<1>3. /\ tree \in Trees /\ depth - 1 \in Nat /\ depth \in 1 .. Len(stack)
  BY <1>1 DEF PrintTypeOK
<1>4. /\ Top.item \in Nat /\ Items(tree) = 1 .. tree.items /\ tree.items \in Nat
  BY <1>1, <1>3, LaterItems
<1>5. B[depth] \in Texts /\ B[depth - 1] \in Texts
  BY <1>1, <1>3 DEF Chain
<1>6. <<"close", Top.item>> \in Token
  BY <1>4, TokenFacts
<1>7. Bracket(Top.item) \in Texts
  BY <1>6, TextFacts DEF Bracket
<1>8. Top.kid # 0 => B[depth] = After(Top, depth, B[depth - 1])
  BY <1>1, <1>3 DEF Chain
<1> HIDE DEF Top
<1>9. Top.kid # 0 => Top.kid \in Items(tree) /\ Top.kid \in Nat
  BY <1>1, <1>4
<1> QED BY <1>1, <1>2, <1>3, <1>4, <1>5, <1>6, <1>7, <1>8, <1>9

(* Five texts in a row, however they are put together.                     *)
Regrouped(p, q, r, s, x) == (p \o (q \o (r \o s))) \o x = p \o (q \o (r \o (s \o x)))

LEMMA Regroup ==
  ASSUME NEW p \in Texts, NEW q \in Texts, NEW r \in Texts, NEW s \in Texts, NEW x \in Texts
  PROVE  Regrouped(p, q, r, s, x)
<1>1. (r \o s) \o x = r \o (s \o x) /\ r \o s \in Texts
  BY TextFacts
<1> DEFINE u == r \o s
<1>2. (q \o u) \o x = q \o (u \o x) /\ q \o u \in Texts
  <2> HIDE DEF u
  <2>1. u \in Texts
    BY <1>1 DEF u
  <2> QED BY <2>1, TextFacts
<1> DEFINE v == q \o u
<1>3. (p \o v) \o x = p \o (v \o x)
  <2> HIDE DEF v
  <2>1. v \in Texts
    BY <1>2 DEF v
  <2> QED BY <2>1, TextFacts
<1> QED BY <1>1, <1>2, <1>3 DEF Regrouped

(* The members from the frame's own on: this one, and what comes after it. *)
LEMMA Unroll ==
  ASSUME PrintTypeOK, stack # <<>>, Top.kid # 0, NEW B, Chain(B)
  PROVE  RestOf(Top.kid, InObject, depth) \o (Bracket(Top.item) \o B[depth - 1])
           = (IF InObject THEN KeyText(format, Top.kid, depth) ELSE <<>>)
             \o (ItemOf(Top.kid, depth) \o B[depth])
<1> DEFINE k == Top.kid
           b == InObject
           d == depth
           p == IF b THEN KeyText(format, k, d) ELSE <<>>
           q == ItemOf(k, d)
           r == CommaText(tree, k, b)
           s == RestOf(tree.next[k], b, d)
           x == Bracket(Top.item) \o B[d - 1]
<1>1. /\ d \in Nat /\ k \in Items(tree) /\ k \in Nat /\ tree \in Trees
      /\ Bracket(Top.item) \in Texts /\ B[d - 1] \in Texts
      /\ B[d] = After(Top, d, B[d - 1])
  BY TopTexts DEF PrintTypeOK
<1>2. b \in BOOLEAN
  BY DEF InObject
<1>3. tree.next[k] \in 0 .. tree.items
  BY <1>1, LaterItems
<1>4. B[d] = r \o (s \o x)
  BY <1>1 DEF After, InObject
<1> HIDE DEF b, k, d
<1>5. q \in Texts /\ s \in Texts
  BY <1>1, <1>2, <1>3, RestTypes
<1>6. x \in Texts
  BY <1>1, TextFacts
<1>7. r \in Texts /\ p \in Texts
  <2>1. NoMembers \in Printed
    BY NoMembersType
  <2>2. r \in Texts /\ KeyText(format, k, d) \in Texts
    BY <1>1, <1>2, <2>1, PieceTypes
  <2> QED BY <2>2, TextFacts
<1>8. RestOf(k, b, d) = p \o (q \o (r \o s))
  BY <1>1, <1>2, RestUnfolds
<1> HIDE DEF p, q, r, s, x
<1>9. Regrouped(p, q, r, s, x)
  BY <1>5, <1>6, <1>7, Regroup
<1>10. RestOf(k, b, d) \o x = p \o (q \o B[d])
  BY <1>4, <1>8, <1>9 DEF Regrouped
<1> QED BY <1>10 DEF b, k, d, p, q, x

(* The loop goes to a member: a key if there is one, and the value.        *)
LEMMA MemberText ==
  ASSUME PrintInv, TextInv, RenderInv, Member
  PROVE  TextInv' /\ RenderInv'
<1>1. /\ PrintTypeOK /\ pc = "member" /\ stack # <<>> /\ item' = Top.kid
      /\ UNCHANGED <<tree, format, stack, depth, text, offset, end>>
      /\ pc' = IF Top.kid = 0 THEN "close" ELSE IF ~InObject THEN "value" ELSE Pretty("tabs", "key")
      /\ pc' \in {"close", "value", "tabs", "key"}
  BY DEF PrintInv, WalkInv, Member, printbuffer, Pretty
<1>2. TextInv' /\ Written' = Written
  BY <1>1, TextSame DEF Final
<1>3. PICK B : Chain(B) /\ Renders(B)
  BY DEF RenderInv
<1>4. Chain(B)'
  BY <1>1, <1>3, ChainSame
<1>5. /\ \A X : ToGo(X)' <=> ToGo(X)
      /\ \A k, d : ItemOf(k, d)' = ItemOf(k, d)
      /\ Bracket(Top.item)' = Bracket(Top.item)
  BY <1>1, <1>2 DEF ToGo, ItemOf, Bracket, Top
<1>6. ToGo(RestOf(Top.kid, InObject, depth) \o (Bracket(Top.item) \o B[depth - 1]))
  BY <1>1, <1>3 DEF Renders
<1>7. /\ Bracket(Top.item) \in Texts /\ B[depth - 1] \in Texts /\ B[depth] \in Texts
      /\ depth \in Nat /\ InObject \in BOOLEAN
      /\ Top.kid # 0 => Top.kid \in Items(tree) /\ Top.kid \in Nat
  BY <1>1, <1>3, TopTexts DEF InObject
<1> DEFINE k == Top.kid
<1>8. CASE k = 0
  <2>1. RestOf(k, InObject, depth) = <<>>
    <3> DEFINE b == InObject
    <3>1. b \in BOOLEAN
      BY <1>7
    <3> HIDE DEF b
    <3>2. RestOf(0, b, depth) = <<>>
      BY <1>1, <1>7, <3>1, RestTypes
    <3> QED BY <1>8, <3>2 DEF b
  <2> DEFINE x == Bracket(Top.item) \o B[depth - 1]
  <2>2. x \in Texts
    BY <1>7, TextFacts
  <2> HIDE DEF x
  <2>3. <<>> \o x = x
    BY <2>2, TextFacts
  <2>4. ToGo(x)
    BY <1>6, <2>1, <2>3 DEF x
  <2>5. pc' = "close"
    BY <1>1, <1>8
  <2>6. Renders(B)'
    BY <1>1, <1>5, <2>4, <2>5 DEF Renders, x
  <2> QED BY <1>2, <1>4, <2>6 DEF RenderInv
<1>9. CASE k # 0
  <2> DEFINE y == ItemOf(k, depth) \o B[depth]
  <2>1. ToGo((IF InObject THEN KeyText(format, k, depth) ELSE <<>>) \o y)
    BY <1>1, <1>3, <1>6, <1>9, Unroll
  <2>2. y \in Texts
    <3>1. ItemOf(k, depth) \in Texts
      BY <1>1, <1>7, <1>9, RestTypes
    <3> QED BY <1>7, <3>1, TextFacts
  <2>3. CASE ~InObject
    <3>1. ToGo(y) /\ pc' = "value"
      <4> HIDE DEF y, k
      <4>1. <<>> \o y = y
        BY <2>2, TextFacts
      <4> QED BY <1>1, <1>9, <2>1, <2>3, <4>1 DEF k
    <3>2. Renders(B)'
      BY <1>1, <1>5, <3>1 DEF Renders
    <3> QED BY <1>2, <1>4, <3>2 DEF RenderInv
  <2>4. CASE InObject
    <3>0. <<"key", k>> \in Token /\ <<"colon", k>> \in Token /\ <<"tabs", depth>> \in Token
      BY <1>7, <1>9, TokenFacts
    <3> DEFINE t == <<<<"tabs", depth>>>>
               u == <<<<"key", k>>>>
               v == <<<<"colon", k>>>>
               w == <<<<"key", k>>, <<"colon", k>>>>
    <3>1. t \in Texts /\ u \in Texts /\ v \in Texts /\ w \in Texts /\ w = u \o v
      BY <3>0, TextFacts
    <3>2. ToGo(((IF format THEN t ELSE <<>>) \o w) \o y) /\ pc' = Pretty("tabs", "key")
      BY <1>1, <1>9, <2>1, <2>4 DEF KeyText
    <3> HIDE DEF t, u, v, w, y, k
    <3>3. w \o y = u \o (v \o y)
      BY <2>2, <3>1, TextFacts
    <3>4. CASE format
      <4>1. (t \o w) \o y = t \o (w \o y)
        BY <2>2, <3>1, TextFacts
      <4>2. ToGo(t \o (u \o (v \o y))) /\ pc' = "tabs"
        BY <3>2, <3>3, <3>4, <4>1 DEF Pretty
      <4>3. Renders(B)'
        BY <1>1, <1>5, <4>2 DEF Renders, t, u, v, y, k
      <4> QED BY <1>2, <1>4, <4>3 DEF RenderInv
    <3>5. CASE ~format
      <4>1. <<>> \o w = w
        BY <3>1, TextFacts
      <4>2. ToGo(u \o (v \o y)) /\ pc' = "key"
        BY <3>2, <3>3, <3>5, <4>1 DEF Pretty
      <4>3. Renders(B)'
        BY <1>1, <1>5, <4>2 DEF Renders, u, v, y, k
      <4> QED BY <1>2, <1>4, <4>3 DEF RenderInv
    <3> QED BY <3>4, <3>5
  <2> QED BY <2>3, <2>4
<1> QED BY <1>8, <1>9

(* A bracket closes: what comes after it is what comes after a value of    *)
(* the frame below.                                                        *)
LEMMA CloseText ==
  ASSUME PrintInv, TextInv, RenderInv, Close
  PROVE  TextInv' /\ RenderInv'
<1> DEFINE size == IF InObject THEN Pretty(depth, 1) ELSE 1
           needed == IF InObject THEN Pretty(depth + 1, 2) ELSE 2
<1>1. PrintTypeOK /\ pc = "close" /\ stack # <<>> /\ format \in BOOLEAN
  BY DEF PrintInv, WalkInv, Close, PrintTypeOK
<1>2. PICK B : Chain(B) /\ Renders(B)
  BY DEF RenderInv
<1>3. /\ depth \in Nat /\ depth > 0 /\ depth = Len(stack)
      /\ B[depth - 1] \in Texts /\ <<"close", Top.item>> \in Token
  BY <1>1, <1>2, TopTexts
<1>4. size \in Nat
  BY <1>1, <1>3 DEF Pretty
<1>5. \/ /\ Put(<<"close", Top.item>>, needed, size, 1, 0)
         /\ stack' = Front(stack) /\ depth' = depth - 1 /\ pc' = "value_end"
      \/ EnsureFails(needed)
  BY DEF Close
<1> HIDE DEF size, needed
<1>6. CASE EnsureFails(needed)
  <2>1. pc' = "fail" /\ UNCHANGED <<tree, format, stack, text, offset>>
    BY <1>6 DEF EnsureFails
  <2> QED BY <1>1, <2>1, FailedText
<1>7. CASE /\ Put(<<"close", Top.item>>, needed, size, 1, 0)
           /\ stack' = Front(stack) /\ depth' = depth - 1 /\ pc' = "value_end"
  <2>1. ToGo(<<<<"close", Top.item>>>> \o B[depth - 1])
    BY <1>1, <1>2 DEF Renders, Bracket
  <2>2. TextInv' /\ tree' = tree /\ format' = format
        /\ Written' \o B[depth - 1] = Rendering(tree, format)
    BY <1>1, <1>3, <1>4, <1>7, <2>1, WroteToken
  <2>3. Chain(B)'
    <3>1. /\ Len(Front(stack)) = Len(stack) - 1
          /\ \A j \in 1 .. Len(stack) - 1 : Front(stack)[j] = stack[j]
      BY <1>1, TopFacts
    <3>2. \A f, j, X : After(f, j, X)' = After(f, j, X)
      BY <2>2 DEF After, RestOf, Bracket
    <3>3. ASSUME NEW j \in 1 .. Len(stack'), stack'[j].kid # 0
          PROVE  B[j] = After(stack'[j], j, B[j - 1])
      <4>1. j \in 1 .. Len(stack) - 1 /\ j \in 1 .. Len(stack)
        BY <1>3, <1>7, <3>1
      <4>2. stack'[j] = stack[j]
        BY <1>7, <3>1, <4>1
      <4> QED BY <1>2, <3>3, <4>1, <4>2 DEF Chain
    <3>4. B \in [Nat -> Texts] /\ B[0] = <<>> /\ Texts' = Texts
      BY <1>2 DEF Chain, Texts, Token
    <3> QED BY <3>2, <3>3, <3>4 DEF Chain
  <2>4. Renders(B)'
    <3>1. ToGo(B[depth])'
      BY <1>7, <2>2 DEF ToGo
    <3> QED BY <1>7, <3>1 DEF Renders
  <2> QED BY <2>2, <2>3, <2>4 DEF RenderInv
<1> QED BY <1>5, <1>6, <1>7

(* A chain for a stack whose top frame is new or has moved on.             *)
LEMMA ChainTop ==
  ASSUME PrintTypeOK, NEW B, Chain(B), UNCHANGED <<tree, format>>,
         NEW n \in Nat \ {0}, Len(stack') = n, NEW frame \in Frames, stack'[n] = frame,
         \A j \in 1 .. n : j < n => j \in 1 .. Len(stack) /\ stack'[j] = stack[j],
         n - 1 \in Nat
  PROVE  \E C : Chain(C)' /\ C[n - 1] = B[n - 1]
<1> DEFINE v == IF frame.kid # 0 THEN After(frame, n, B[n - 1]) ELSE <<>>
<1>1. B \in [Nat -> Texts] /\ B[0] = <<>> /\ Texts' = Texts
  BY DEF Chain, Texts, Token
<1>2. v \in Texts
  <2>1. B[n - 1] \in Texts
    BY <1>1
  <2> QED BY <2>1, AfterType, TextFacts
<1>3. \A f, j, X : After(f, j, X)' = After(f, j, X)
  BY DEF After, RestOf, Bracket
<1> HIDE DEF v
<1>4. PICK C : C = [B EXCEPT ![n] = v]
  OBVIOUS
<1>8. C \in [Nat -> Texts] /\ C[n] = v /\ \A j \in Nat : j # n => C[j] = B[j]
  BY <1>1, <1>2, <1>4
<1>5. C[0] = <<>> /\ C[n - 1] = B[n - 1]
  BY <1>1, <1>8
<1>6. ASSUME NEW j \in 1 .. n, stack'[j].kid # 0 PROVE C[j] = After(stack'[j], j, C[j - 1])
  <2>1. CASE j = n
    BY <1>5, <1>6, <1>8, <2>1 DEF v
  <2>2. CASE j < n
    <3>1. j \in 1 .. Len(stack) /\ stack'[j] = stack[j]
      BY <2>2
    <3>2. j \in Nat /\ j - 1 \in Nat /\ j # n /\ j - 1 # n
      BY <2>2
    <3>3. C[j] = B[j] /\ C[j - 1] = B[j - 1]
      BY <1>8, <3>2
    <3>4. B[j] = After(stack[j], j, B[j - 1])
      BY <1>6, <3>1 DEF Chain
    <3> QED BY <3>1, <3>3, <3>4
  <2> QED BY <1>6, <2>1, <2>2
<1>7. Chain(C)'
  BY <1>1, <1>3, <1>5, <1>6, <1>8 DEF Chain
<1> QED BY <1>5, <1>7

(* A bracket opens: its members and the closing bracket come next, then    *)
(* what comes after the item.                                              *)
LEMMA OpenText ==
  ASSUME PrintInv, TextInv, RenderInv, Open
  PROVE  TextInv' /\ RenderInv'
<1> DEFINE size == IF Type = "object" THEN Pretty(2, 1) ELSE 1
           needed == IF Type = "object" THEN size + 1 ELSE 1
           kid == tree.child[item]
           frame == [item |-> item, kid |-> kid]
           b == tree.type[item] = "object"
           n == depth + 1
<1>1. /\ PrintTypeOK /\ pc = "value" /\ format \in BOOLEAN /\ tree \in Trees
      /\ depth = Len(stack) /\ depth \in Nat /\ stack \in Seq(Frames)
      /\ item # 0 /\ Type = tree.type[item] /\ Type \in Containers
  <2>1. stack \in Seq(Frames) /\ depth = Len(stack)
    BY DEF PrintInv, PrintTypeOK, Frames
  <2>2. item # 0
    BY DEF Open, Type, Containers
  <2> QED BY <2>1, <2>2 DEF PrintInv, PrintTypeOK, Open, Type
<1>2. PICK B : Chain(B) /\ Renders(B)
  BY DEF RenderInv
<1>3. item \in Items(tree) /\ item \in Nat /\ kid \in 0 .. tree.items /\ frame \in Frames
  <2>1. item \in Items(tree)
    BY <1>1, TreeShape
  <2>2. item \in Nat /\ kid \in 0 .. tree.items
    BY <1>1, <2>1, LaterItems
  <2> QED BY <2>1, <2>2 DEF Frames
<1>4. size \in Nat /\ b \in BOOLEAN
  BY <1>1 DEF Pretty
<1>5. \/ /\ Put(<<"open", item>>, needed, size, 0, size)
         /\ stack' = Append(stack, frame)
         /\ depth' = n /\ pc' = "member" /\ UNCHANGED item
      \/ EnsureFails(needed)
  BY DEF Open
<1> HIDE DEF size, needed
<1>6. CASE EnsureFails(needed)
  <2>1. pc' = "fail" /\ UNCHANGED <<tree, format, stack, text, offset>>
    BY <1>6 DEF EnsureFails
  <2> QED BY <1>1, <2>1, FailedText
<1>7. CASE /\ Put(<<"open", item>>, needed, size, 0, size)
           /\ stack' = Append(stack, frame)
           /\ depth' = n /\ pc' = "member" /\ UNCHANGED item
  <2> DEFINE o == <<<<"open", item>>>>
             r == RestOf(kid, b, n)
             c == Bracket(item)
             x == B[depth]
             X == r \o (c \o x)
  <2>1. <<"open", item>> \in Token /\ <<"close", item>> \in Token
    BY <1>3, TokenFacts
  <2>2. /\ n \in Nat /\ n \in Nat \ {0} /\ n - 1 = depth /\ n - 1 \in Nat
        /\ o \in Texts /\ c \in Texts /\ x \in Texts
    <3>1. n \in Nat /\ n \in Nat \ {0} /\ n - 1 = depth /\ n - 1 \in Nat
      BY <1>1
    <3>2. o \in Texts /\ c \in Texts
      BY <2>1, TextFacts DEF Bracket
    <3>3. x \in Texts
      BY <1>1, <1>2 DEF Chain
    <3> QED BY <3>1, <3>2, <3>3
  <2>3. r \in Texts
    <3> HIDE DEF b, n, kid
    <3> QED BY <1>1, <1>3, <1>4, <2>2, RestTypes
  <2>4. ToGo((o \o (r \o c)) \o x)
    <3>1. ItemOf(item, depth) = o \o (r \o c)
      BY <1>1 DEF ItemOf, ItemText, RestOf, Bracket
    <3> QED BY <1>1, <1>2, <3>1 DEF Renders
  <2>5. X \in Texts /\ (o \o (r \o c)) \o x = o \o X
    <3> HIDE DEF o, r, c, x
    <3>1. (r \o c) \o x = r \o (c \o x) /\ r \o c \in Texts /\ c \o x \in Texts
      BY <2>2, <2>3, TextFacts
    <3> DEFINE u == r \o c
    <3>2. u \in Texts
      BY <3>1
    <3> HIDE DEF u
    <3>3. (o \o u) \o x = o \o (u \o x)
      BY <2>2, <3>2, TextFacts
    <3>4. (o \o (r \o c)) \o x = o \o X
      BY <3>1, <3>3 DEF u
    <3> DEFINE v == c \o x
    <3>5. v \in Texts
      BY <3>1
    <3> HIDE DEF v
    <3>6. r \o v \in Texts
      BY <2>3, <3>5, TextFacts
    <3> QED BY <3>4, <3>6 DEF v
  <2>6. ToGo(<<<<"open", item>>>> \o X)
    BY <2>4, <2>5
  <2>7. TextInv' /\ tree' = tree /\ format' = format
        /\ Written' \o X = Rendering(tree, format)
    <3> HIDE DEF X, o
    <3> QED BY <1>1, <1>4, <1>7, <2>1, <2>5, <2>6, WroteToken
  <2>8. /\ Len(stack') = n /\ stack'[n] = frame
        /\ \A j \in 1 .. n : j < n => j \in 1 .. Len(stack) /\ stack'[j] = stack[j]
    <3> DEFINE F == Frames
    <3>1. stack \in Seq(F) /\ frame \in F
      BY <1>1, <1>3
    <3> HIDE DEF F, frame
    <3> QED BY <1>1, <1>7, <3>1
  <2>9. PICK C : Chain(C)' /\ C[n - 1] = B[n - 1]
    <3> HIDE DEF frame, n
    <3> QED BY <1>1, <1>2, <1>3, <2>2, <2>7, <2>8, ChainTop
  <2>10. Renders(C)'
    <3>1. Top' = frame /\ frame.kid = kid /\ frame.item = item
      <4>1. Top' = stack'[Len(stack')]
        BY DEF Top, Last
      <4> QED BY <2>8, <4>1
    <3>2. /\ RestOf(Top.kid, InObject, depth)' = RestOf(kid, b, n)
          /\ Bracket(Top.item)' = Bracket(item)
      BY <1>7, <2>7, <3>1 DEF RestOf, InObject, Bracket
    <3>3. C[depth - 1]' = B[depth]
      BY <1>7, <2>2, <2>9
    <3>4. (ToGo(RestOf(Top.kid, InObject, depth) \o (Bracket(Top.item) \o C[depth - 1])))'
      BY <2>7, <3>2, <3>3 DEF ToGo
    <3> QED BY <1>7, <3>4 DEF Renders
  <2> QED BY <2>7, <2>9, <2>10 DEF RenderInv
<1> QED BY <1>5, <1>6, <1>7

(* Past a member: the comma, if there is to be one, and the others.        *)
LEMMA CommaTextStep ==
  ASSUME PrintInv, TextInv, RenderInv, Comma
  PROVE  TextInv' /\ RenderInv'
<1> DEFINE next == tree.next[Top.kid]
           more == IF next = 0 THEN 0 ELSE 1
           size == IF InObject THEN Pretty(1, 0) + more ELSE Pretty(2, 1)
           needed == size + 1
           n == depth
           b == InObject
           frame == [item |-> Top.item, kid |-> next]
<1>1. /\ PrintTypeOK /\ pc = "comma" /\ format \in BOOLEAN /\ tree \in Trees /\ stack # <<>>
      /\ \A j \in 1 .. Len(stack) : stack[j].kid # 0
  BY DEF PrintInv, PrintTypeOK, WalkInv, Comma
<1>2. PICK B : Chain(B) /\ Renders(B)
  BY DEF RenderInv
<1>3. /\ n \in Nat \ {0} /\ n \in Nat /\ n - 1 \in Nat /\ n = Len(stack) /\ Top = stack[n]
      /\ Top \in Frames /\ Top.item \in Items(tree)
      /\ Top.kid # 0 => Top.kid \in Items(tree) /\ Top.kid \in Nat /\ B[n] = After(Top, n, B[n - 1])
      /\ B[n - 1] \in Texts /\ Bracket(Top.item) \in Texts
  BY <1>1, <1>2, TopTexts
<1>4. Top.kid # 0
  BY <1>1, <1>3
<1>5. next \in 0 .. tree.items /\ frame \in Frames
  <2>1. next \in 0 .. tree.items
    BY <1>1, <1>3, <1>4, LaterItems
  <2> QED BY <1>3, <2>1 DEF Frames
<1>6. size \in Nat /\ b \in BOOLEAN
  BY <1>1 DEF Pretty, InObject
<1>7. \/ /\ b \/ next # 0
         /\ Put(<<"comma", Top.kid>>, needed, size, 1, size)
         /\ stack' = [stack EXCEPT ![n].kid = next]
         /\ pc' = "member" /\ depth' = n
      \/ EnsureFails(needed)
      \/ /\ ~b /\ next = 0
         /\ stack' = [stack EXCEPT ![n].kid = next]
         /\ pc' = "member"
         /\ UNCHANGED <<tree, format, depth, text, offset, end>>
  BY <1>3 DEF Comma, printbuffer
<1> DEFINE r == RestOf(next, b, n)
           x == Bracket(Top.item) \o B[n - 1]
           X == r \o x
<1>8. ToGo(CommaText(tree, Top.kid, b) \o X) /\ X \in Texts
  <2>1. B[n] = CommaText(tree, Top.kid, b) \o X
    BY <1>3, <1>4 DEF After, InObject
  <2>2. r \in Texts
    <3> HIDE DEF b, next, n
    <3> QED BY <1>1, <1>3, <1>5, <1>6, RestTypes
  <2>3. x \in Texts
    BY <1>3, TextFacts
  <2>4. X \in Texts
    <3> HIDE DEF r, x
    <3> QED BY <2>2, <2>3, TextFacts
  <2>5. ToGo(B[n])
    BY <1>1, <1>2 DEF Renders
  <2> QED BY <2>1, <2>4, <2>5
<1> HIDE DEF size, needed, X
<1>9. ASSUME stack' = [stack EXCEPT ![n].kid = next], pc' = "member", depth' = n,
             tree' = tree, format' = format, TextInv',
             Written' \o X = Rendering(tree, format)
      PROVE  TextInv' /\ RenderInv'
  <2>1. /\ Len(stack') = n /\ stack'[n] = frame
        /\ \A j \in 1 .. n : j < n => j \in 1 .. Len(stack) /\ stack'[j] = stack[j]
    <3> DEFINE F == Frames
    <3>1. stack \in Seq(F) /\ n \in 1 .. Len(stack)
      BY <1>1, <1>3 DEF PrintTypeOK, Frames
    <3>2. [Top EXCEPT !.kid = next] = frame
      BY <1>3 DEF Frames
    <3>3. stack' = [stack EXCEPT ![n] = frame]
      BY <1>3, <1>9, <3>2
    <3> HIDE DEF F, frame
    <3> QED BY <1>3, <3>1, <3>3
  <2>2. PICK C : Chain(C)' /\ C[n - 1] = B[n - 1]
    <3> HIDE DEF frame, n
    <3> QED BY <1>1, <1>2, <1>3, <1>5, <1>9, <2>1, ChainTop
  <2>3. Renders(C)'
    <3>1. Top' = frame /\ frame.kid = next /\ frame.item = Top.item
      <4>1. Top' = stack'[Len(stack')]
        BY DEF Top, Last
      <4> QED BY <2>1, <4>1
    <3>2. /\ RestOf(Top.kid, InObject, depth)' = RestOf(next, b, n)
          /\ Bracket(Top.item)' = Bracket(Top.item)
      BY <1>9, <3>1 DEF RestOf, InObject, Bracket
    <3>3. C[depth - 1]' = B[n - 1]
      BY <1>9, <2>2
    <3>4. (ToGo(RestOf(Top.kid, InObject, depth) \o (Bracket(Top.item) \o C[depth - 1])))'
      BY <1>9, <3>2, <3>3 DEF ToGo, X
    <3> QED BY <1>9, <3>4 DEF Renders
  <2> QED BY <1>9, <2>2, <2>3 DEF RenderInv
<1>10. CASE EnsureFails(needed)
  <2>1. pc' = "fail" /\ UNCHANGED <<tree, format, stack, text, offset>>
    BY <1>10 DEF EnsureFails
  <2> QED BY <1>1, <2>1, FailedText
<1>11. CASE /\ b \/ next # 0
            /\ Put(<<"comma", Top.kid>>, needed, size, 1, size)
            /\ stack' = [stack EXCEPT ![n].kid = next]
            /\ pc' = "member" /\ depth' = n
  <2>1. <<"comma", Top.kid>> \in Token
    BY <1>3, <1>4, TokenFacts
  <2>2. ToGo(<<<<"comma", Top.kid>>>> \o X)
    BY <1>8, <1>11 DEF CommaText
  <2>3. TextInv' /\ tree' = tree /\ format' = format
        /\ Written' \o X = Rendering(tree, format)
    BY <1>1, <1>6, <1>8, <1>11, <2>1, <2>2, WroteToken
  <2> QED BY <1>9, <1>11, <2>3
<1>12. CASE /\ ~b /\ next = 0
            /\ stack' = [stack EXCEPT ![n].kid = next]
            /\ pc' = "member"
            /\ UNCHANGED <<tree, format, depth, text, offset, end>>
  <2>1. TextInv' /\ Written' = Written
    BY <1>1, <1>12, TextSame DEF Final
  <2>2. <<>> \o X = X
    BY <1>8, TextFacts
  <2>3. ToGo(X)
    BY <1>8, <1>12, <2>2 DEF CommaText
  <2> QED BY <1>9, <1>12, <2>1, <2>3 DEF ToGo
<1> QED BY <1>7, <1>10, <1>11, <1>12

(* Only Shrink ends the walk, and it cuts the block to the text.           *)
DoneInv == pc = "done" => length = offset + 1

LEMMA DoneNext == DoneInv /\ [PrintNext]_vars => DoneInv'
<1> SUFFICES ASSUME DoneInv, [PrintNext]_vars, pc' = "done"
             PROVE  length' = offset' + 1
  BY DEF DoneInv
<1>1. CASE Shrink
  BY <1>1 DEF Shrink
<1>2. CASE UNCHANGED vars
  BY <1>2 DEF vars, printbuffer, DoneInv
<1>3. ~(\/ Start \/ StartFails \/ PrintNothing \/ Open \/ Member \/ KeyEnd \/ ValueEnd
       \/ Comma \/ Close \/ ShrinkFails \/ Fail)
  BY DEF Start, StartFails, PrintNothing, Open, Member, KeyEnd, ValueEnd, UpdateOffset,
         Comma, Close, ShrinkFails, Fail, EnsureFails, Pretty
<1>4. ~(PrintLiteral \/ PrintNumber \/ PrintString \/ Tabs \/ Key \/ Colon)
  BY DEF PrintLiteral, PrintNumber, PrintString, Tabs, Key, Colon, Write, EnsureFails
<1> QED BY <1>1, <1>2, <1>3, <1>4 DEF PrintNext

(* The inductive invariant.                                                *)
PrintedInv == PrintInv /\ TextInv /\ RenderInv /\ DoneInv

LEMMA PrintedNext == PrintedInv /\ [PrintNext]_vars => PrintedInv'
<1> SUFFICES ASSUME PrintInv, TextInv, RenderInv, DoneInv, [PrintNext]_vars
             PROVE  PrintInv' /\ TextInv' /\ RenderInv' /\ DoneInv'
  BY DEF PrintedInv
<1>1. TextInv' /\ RenderInv'
  BY LeafText, OpenText, MemberText, EndText, CommaTextStep, CloseText, FrameText DEF PrintNext
<1> QED BY <1>1, PrintNextInv, DoneNext

LEMMA PrintedInit == PrintInit => PrintedInv
<1> SUFFICES ASSUME PrintInit PROVE PrintedInv
  OBVIOUS
<1>1. pc = "start" /\ text = <<>> /\ stack = <<>>
  BY DEF PrintInit
<1>2. TextInv
  BY <1>1 DEF TextInv
<1>3. Chain([n \in Nat |-> <<>>])
  BY <1>1, TextFacts DEF Chain
<1>4. Renders([n \in Nat |-> <<>>])
  BY <1>1 DEF Renders
<1> QED BY <1>1, <1>2, <1>3, <1>4, PrintInitInv DEF RenderInv, DoneInv, PrintedInv

(* For every tree, format and size of its strings: what cJSON_Print        *)
(* returns is the whole text of the tree, without a gap, in a block of     *)
(* exactly its length, although half of its writers leave the offset to    *)
(* update_offset.                                                          *)
THEOREM PrintedCorrect == PrintSpec => []PrintsTheTree
<1>1. PrintedInv => PrintsTheTree
  <2> SUFFICES ASSUME PrintInv, TextInv, RenderInv, DoneInv, pc = "done"
               PROVE  /\ Written = Rendering(tree, format)
                      /\ \A j \in 1 .. Len(text) :
                           text[j].at + text[j].size
                             = (IF j = Len(text) THEN offset ELSE text[j + 1].at)
                      /\ end = offset /\ length = offset + 1 /\ depth = 0
    BY DEF PrintedInv, PrintsTheTree, Written
  <2>1. PICK B : Renders(B)
    BY DEF RenderInv
  <2>2. Written \o <<>> = Rendering(tree, format)
    BY <2>1 DEF Renders, ToGo
  <2>3. Written \in Texts
    BY WrittenType
  <2>4. Written = Rendering(tree, format)
    BY <2>2, <2>3, TextFacts
  <2>5. /\ end = offset /\ stack = <<>> /\ Final = offset
        /\ \A j \in 1 .. Len(text) :
             text[j].at + text[j].size = IF j = Len(text) THEN Final ELSE text[j + 1].at
    BY DEF TextInv, Final
  <2>6. depth = 0
    BY <2>5 DEF PrintInv, PrintTypeOK
  <2>7. length = offset + 1
    BY DEF DoneInv
  <2> QED BY <2>4, <2>5, <2>6, <2>7
<1> QED BY <1>1, PrintedInit, PrintedNext, PTL DEF PrintSpec
=============================================================================
