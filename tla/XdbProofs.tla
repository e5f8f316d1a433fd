------------------------------ MODULE XdbProofs ------------------------------
(***************************************************************************)
(* Proofs about XdbSearch: for parts of any size, any database whose cells *)
(* are sorted and any texts, the parser takes exactly the texts that are   *)
(* addresses, for their value; the binary search never loses the block     *)
(* that holds the address, its probes for such an address stay inside the  *)
(* address's cell, and a lookup that succeeds gives that block's region.   *)
(*                                                                         *)
(* The loop invariant of the search is BlockIsBetween, that of the parser  *)
(* ParsedParts: i counts the characters read that are no digits, n is the  *)
(* value of the digits since the last of them, and ip that of the parts    *)
(* before.  XdbInv adds what they rest on: ip stays below the weight of    *)
(* the parts read (it has a cell at all), the bounds stay inside the cell  *)
(* and the block after it, what the search has found is a block of the     *)
(* cell, and ip is the text's address until the verdict.                   *)
(*                                                                         *)
(* Value is a recursive function: what it obeys is proved by looking at    *)
(* the least number for which it would not.                                *)
(***************************************************************************)
EXTENDS XdbSearch, FiniteSetTheorems, WellFoundedInduction, TLAPS

(* While the text is parsed: the parts read so far fit their places.       *)
ParseBounds ==
  pc = "parse" =>
    /\ ptr \in 1 .. Len(text) /\ i \in 0 .. 3
    /\ (i = 0 => ip = 0) /\ (i = 1 => ip < Radix)
    /\ (i = 2 => ip < Square) /\ (i = 3 => ip < Square * Radix)

SearchBounds ==
  /\ pc \in {"search", "copy"} => ready
  /\ pc = "search" => h <= e_ptr - s_ptr

FoundHolds ==
  pc = "copy" => /\ Holds(file, found, ip)
                 /\ HasBlocks(file, ip) => found \in InCell(file, CellOf(ip))

(* The parts read so far, what n has of the next one, and what ip has of   *)
(* the address.                                                            *)
ParsedParts ==
  pc = "parse" =>
    /\ Cardinality(NonDigits(text, ptr - 1)) = i
    /\ Begin(text, i + 1) \in 1 .. ptr
    /\ n = Value(text, Begin(text, i + 1), ptr - 1)
    /\ \A k \in 1 .. i : text[End(text, k)] = DOT /\ Part(text, k) \in 0 .. Octet
    /\ i = 1 => ip = Part(text, 1)
    /\ i = 2 => ip = Part(text, 1) * Radix + Part(text, 2)
    /\ i = 3 => ip = (Part(text, 1) * Radix + Part(text, 2)) * Radix + Part(text, 3)

(* What is searched for, and found, is the address that the text writes.   *)
AddressKnown ==
  pc \in {"locate", "search", "copy"} \/ (pc = "answer" /\ ret = 0) =>
    IsAddress(text) /\ ip = AddressOf(text)

XdbInv ==
  /\ XdbTypeOK /\ ParseBounds /\ SearchBounds
  /\ BlockIsBetween /\ FoundHolds /\ SearchIsRight
  /\ ParsedParts /\ AddressKnown /\ ParseIsRight /\ LookupIsRight

(* A product grows with each of its factors.                               *)
LEMMA ProductGrows ==
  ASSUME NEW a \in Nat, NEW b \in Nat, NEW c \in Nat, a <= b
  PROVE  a * c <= b * c /\ c * a <= c * b /\ a * c \in Nat
<1>1. PICK d \in Nat : b = a + d
  <2> WITNESS b - a \in Nat
  <2> QED OBVIOUS
<1>2. (a + d) * c = a * c + d * c /\ d * c \in Nat /\ a * c \in Nat
  OBVIOUS
<1>3. a * c = c * a /\ b * c = c * b
  OBVIOUS
<1> QED BY <1>1, <1>2, <1>3

LEMMA Sizes ==
  /\ Radix \in Nat /\ Radix > 0 /\ Square \in Nat /\ Square > 0
  /\ Square * Radix \in Nat /\ Square * Square \in Nat
  /\ Radix <= Square /\ Square <= Square * Radix
  /\ Square * Radix * Radix = Square * Square
  /\ Square * Radix <= Square * Square
<1>1. Radix \in Nat /\ Radix > 0
  BY SizesAssumption DEF Radix
<1>2. Square \in Nat /\ Radix <= Square
  BY <1>1, ProductGrows DEF Square
<1>3. Square * Radix \in Nat /\ Square * Square \in Nat /\ Square * 1 = Square
  BY <1>1, <1>2
<1>4. Square <= Square * Radix /\ Square * Radix <= Square * Square
  BY <1>1, <1>2, <1>3, ProductGrows
<1>5. Square * Radix * Radix = Square * Square
  BY <1>1 DEF Square
<1> QED BY <1>1, <1>2, <1>3, <1>4, <1>5

(* Every address has a cell.                                               *)
LEMMA CellExists == ASSUME NEW a \in IPs PROVE CellOf(a) \in Cells
<1> DEFINE q == a \div Square
<1>1. a \in Nat /\ a < Square * Square
  BY Sizes DEF IPs
<1>2. q \in Int /\ Square * q <= a /\ a < Square * q + Square
  BY <1>1, Sizes
<1>3. q >= 0
  BY <1>1, <1>2, Sizes
<1>4. ~ q >= Square
  <2> SUFFICES ASSUME q >= Square PROVE FALSE OBVIOUS
  <2> HIDE DEF q
  <2>1. q \in Nat
    BY <1>2, <1>3
  <2>2. Square * Square <= Square * q
    BY <2>1, Sizes, ProductGrows
  <2> QED BY <1>1, <1>2, <2>1, <2>2, Sizes
<1> QED BY <1>2, <1>3, <1>4, Sizes DEF CellOf, Cells

(* One part more: the value of four parts is an address.                   *)
LEMMA PartFits ==
  ASSUME NEW a \in Nat, NEW m \in 0 .. Octet, NEW w \in Nat, a < w
  PROVE  a * Radix + m < w * Radix /\ a * Radix + m \in Nat
<1>1. Radix \in Nat /\ m < Radix /\ w \in Nat /\ a + 1 <= w
  BY SizesAssumption DEF Radix
<1>2. (a + 1) * Radix <= w * Radix /\ a * Radix \in Nat
  BY <1>1, ProductGrows
<1>3. (a + 1) * Radix = a * Radix + Radix
  BY <1>1
<1> HIDE DEF Radix
<1> QED BY <1>1, <1>2, <1>3

-----------------------------------------------------------------------------
(* A text ends with its only NUL.                                          *)
LEMMA TextEnds ==
  ASSUME NEW t \in Texts
  PROVE  /\ Len(t) \in Nat /\ Len(t) > 0 /\ t[Len(t)] = NUL
         /\ \A j \in 1 .. Len(t) : t[j] \in 0 .. NUL
<1> DEFINE S == 0 .. NUL
<1>1. t \in Seq(S) /\ Len(t) > 0 /\ t[Len(t)] = NUL
  BY TextsAssumption
<1> HIDE DEF S
<1>2. Len(t) \in Nat /\ \A j \in 1 .. Len(t) : t[j] \in S
  BY <1>1
<1> QED BY <1>1, <1>2 DEF S

-----------------------------------------------------------------------------
(* The decimal numbers in a text: Value's function exists, and so obeys    *)
(* its recursion.                                                          *)

(* Every non-empty set of naturals has a least element.                    *)
LEMMA Least ==
  ASSUME NEW T \in SUBSET Nat, T # {}
  PROVE  \E m \in T : \A y \in T : m <= y
<1>1. IsWellFoundedOn(OpToRel(<, Nat), Nat)
  BY NatLessThanWellFounded
<1>2. PICK m \in T : \A y \in T : ~(<<y, m>> \in OpToRel(<, Nat))
  BY <1>1, WFMin
<1>3. \A y \in T : ~(y < m)
  BY <1>2 DEF OpToRel
<1> QED BY <1>3

(* The values of the digits of t from a on, up to each of the first m.     *)
IsValues(f, m, t, a) ==
  f = [j \in 0 .. m |-> IF j < a THEN 0 ELSE f[j - 1] * 10 + t[j]]

LEMMA ValuesExist ==
  ASSUME NEW t \in Texts, NEW a \in Nat \ {0}
  PROVE  \E f \in [0 .. Len(t) -> Nat] : IsValues(f, Len(t), t, a)
<1> DEFINE N == Len(t)
           T == {m \in 0 .. N : ~ \E f \in [0 .. m -> Nat] : IsValues(f, m, t, a)}
<1>1. N \in Nat /\ \A j \in 1 .. N : t[j] \in Nat
  BY TextEnds DEF NUL
<1> HIDE DEF N
<1>2. SUFFICES ASSUME T # {} PROVE FALSE
  <2>1. N \in 0 .. N BY <1>1
  <2>2. N \notin T BY <1>2
  <2>3. \E f \in [0 .. N -> Nat] : IsValues(f, N, t, a) BY <2>1, <2>2
  <2> QED BY <2>3 DEF N
<1>3. PICK m \in T : \A y \in T : m <= y
  <2>1. T \in SUBSET Nat BY <1>1
  <2> HIDE DEF T
  <2> QED BY <1>2, <2>1, Least
<1>4. m \in 0 .. N /\ ~ \E f \in [0 .. m -> Nat] : IsValues(f, m, t, a) BY <1>3
<1>5. CASE m = 0
  <2> DEFINE f == [j \in 0 .. m |-> 0]
  <2>1. f \in [0 .. m -> Nat] /\ IsValues(f, m, t, a) BY <1>5 DEF IsValues
  <2> QED BY <1>4, <2>1
<1>6. CASE m > 0
  <2>1. m - 1 \in 0 .. N /\ ~ m <= m - 1 BY <1>1, <1>4, <1>6
  <2>2. m - 1 \notin T
    <3> HIDE DEF T
    <3> QED BY <1>3, <2>1
  <2>3. PICK f \in [0 .. m - 1 -> Nat] : IsValues(f, m - 1, t, a) BY <2>1, <2>2
  <2> DEFINE last == IF m < a THEN 0 ELSE f[m - 1] * 10 + t[m]
             g == [j \in 0 .. m |-> IF j = m THEN last ELSE f[j]]
  <2>4. last \in Nat
    <3>1. f[m - 1] \in Nat /\ t[m] \in Nat BY <1>1, <1>4, <1>6
    <3> QED BY <3>1
  <2>5. g \in [0 .. m -> Nat]
    <3> HIDE DEF last
    <3> QED BY <1>1, <1>4, <1>6, <2>4
  <2>6. \A j \in 0 .. m - 1 : f[j] = IF j < a THEN 0 ELSE f[j - 1] * 10 + t[j]
    BY <2>3 DEF IsValues
  <2>7. \A j \in 0 .. m : g[j] = IF j < a THEN 0 ELSE g[j - 1] * 10 + t[j]
    <3> TAKE j \in 0 .. m
    <3>1. CASE j = m
      <4>1. g[j] = last /\ g[j - 1] = f[j - 1] BY <1>1, <1>4, <1>6, <3>1
      <4> QED BY <3>1, <4>1
    <3>2. CASE j # m
      <4>1. j \in 0 .. m - 1 /\ g[j] = f[j] BY <1>1, <1>4, <3>2
      <4>2. ~ j < a => g[j - 1] = f[j - 1] BY <1>1, <1>4, <4>1
      <4> QED BY <2>6, <4>1, <4>2
    <3> QED BY <3>1, <3>2
  <2>8. IsValues(g, m, t, a) BY <2>7 DEF IsValues
  <2> HIDE DEF g
  <2> QED BY <1>4, <2>5, <2>8
<1> QED BY <1>1, <1>4, <1>5, <1>6

(* One digit more makes ten times the value and the digit.                 *)
LEMMA ValueGrows ==
  ASSUME NEW t \in Texts, NEW a \in Nat \ {0}
  PROVE  /\ \A b \in 0 .. Len(t) : Value(t, a, b) \in Nat
         /\ \A b \in 0 .. Len(t) : b < a => Value(t, a, b) = 0
         /\ \A b \in 1 .. Len(t) : a <= b => Value(t, a, b) = Value(t, a, b - 1) * 10 + t[b]
<1> DEFINE val == CHOOSE val : val = [j \in 0 .. Len(t) |-> IF j < a THEN 0 ELSE val[j - 1] * 10 + t[j]]
<1>1. \A b : Value(t, a, b) = val[b]
  BY DEF Value
<1>2. PICK f \in [0 .. Len(t) -> Nat] : IsValues(f, Len(t), t, a)
  BY ValuesExist
<1>3. f = [j \in 0 .. Len(t) |-> IF j < a THEN 0 ELSE f[j - 1] * 10 + t[j]]
  BY <1>2 DEF IsValues
<1>4. val = [j \in 0 .. Len(t) |-> IF j < a THEN 0 ELSE val[j - 1] * 10 + t[j]]
  BY <1>3
<1> HIDE DEF val
<1>5. \A b \in 0 .. Len(t) : val[b] = IF b < a THEN 0 ELSE val[b - 1] * 10 + t[b]
  BY <1>4
<1>6. Len(t) \in Nat
  BY TextEnds
<1>7. val \in [0 .. Len(t) -> Nat]
  <2>1. DOMAIN val = 0 .. Len(t) /\ val = [j \in 0 .. Len(t) |-> val[j]]
    BY <1>4
  <2>2. \A b \in 0 .. Len(t) : val[b] \in Nat
    <3> DEFINE T == {b \in 0 .. Len(t) : val[b] \notin Nat}
    <3>1. SUFFICES ASSUME T # {} PROVE FALSE
      OBVIOUS
    <3>2. PICK m \in T : \A y \in T : m <= y
      <4>1. T \in SUBSET Nat OBVIOUS
      <4> HIDE DEF T
      <4> QED BY <3>1, <4>1, Least
    <3>3. m \in 0 .. Len(t) /\ val[m] \notin Nat
      BY <3>2
    <3>4. ~ m < a /\ val[m] = val[m - 1] * 10 + t[m]
      BY <1>5, <3>3
    <3>5. m - 1 \in 0 .. Len(t) /\ m \in 1 .. Len(t) /\ ~ m <= m - 1
      BY <1>6, <3>3, <3>4
    <3>6. t[m] \in Nat
      BY <3>5, TextEnds DEF NUL
    <3>7. m - 1 \notin T
      <4> HIDE DEF T
      <4> QED BY <3>2, <3>5
    <3>8. val[m - 1] \in Nat
      BY <3>5, <3>7
    <3> QED BY <3>3, <3>4, <3>6, <3>8
  <2> QED BY <2>1, <2>2
<1>8. \A b \in 0 .. Len(t) : b < a => Value(t, a, b) = 0
  BY <1>1, <1>5
<1>9. \A b \in 1 .. Len(t) : a <= b => Value(t, a, b) = Value(t, a, b - 1) * 10 + t[b]
  <2> TAKE b \in 1 .. Len(t)
  <2> HAVE a <= b
  <2>1. b \in 0 .. Len(t) /\ ~ b < a
    BY <1>6
  <2>2. val[b] = val[b - 1] * 10 + t[b]
    BY <1>5, <2>1
  <2> QED BY <1>1, <2>2
<1>10. \A b \in 0 .. Len(t) : Value(t, a, b) \in Nat
  BY <1>1, <1>7
<1> QED BY <1>8, <1>9, <1>10

-----------------------------------------------------------------------------
(* The parts of a text.                                                    *)

(* Reading one character more.                                             *)
LEMMA NonDigitsGrow ==
  ASSUME NEW t \in Texts, NEW e \in 1 .. Len(t)
  PROVE  /\ IsFiniteSet(NonDigits(t, e)) /\ Cardinality(NonDigits(t, e)) \in Nat
         /\ Cardinality(NonDigits(t, e - 1)) \in Nat
         /\ t[e] <= 9 => NonDigits(t, e) = NonDigits(t, e - 1)
         /\ t[e] > 9 => Cardinality(NonDigits(t, e)) = Cardinality(NonDigits(t, e - 1)) + 1
<1>1. Len(t) \in Nat /\ \A j \in 1 .. Len(t) : t[j] \in Nat
  BY TextEnds DEF NUL
<1>2. IsFiniteSet(1 .. e) /\ IsFiniteSet(1 .. e - 1)
  BY <1>1, FS_Interval
<1>3. /\ NonDigits(t, e) \in SUBSET (1 .. e) /\ NonDigits(t, e - 1) \in SUBSET (1 .. e - 1)
      /\ e \notin NonDigits(t, e - 1)
  BY <1>1 DEF NonDigits
<1>4. IsFiniteSet(NonDigits(t, e)) /\ IsFiniteSet(NonDigits(t, e - 1))
  BY <1>2, <1>3, FS_Subset
<1>5. Cardinality(NonDigits(t, e)) \in Nat /\ Cardinality(NonDigits(t, e - 1)) \in Nat
  BY <1>4, FS_CardinalityType
<1>6. t[e] <= 9 => NonDigits(t, e) = NonDigits(t, e - 1)
  BY <1>1 DEF NonDigits
<1>7. t[e] > 9 => NonDigits(t, e) = NonDigits(t, e - 1) \cup {e}
  BY <1>1 DEF NonDigits
<1>8. t[e] > 9 => Cardinality(NonDigits(t, e)) = Cardinality(NonDigits(t, e - 1)) + 1
  BY <1>3, <1>4, <1>7, FS_AddElement
<1> QED BY <1>4, <1>5, <1>6, <1>8

LEMMA NonDigitsMonotonic ==
  ASSUME NEW t \in Texts, NEW d \in 1 .. Len(t), NEW e \in 1 .. Len(t), d <= e
  PROVE  /\ Cardinality(NonDigits(t, d)) <= Cardinality(NonDigits(t, e))
         /\ d < e /\ t[e] > 9 => Cardinality(NonDigits(t, d)) < Cardinality(NonDigits(t, e))
<1>1. NonDigits(t, d) \in SUBSET NonDigits(t, e)
  BY TextEnds DEF NonDigits
<1>2. IsFiniteSet(NonDigits(t, e)) /\ IsFiniteSet(NonDigits(t, d))
      /\ Cardinality(NonDigits(t, e)) \in Nat /\ Cardinality(NonDigits(t, d)) \in Nat
  BY NonDigitsGrow
<1>3. /\ Cardinality(NonDigits(t, d)) <= Cardinality(NonDigits(t, e))
      /\ Cardinality(NonDigits(t, d)) = Cardinality(NonDigits(t, e)) => NonDigits(t, e) = NonDigits(t, d)
  BY <1>1, <1>2, FS_Subset
<1>4. d < e /\ t[e] > 9 => e \in NonDigits(t, e) /\ e \notin NonDigits(t, d)
  BY TextEnds DEF NonDigits
<1> QED BY <1>2, <1>3, <1>4

(* The k-th character that is no digit ends part k.                        *)
LEMMA EndIs ==
  ASSUME NEW t \in Texts, NEW e \in 1 .. Len(t), t[e] > 9
  PROVE  End(t, Cardinality(NonDigits(t, e))) = e
<1> DEFINE k == Cardinality(NonDigits(t, e))
           P(d) == t[d] > 9 /\ Cardinality(NonDigits(t, d)) = k
<1>1. \A d \in 1 .. Len(t) : P(d) => d = e
  <2> SUFFICES ASSUME NEW d \in 1 .. Len(t), P(d), d # e PROVE FALSE OBVIOUS
  <2>1. CASE d < e
    BY <2>1, NonDigitsMonotonic, NonDigitsGrow
  <2>2. CASE e < d
    BY <2>2, NonDigitsMonotonic, NonDigitsGrow
  <2>3. Len(t) \in Nat
    BY TextEnds
  <2> QED BY <2>1, <2>2, <2>3
<1>2. P(e)
  OBVIOUS
<1>3. End(t, k) = CHOOSE d \in 1 .. Len(t) : P(d)
  BY DEF End
<1> HIDE DEF P, k
<1>4. (CHOOSE d \in 1 .. Len(t) : P(d)) = e
  BY <1>1, <1>2
<1> QED BY <1>3, <1>4 DEF k

LEMMA XdbInitInv == XdbInit => XdbInv
<1> SUFFICES ASSUME XdbInit PROVE XdbInv OBVIOUS
<1> USE DEF XdbInit
<1>1. ptr \in 1 .. Len(text) + 1
  BY TextEnds
<1>2. 0 \in IPs
  BY Sizes DEF IPs
<1>3. /\ text \in Texts /\ i \in 0 .. 4 /\ n \in Nat /\ ip \in IPs
      /\ l \in Nat /\ h \in Int /\ ret \in Nat
  BY <1>2
<1>4. XdbTypeOK
  BY <1>1, <1>3 DEF XdbTypeOK
<1> QED
  BY <1>4 DEF XdbInv, ParseBounds, SearchBounds, BlockIsBetween, FoundHolds, SearchIsRight,
              ParsedParts, AddressKnown, ParseIsRight, LookupIsRight

(* The character that is read, and what it says of the position after it.  *)
LEMMA Character ==
  ASSUME XdbTypeOK, ParseBounds, pc = "parse"
  PROVE  /\ text[ptr] \in 0 .. NUL /\ Len(text) \in Nat
         /\ ptr + 1 \in 1 .. Len(text) + 1
         /\ text[ptr] # NUL => ptr + 1 \in 1 .. Len(text)
<1>1. text \in Texts /\ ptr \in 1 .. Len(text)
  BY DEF XdbTypeOK, ParseBounds
<1>2. /\ Len(text) \in Nat /\ text[Len(text)] = NUL
      /\ \A j \in 1 .. Len(text) : text[j] \in 0 .. NUL
  BY <1>1, TextEnds
<1> QED BY <1>1, <1>2

(* The end of a part brings ip within the weight of one part more.         *)
LEMMA PartInBounds ==
  ASSUME XdbTypeOK, ParseBounds, PartEnds
  PROVE  /\ ip' \in IPs
         /\ i = 0 => ip' < Radix
         /\ i = 1 => ip' < Square
         /\ i = 2 => ip' < Square * Radix
<1>1. /\ n \in 0 .. Octet /\ ip \in Nat /\ i \in 0 .. 3 /\ ip' = ip * Radix + n
      /\ (i = 0 => ip < 1) /\ (i = 1 => ip < Radix)
      /\ (i = 2 => ip < Square) /\ (i = 3 => ip < Square * Radix)
  BY SizesAssumption, Sizes DEF XdbTypeOK, ParseBounds, PartEnds, IPs
<1>2. 1 * Radix = Radix /\ Radix * Radix = Square
  BY Sizes DEF Square
<1>3. i = 0 => ip' < Radix /\ ip' \in Nat
  BY <1>1, <1>2, PartFits
<1>4. i = 1 => ip' < Square /\ ip' \in Nat
  BY <1>1, <1>2, PartFits, Sizes
<1>5. i = 2 => ip' < Square * Radix /\ ip' \in Nat
  BY <1>1, PartFits, Sizes
<1>6. i = 3 => ip' < Square * Square /\ ip' \in Nat
  BY <1>1, PartFits, Sizes
<1> HIDE DEF Radix, Square
<1>7. ip' \in Nat /\ ip' < Square * Square
  BY <1>1, <1>3, <1>4, <1>5, <1>6, Sizes
<1>8. Square * Square \in Nat
  BY Sizes
<1> QED BY <1>3, <1>4, <1>5, <1>7, <1>8 DEF IPs

(* The cell's pointers are numbers.                                        *)
LEMMA CellBounds ==
  ASSUME XdbTypeOK
  PROVE  /\ CellOf(ip) \in Cells
         /\ s_ptr \in Nat /\ e_ptr \in Nat /\ s_ptr <= e_ptr
         /\ Sorted(file, CellOf(ip)) /\ file.last \in Nat
         /\ \A k \in Blocks(file) : file.sip[k] \in Nat /\ file.eip[k] \in Nat /\ file.len[k] \in Nat
<1>1. CellOf(ip) \in Cells /\ file \in Files
  BY CellExists DEF XdbTypeOK
<1> QED BY <1>1, DatabaseAssumption DEF s_ptr, e_ptr

LEMMA XdbTypeStep ==
  ASSUME XdbInv, [XdbNext]_xdbVars PROVE XdbTypeOK'
<1> USE DEF XdbInv, XdbTypeOK, parseVars, searchVars
<1>1. CASE Load BY <1>1 DEF Load
<1>2. CASE LoadFails BY <1>2 DEF LoadFails
<1>3. CASE Call
  <2>1. 0 \in IPs
    BY Sizes DEF IPs
  <2>2. text' \in Texts /\ ptr' \in 1 .. Len(text') + 1
    BY <1>3, TextEnds DEF Call
  <2> QED BY <1>3, <2>1, <2>2 DEF Call
<1>4. CASE Digit
  <2>1. text[ptr] \in Nat /\ ptr + 1 \in 1 .. Len(text) + 1 /\ n * 10 + text[ptr] \in Nat
    BY <1>4, Character DEF Digit, NUL
  <2> QED BY <1>4, <2>1 DEF Digit
<1>5. CASE PartEnds
  <2>1. ptr + 1 \in 1 .. Len(text) + 1 /\ i \in 0 .. 3
    BY <1>5, Character DEF PartEnds, ParseBounds
  <2>2. ip' \in IPs
    BY <1>5, PartInBounds
  <2>3. /\ ptr' \in 1 .. Len(text) + 1 /\ i' \in 0 .. 4 /\ n' \in Nat
        /\ pc' \in {"locate", "parse"}
        /\ UNCHANGED <<file, ready, v_index, text, searchVars, verdict>>
    BY <1>5, <2>1 DEF PartEnds
  <2> QED BY <2>2, <2>3
<1>6. CASE PartTooLarge BY <1>6 DEF PartTooLarge, Return
<1>7. CASE BadCharacter BY <1>7 DEF BadCharacter, Return
<1>8. CASE Locate BY <1>8, CellBounds DEF Locate
<1>9. CASE LocateCrashes BY <1>9 DEF LocateCrashes
<1>10. CASE Narrow
  <2>1. Middle \in Nat /\ Middle - 1 \in Int /\ Middle + 1 \in Nat
    BY <1>10 DEF Narrow, Middle
  <2> HIDE DEF Middle
  <2> QED BY <1>10, <2>1 DEF Narrow
<1>11. CASE Hit BY <1>11 DEF Hit, NoBlock, Blocks
<1>12. CASE Miss BY <1>12 DEF Miss, Return
<1>13. CASE ReadPastEnd \/ ReadFails BY <1>13 DEF ReadPastEnd, ReadFails, Return
<1>14. CASE TooLong BY <1>14 DEF TooLong, Return
<1>15. CASE Copy BY <1>15 DEF Copy, Return
<1>16. CASE CopyFails BY <1>16 DEF CopyFails, Return
<1>17. CASE Answer BY <1>17 DEF Answer
<1>18. CASE Close BY <1>18 DEF Close
<1>19. CASE UNCHANGED xdbVars BY <1>19 DEF xdbVars
<1> QED
  BY <1>1, <1>2, <1>3, <1>4, <1>5, <1>6, <1>7, <1>8, <1>9, <1>10, <1>11, <1>12,
     <1>13, <1>14, <1>15, <1>16, <1>17, <1>18, <1>19 DEF XdbNext, Lookup, Proceed

(* The parse keeps within its text and its four parts.                     *)
LEMMA ParseStep == ASSUME XdbInv, [XdbNext]_xdbVars PROVE ParseBounds'
<1> USE DEF XdbInv, parseVars, searchVars
<1>1. CASE Call
  <2>1. text' \in Texts /\ ptr' = 1 /\ i' = 0 /\ ip' = 0
    BY <1>1 DEF Call
  <2>2. ptr' \in 1 .. Len(text')
    BY <2>1, TextEnds
  <2> QED BY <2>1, <2>2 DEF ParseBounds
<1>2. CASE Digit
  <2>1. ptr + 1 \in 1 .. Len(text)
    BY <1>2, Character DEF Digit, NUL
  <2> QED BY <1>2, <2>1 DEF Digit, ParseBounds
<1>3. CASE PartEnds
  <2> SUFFICES ASSUME pc' = "parse" PROVE ParseBounds' BY DEF ParseBounds
  <2>1. /\ i \in 0 .. 2 /\ text[ptr] # NUL /\ pc = "parse"
        /\ ptr' = ptr + 1 /\ i' = i + 1 /\ text' = text
    BY <1>3 DEF PartEnds, ParseBounds, DOT, NUL
  <2>2. ptr' \in 1 .. Len(text')
    BY <2>1, Character
  <2>3. /\ i = 0 => ip' < Radix
        /\ i = 1 => ip' < Square
        /\ i = 2 => ip' < Square * Radix
    BY <1>3, PartInBounds
  <2> QED BY <2>1, <2>2, <2>3 DEF ParseBounds
<1>4. CASE pc' # "parse"
  BY <1>4 DEF ParseBounds
<1>5. CASE UNCHANGED <<pc, parseVars>>
  BY <1>5 DEF ParseBounds
<1> QED
  BY <1>1, <1>2, <1>3, <1>4, <1>5
  DEF XdbNext, Lookup, Proceed, xdbVars, Load, LoadFails, PartTooLarge, BadCharacter, Return,
      Locate, LocateCrashes, Narrow, Hit, Miss, ReadPastEnd, ReadFails, TooLong, Copy, CopyFails,
      Answer, Close

-----------------------------------------------------------------------------
(* The probe is between the bounds: in the cell or just after it, where    *)
(* the addresses are greater.                                              *)
LEMMA ProbePlace ==
  ASSUME XdbInv, pc = "search", l <= h
  PROVE  /\ Middle \in Nat /\ l <= Middle /\ Middle <= h
         /\ Probe \in Nat /\ s_ptr <= Probe /\ Probe <= e_ptr
         /\ l < e_ptr - s_ptr => Probe < e_ptr
         /\ Probe \in Blocks(file) /\ Probe < e_ptr => Probe \in InCell(file, CellOf(ip))
         /\ Probe \in Blocks(file) /\ Probe = e_ptr /\ HasBlocks(file, ip) => ip < file.sip[Probe]
<1>1. /\ l \in Nat /\ h \in Int /\ h <= e_ptr - s_ptr /\ ip \in IPs
      /\ s_ptr \in Nat /\ e_ptr \in Nat /\ Sorted(file, CellOf(ip)) /\ file.last \in Nat
  BY CellBounds DEF XdbInv, XdbTypeOK, SearchBounds
<1>2. Middle \in Nat /\ l <= Middle /\ Middle <= h /\ 2 * Middle <= l + h
  <2>1. l + h \in Nat /\ h \in Nat
    BY <1>1
  <2>2. Middle \in Nat /\ 2 * Middle <= l + h /\ l + h < 2 * Middle + 2
    BY <2>1 DEF Middle
  <2> QED BY <1>1, <2>1, <2>2
<1>3. /\ Probe \in Nat /\ s_ptr <= Probe /\ Probe <= e_ptr
      /\ l < e_ptr - s_ptr => Probe < e_ptr
  BY <1>1, <1>2 DEF Probe
<1>4. Probe \in Blocks(file) /\ Probe < e_ptr => Probe \in InCell(file, CellOf(ip))
  BY <1>3 DEF InCell, s_ptr, e_ptr
<1>5. Probe \in Blocks(file) /\ Probe = e_ptr /\ HasBlocks(file, ip) => ip < file.sip[Probe]
  BY <1>1 DEF Sorted, HasBlocks, Blocks, e_ptr
<1> QED BY <1>2, <1>3, <1>4, <1>5

(* A block that holds the address is one of the cell.                      *)
LEMMA HolderPlace ==
  ASSUME XdbTypeOK, NEW k \in Holders(file, ip)
  PROVE  /\ k \in InCell(file, CellOf(ip)) /\ k \in Blocks(file) /\ k \in Nat
         /\ s_ptr <= k /\ k < e_ptr /\ HasBlocks(file, ip)
         /\ file.sip[k] <= ip /\ ip <= file.eip[k]
<1>1. k \in InCell(file, CellOf(ip)) /\ Holds(file, k, ip)
  BY DEF Holders
<1>2. s_ptr \in Nat /\ e_ptr \in Nat /\ file.last \in Nat
  BY CellBounds
<1> QED BY <1>1, <1>2 DEF InCell, Holds, HasBlocks, Blocks, s_ptr, e_ptr

LEMMA BoundsStep == ASSUME XdbInv, [XdbNext]_xdbVars PROVE SearchBounds'
<1> USE DEF XdbInv, parseVars, searchVars
<1>1. CASE Locate
  <2>1. /\ h' = e_ptr - s_ptr /\ ready' = TRUE /\ s_ptr' = s_ptr /\ e_ptr' = e_ptr
    BY <1>1 DEF Locate, s_ptr, e_ptr, XdbTypeOK
  <2>2. e_ptr \in Nat /\ s_ptr \in Nat
    BY CellBounds
  <2> QED BY <2>1, <2>2 DEF SearchBounds
<1>2. CASE Narrow
  <2>1. /\ pc = "search" /\ l <= h /\ h' \in {h, Middle - 1} /\ h <= e_ptr - s_ptr
        /\ UNCHANGED <<pc, file, ip, ready>>
    BY <1>2 DEF Narrow, SearchBounds
  <2>2. Middle \in Nat /\ Middle <= h /\ h \in Int /\ e_ptr \in Nat /\ s_ptr \in Nat
    BY <2>1, ProbePlace, CellBounds DEF XdbTypeOK
  <2>3. h' <= e_ptr - s_ptr
    BY <2>1, <2>2
  <2> QED BY <2>1, <2>3 DEF SearchBounds, s_ptr, e_ptr
<1>3. CASE Hit
  BY <1>3 DEF Hit, SearchBounds
<1>4. CASE pc' \notin {"search", "copy"}
  BY <1>4 DEF SearchBounds
<1>5. CASE UNCHANGED xdbVars
  BY <1>5 DEF xdbVars, SearchBounds, s_ptr, e_ptr
<1> QED
  BY <1>1, <1>2, <1>3, <1>4, <1>5
  DEF XdbNext, Lookup, Proceed, Load, LoadFails, Call, Digit, PartEnds, PartTooLarge, BadCharacter, Return,
      LocateCrashes, Miss, ReadPastEnd, ReadFails, TooLong, Copy, CopyFails, Answer, Close

(* Narrow drops only blocks that do not hold the address.                  *)
LEMMA BetweenStep == ASSUME XdbInv, [XdbNext]_xdbVars PROVE BlockIsBetween'
<1> USE DEF XdbInv, parseVars, searchVars
<1>1. CASE Locate
  <2> SUFFICES ASSUME NEW k \in Holders(file, ip) PROVE s_ptr + l' <= k /\ k <= s_ptr + h'
    BY <1>1 DEF Locate, BlockIsBetween, s_ptr, e_ptr
  <2>1. k \in Nat /\ s_ptr <= k /\ k < e_ptr /\ s_ptr \in Nat /\ e_ptr \in Nat
    BY HolderPlace, CellBounds
  <2> QED BY <1>1, <2>1 DEF Locate
<1>2. CASE Narrow
  <2>1. /\ pc = "search" /\ l <= h /\ Probe \in Blocks(file)
        /\ UNCHANGED <<pc, file, ip>>
    BY <1>2 DEF Narrow
  <2> SUFFICES ASSUME NEW k \in Holders(file, ip) PROVE s_ptr + l' <= k /\ k <= s_ptr + h'
    BY <2>1 DEF BlockIsBetween, s_ptr, e_ptr
  <2>2. /\ k \in InCell(file, CellOf(ip)) /\ k \in Blocks(file) /\ k \in Nat /\ k < e_ptr
        /\ HasBlocks(file, ip) /\ file.sip[k] <= ip /\ ip <= file.eip[k]
    BY HolderPlace
  <2>3. s_ptr + l <= k /\ k <= s_ptr + h
    BY <2>1 DEF BlockIsBetween
  <2>4. /\ l \in Nat /\ h \in Int /\ ip \in Nat /\ s_ptr \in Nat /\ e_ptr \in Nat
        /\ file.sip[k] \in Nat /\ file.eip[k] \in Nat
        /\ file.sip[Probe] \in Nat /\ file.eip[Probe] \in Nat
    BY <2>1, <2>2, CellBounds DEF XdbTypeOK, IPs
  <2>5. /\ Middle \in Nat /\ Probe = s_ptr + Middle /\ Probe \in Nat /\ Probe <= e_ptr
        /\ Probe < e_ptr => Probe \in InCell(file, CellOf(ip))
        /\ Probe = e_ptr => ip < file.sip[Probe]
    BY <2>1, <2>2, ProbePlace DEF Probe
  <2>6. /\ \A j, m \in InCell(file, CellOf(ip)) : j < m => file.eip[j] < file.sip[m]
        /\ \A j \in InCell(file, CellOf(ip)) : file.sip[j] <= file.eip[j]
    BY CellBounds DEF Sorted
  <2>7. CASE ip < file.sip[Probe] /\ h' = Middle - 1 /\ l' = l
    <3>1. ~ Probe <= k
      <4> SUFFICES ASSUME Probe <= k PROVE FALSE OBVIOUS
      <4>1. Probe \in InCell(file, CellOf(ip))
        BY <2>2, <2>4, <2>5
      <4>2. Probe = k \/ Probe < k
        BY <2>2, <2>5
      <4>3. Probe < k => file.eip[Probe] < file.sip[k] /\ file.sip[Probe] <= file.eip[Probe]
        BY <2>2, <2>6, <4>1
      <4> QED BY <2>2, <2>4, <2>7, <4>2, <4>3
    <3> QED BY <2>2, <2>3, <2>4, <2>5, <2>7, <3>1
  <2>8. CASE ip >= file.sip[Probe] /\ ip > file.eip[Probe] /\ l' = Middle + 1 /\ h' = h
    <3>1. Probe \in InCell(file, CellOf(ip))
      BY <2>4, <2>5, <2>8
    <3>2. ~ k <= Probe
      <4> SUFFICES ASSUME k <= Probe PROVE FALSE OBVIOUS
      <4>1. Probe = k \/ k < Probe
        BY <2>2, <2>5
      <4>2. k < Probe => file.eip[k] < file.sip[Probe]
        BY <2>2, <2>6, <3>1
      <4> QED BY <2>2, <2>4, <2>8, <4>1, <4>2
    <3> QED BY <2>2, <2>3, <2>4, <2>5, <2>8, <3>2
  <2> QED BY <1>2, <2>7, <2>8 DEF Narrow
<1>3. CASE pc' # "search"
  BY <1>3 DEF BlockIsBetween
<1>4. CASE UNCHANGED xdbVars
  BY <1>4 DEF xdbVars, BlockIsBetween, s_ptr, e_ptr
<1> QED
  BY <1>1, <1>2, <1>3, <1>4
  DEF XdbNext, Lookup, Proceed, Load, LoadFails, Call, Digit, PartEnds, PartTooLarge, BadCharacter, Return,
      LocateCrashes, Hit, Miss, ReadPastEnd, ReadFails, TooLong, Copy, CopyFails, Answer, Close

LEMMA FoundStep == ASSUME XdbInv, [XdbNext]_xdbVars PROVE FoundHolds'
<1> USE DEF XdbInv, parseVars, searchVars
<1>1. CASE Hit
  <2>1. /\ pc = "search" /\ l <= h /\ Probe \in Blocks(file) /\ Holds(file, Probe, ip)
        /\ found' = Probe /\ UNCHANGED <<file, ip>>
    BY <1>1 DEF Hit
  <2>2. HasBlocks(file, ip) => Probe \in InCell(file, CellOf(ip))
    <3>1. /\ Probe \in Nat /\ e_ptr \in Nat /\ Probe <= e_ptr /\ ip \in Nat
          /\ file.sip[Probe] \in Nat /\ file.sip[Probe] <= ip
      BY <2>1, ProbePlace, CellBounds DEF Holds, XdbTypeOK, IPs
    <3> QED BY <2>1, <3>1, ProbePlace
  <2> QED BY <2>1, <2>2 DEF FoundHolds
<1>2. CASE pc' # "copy"
  BY <1>2 DEF FoundHolds
<1>3. CASE UNCHANGED xdbVars
  BY <1>3 DEF xdbVars, FoundHolds
<1> QED
  BY <1>1, <1>2, <1>3
  DEF XdbNext, Lookup, Proceed, Load, LoadFails, Call, Digit, PartEnds, PartTooLarge, BadCharacter, Return,
      Locate, LocateCrashes, Narrow, Miss, ReadPastEnd, ReadFails, TooLong, Copy, CopyFails, Answer, Close

(* The two ways to succeed: no block holds the address, or the one found   *)
(* does, and it is the only one.                                           *)
LEMMA AnswerStep == ASSUME XdbInv, [XdbNext]_xdbVars PROVE SearchIsRight'
<1> USE DEF XdbInv, parseVars, searchVars
<1>1. CASE Miss
  <2>1. /\ pc = "search" /\ l > h /\ region' = Nowhere /\ ready
        /\ UNCHANGED <<file, ip, ready>>
    BY <1>1 DEF Miss, SearchBounds
  <2>2. Holders(file, ip) = {}
    <3> SUFFICES ASSUME NEW k \in Holders(file, ip) PROVE FALSE OBVIOUS
    <3>1. s_ptr + l <= k /\ k <= s_ptr + h
      BY <2>1 DEF BlockIsBetween
    <3>2. k \in Nat /\ s_ptr \in Nat /\ l \in Nat /\ h \in Int
      BY HolderPlace, CellBounds DEF XdbTypeOK
    <3> QED BY <2>1, <3>1, <3>2
  <2>3. RegionOf(file, ip) = Nowhere
    BY <2>2 DEF RegionOf
  <2> QED BY <2>1, <2>3 DEF SearchIsRight
<1>2. CASE Copy
  <2>1. /\ pc = "copy" /\ ready /\ Holds(file, found, ip)
        /\ region' = IF file.len[found] = 0 THEN Nowhere ELSE file.region[found]
        /\ UNCHANGED <<file, ip, ready>>
    BY <1>2 DEF Copy, SearchBounds, FoundHolds
  <2> SUFFICES ASSUME HasBlocks(file, ip) PROVE region' = RegionOf(file, ip)
    BY <2>1 DEF SearchIsRight
  <2>2. found \in Holders(file, ip)
    BY <2>1 DEF FoundHolds, Holders
  <2>3. \A k \in Holders(file, ip) : k = found
    <3> SUFFICES ASSUME NEW k \in Holders(file, ip) PROVE k = found OBVIOUS
    <3>1. /\ k \in InCell(file, CellOf(ip)) /\ found \in InCell(file, CellOf(ip))
          /\ k \in Nat /\ found \in Nat /\ k \in Blocks(file) /\ found \in Blocks(file)
          /\ file.sip[k] <= ip /\ ip <= file.eip[k]
          /\ file.sip[found] <= ip /\ ip <= file.eip[found]
      BY <2>2, HolderPlace
    <3>2. /\ ip \in Nat /\ file.sip[k] \in Nat /\ file.eip[k] \in Nat
          /\ file.sip[found] \in Nat /\ file.eip[found] \in Nat
      BY <3>1, CellBounds DEF XdbTypeOK, IPs
    <3>3. /\ k < found => file.eip[k] < file.sip[found]
          /\ found < k => file.eip[found] < file.sip[k]
      BY <3>1, CellBounds DEF Sorted
    <3> QED BY <3>1, <3>2, <3>3
  <2>4. (CHOOSE k \in Holders(file, ip) : TRUE) = found
    BY <2>2, <2>3
  <2>5. file.len[found] \in Nat
    BY <2>2, HolderPlace, CellBounds
  <2>6. (\E k \in Holders(file, ip) : file.len[k] > 0) <=> file.len[found] # 0
    BY <2>2, <2>3, <2>5
  <2> QED BY <2>1, <2>4, <2>6 DEF RegionOf
<1>3. CASE PartTooLarge
  BY <1>3 DEF PartTooLarge, Return, SearchIsRight
<1>4. CASE BadCharacter
  BY <1>4 DEF BadCharacter, Return, SearchIsRight
<1>5. CASE ReadPastEnd \/ ReadFails
  BY <1>5 DEF ReadPastEnd, ReadFails, Return, SearchIsRight
<1>6. CASE TooLong
  BY <1>6 DEF TooLong, Return, SearchIsRight
<1>7. CASE CopyFails
  BY <1>7 DEF CopyFails, Return, SearchIsRight
<1>8. CASE pc' # "answer"
  BY <1>8 DEF SearchIsRight
<1>9. CASE UNCHANGED xdbVars
  BY <1>9 DEF xdbVars, SearchIsRight
<1> QED
  BY <1>1, <1>2, <1>3, <1>4, <1>5, <1>6, <1>7, <1>8, <1>9
  DEF XdbNext, Lookup, Proceed, Load, LoadFails, Call, Digit, PartEnds, Locate, LocateCrashes,
      Narrow, Hit, Answer, Close

(* A part that ends is the next one of the text, and n is its value.       *)
LEMMA PartRead ==
  ASSUME XdbInv, pc = "parse", text[ptr] > 9
  PROVE  /\ End(text, i + 1) = ptr /\ Part(text, i + 1) = n
         /\ Cardinality(NonDigits(text, ptr)) = i + 1
<1>1. /\ text \in Texts /\ ptr \in 1 .. Len(text) /\ i \in 0 .. 3
      /\ Cardinality(NonDigits(text, ptr - 1)) = i
      /\ n = Value(text, Begin(text, i + 1), ptr - 1)
  BY DEF XdbInv, XdbTypeOK, ParseBounds, ParsedParts
<1>2. Cardinality(NonDigits(text, ptr)) = i + 1
  BY <1>1, NonDigitsGrow
<1>3. End(text, i + 1) = ptr
  BY <1>1, <1>2, EndIs
<1> QED BY <1>1, <1>2, <1>3 DEF Part

(* The four parts make the address; the code shifts, the definition weighs.*)
LEMMA AddressIs ==
  ASSUME NEW a \in Nat, NEW b \in Nat, NEW c \in Nat, NEW d \in Nat
  PROVE  ((a * Radix + b) * Radix + c) * Radix + d
           = a * Radix * Square + b * Square + c * Radix + d
<1>1. Radix \in Nat
  BY Sizes
<1> HIDE DEF Radix
<1> QED BY <1>1 DEF Square

(* What is read so far stays what the text says: a digit is one of the     *)
(* next part's, its end makes it the last part read.                       *)
LEMMA PartsStep == ASSUME XdbInv, [XdbNext]_xdbVars PROVE ParsedParts'
<1> USE DEF XdbInv, parseVars, searchVars
<1>1. CASE Call
  <2>1. text' \in Texts /\ ptr' = 1 /\ i' = 0 /\ n' = 0 /\ ip' = 0
    BY <1>1 DEF Call
  <2>2. NonDigits(text', 0) = {} /\ Len(text') \in Nat
    BY <2>1, TextEnds DEF NonDigits
  <2>3. Cardinality(NonDigits(text', 0)) = 0
    BY <2>2, FS_EmptySet
  <2>4. Begin(text', 1) = 1
    BY DEF Begin
  <2>5. Value(text', 1, 0) = 0
    BY <2>1, <2>2, ValueGrows
  <2> QED BY <2>1, <2>3, <2>4, <2>5 DEF ParsedParts
<1>2. CASE Digit
  <2>1. /\ pc = "parse" /\ text[ptr] <= 9 /\ n' = n * 10 + text[ptr] /\ ptr' = ptr + 1
        /\ UNCHANGED <<pc, text, i, ip>>
        /\ text \in Texts /\ ptr \in 1 .. Len(text) /\ i \in 0 .. 3 /\ Len(text) \in Nat
    BY <1>2, TextEnds DEF Digit, XdbTypeOK, ParseBounds
  <2> DEFINE a == Begin(text, i + 1)
  <2>2. a \in 1 .. ptr /\ n = Value(text, a, ptr - 1)
    BY <2>1 DEF ParsedParts
  <2> HIDE DEF a
  <2>3. n' = Value(text, a, ptr)
    BY <2>1, <2>2, ValueGrows
  <2>4. NonDigits(text, ptr) = NonDigits(text, ptr - 1)
    BY <2>1, NonDigitsGrow
  <2>5. a \in 1 .. ptr + 1 /\ ptr' - 1 = ptr
    BY <2>1, <2>2
  <2> QED BY <2>1, <2>3, <2>4, <2>5 DEF ParsedParts, a
<1>3. CASE PartEnds
  <2> SUFFICES ASSUME pc' = "parse" PROVE ParsedParts'
    BY DEF ParsedParts
  <2>1. /\ pc = "parse" /\ text[ptr] = DOT /\ n \in 0 .. Octet /\ i \in 0 .. 2
        /\ ip' = ip * Radix + n /\ i' = i + 1 /\ n' = 0 /\ ptr' = ptr + 1 /\ text' = text
        /\ text \in Texts /\ ptr \in 1 .. Len(text) /\ Len(text) \in Nat
    BY <1>3, TextEnds, SizesAssumption DEF PartEnds, XdbTypeOK, ParseBounds
  <2>2. End(text, i') = ptr /\ Part(text, i') = n /\ Cardinality(NonDigits(text, ptr)) = i'
    BY <2>1, PartRead DEF DOT
  <2>3. Begin(text, i' + 1) = ptr'
    BY <2>1, <2>2 DEF Begin
  <2>4. ptr' \in 1 .. Len(text) + 1 /\ ptr \in 0 .. Len(text) /\ ptr' - 1 = ptr /\ ptr < ptr'
    BY <2>1
  <2>5. n' = Value(text, Begin(text, i' + 1), ptr' - 1)
    BY <2>1, <2>3, <2>4, ValueGrows
  <2>6. \A k \in 1 .. i' : text[End(text, k)] = DOT /\ Part(text, k) \in 0 .. Octet
    BY <2>1, <2>2 DEF ParsedParts
  <2>7. /\ i' = 1 => ip' = Part(text, 1)
        /\ i' = 2 => ip' = Part(text, 1) * Radix + Part(text, 2)
        /\ i' = 3 => ip' = (Part(text, 1) * Radix + Part(text, 2)) * Radix + Part(text, 3)
    <3>1. CASE i = 0
      BY <2>1, <2>2, <3>1, Sizes DEF ParseBounds
    <3>2. CASE i = 1
      BY <2>1, <2>2, <3>2 DEF ParsedParts
    <3>3. CASE i = 2
      BY <2>1, <2>2, <3>3 DEF ParsedParts
    <3> QED BY <2>1, <3>1, <3>2, <3>3
  <2>8. Begin(text, i' + 1) \in 1 .. ptr'
    BY <2>3, <2>4
  <2> QED BY <2>1, <2>2, <2>4, <2>5, <2>6, <2>7, <2>8 DEF ParsedParts
<1>4. CASE pc' # "parse"
  BY <1>4 DEF ParsedParts
<1>5. CASE UNCHANGED <<pc, parseVars>>
  BY <1>5 DEF ParsedParts
<1> QED
  BY <1>1, <1>2, <1>3, <1>4, <1>5
  DEF XdbNext, Lookup, Proceed, xdbVars, Load, LoadFails, PartTooLarge, BadCharacter, Return,
      Locate, LocateCrashes, Narrow, Hit, Miss, ReadPastEnd, ReadFails, TooLong, Copy, CopyFails,
      Answer, Close

(* The end of the fourth part: the text is an address and ip its value.    *)
LEMMA AddressRead ==
  ASSUME XdbInv, PartEnds, i = 3
  PROVE  IsAddress(text) /\ ip' = AddressOf(text)
<1> USE DEF XdbInv
<1>1. /\ pc = "parse" /\ text[ptr] > 9 /\ n \in 0 .. Octet /\ ip' = ip * Radix + n
      /\ text \in Texts /\ ptr \in 1 .. Len(text) /\ Len(text) \in Nat
  BY TextEnds, SizesAssumption DEF PartEnds, XdbTypeOK, ParseBounds
<1>2. Part(text, 4) = n /\ Cardinality(NonDigits(text, ptr)) = 4
  BY <1>1, PartRead
<1>3. /\ \A k \in 1 .. 3 : text[End(text, k)] = DOT /\ Part(text, k) \in 0 .. Octet
      /\ ip = (Part(text, 1) * Radix + Part(text, 2)) * Radix + Part(text, 3)
  BY <1>1 DEF ParsedParts
<1>4. Cardinality(NonDigits(text, Len(text))) >= 4
  <2>1. Len(text) \in 1 .. Len(text) /\ ptr <= Len(text)
    BY <1>1
  <2>2. /\ Cardinality(NonDigits(text, ptr)) <= Cardinality(NonDigits(text, Len(text)))
        /\ Cardinality(NonDigits(text, Len(text))) \in Nat
    BY <1>1, <2>1, NonDigitsMonotonic, NonDigitsGrow
  <2> QED BY <1>2, <2>2
<1>5. \A k \in 1 .. 4 : Part(text, k) \in 0 .. Octet
  BY <1>1, <1>2, <1>3
<1>6. IsAddress(text)
  BY <1>3, <1>4, <1>5, SizesAssumption DEF IsAddress
<1>7. ip' = AddressOf(text)
  <2>1. /\ Part(text, 1) \in Nat /\ Part(text, 2) \in Nat
        /\ Part(text, 3) \in Nat /\ Part(text, 4) \in Nat
    BY <1>5, SizesAssumption
  <2>2. ip' = ((Part(text, 1) * Radix + Part(text, 2)) * Radix + Part(text, 3)) * Radix + Part(text, 4)
    BY <1>1, <1>2, <1>3
  <2> QED BY <2>1, <2>2, AddressIs DEF AddressOf
<1> QED BY <1>6, <1>7

LEMMA AddressStep == ASSUME XdbInv, [XdbNext]_xdbVars PROVE AddressKnown'
<1> USE DEF XdbInv, parseVars, searchVars
<1>1. CASE PartEnds
  <2>1. pc' # "parse" => i = 3
    BY <1>1 DEF PartEnds
  <2>2. pc' \in {"parse", "locate"} /\ text' = text
    BY <1>1 DEF PartEnds
  <2> QED BY <1>1, <2>1, <2>2, AddressRead DEF AddressKnown
<1>2. CASE PartTooLarge
  BY <1>2 DEF PartTooLarge, Return, AddressKnown
<1>3. CASE BadCharacter
  BY <1>3 DEF BadCharacter, Return, AddressKnown
<1>4. CASE Locate \/ Narrow \/ Hit
  BY <1>4 DEF Locate, Narrow, Hit, AddressKnown
<1>5. CASE Miss
  BY <1>5 DEF Miss, Return, AddressKnown
<1>6. CASE ReadPastEnd \/ ReadFails
  BY <1>6 DEF ReadPastEnd, ReadFails, Return, AddressKnown
<1>7. CASE TooLong \/ Copy \/ CopyFails
  BY <1>7 DEF TooLong, Copy, CopyFails, Return, AddressKnown
<1>8. CASE pc' \notin {"locate", "search", "copy", "answer"}
  BY <1>8 DEF AddressKnown
<1>9. CASE UNCHANGED xdbVars
  BY <1>9 DEF xdbVars, AddressKnown
<1> QED
  BY <1>1, <1>2, <1>3, <1>4, <1>5, <1>6, <1>7, <1>8, <1>9
  DEF XdbNext, Lookup, Proceed, Load, LoadFails, Call, Digit, LocateCrashes, Answer, Close

LEMMA ParsedStep == ASSUME XdbInv, [XdbNext]_xdbVars PROVE ParseIsRight'
<1>1. (pc = "parse" => ptr <= Len(text))'
  <2>1. (pc = "parse" => ptr \in 1 .. Len(text))' /\ (text \in Texts)'
    BY ParseStep, XdbTypeStep DEF ParseBounds, XdbTypeOK
  <2> QED BY <2>1, TextEnds
<1>2. (pc = "locate" => IsAddress(text) /\ ip = AddressOf(text))'
  BY AddressStep DEF AddressKnown
<1>3. (pc = "answer" /\ ret \in {11, 12} => ~IsAddress(text))'
  <2> USE DEF XdbInv, parseVars, searchVars
  <2>1. CASE PartTooLarge
    <3>1. /\ pc = "parse" /\ text[ptr] > 9 /\ n > Octet /\ n \in Nat
          /\ i + 1 \in 1 .. 4 /\ text' = text
      BY <2>1 DEF PartTooLarge, XdbTypeOK, ParseBounds
    <3>2. Part(text, i + 1) = n
      BY <3>1, PartRead
    <3>3. ~ Part(text, i + 1) <= Octet
      BY <3>1, <3>2, SizesAssumption
    <3> QED BY <3>1, <3>3 DEF IsAddress
  <2>2. CASE BadCharacter
    <3>1. /\ pc = "parse" /\ text[ptr] > 9 /\ text[ptr] # DOT
          /\ i + 1 \in 1 .. 3 /\ text' = text
      BY <2>2 DEF BadCharacter, XdbTypeOK, ParseBounds
    <3>2. End(text, i + 1) = ptr
      BY <3>1, PartRead
    <3> QED BY <3>1, <3>2 DEF IsAddress
  <2>3. CASE Miss \/ TooLong \/ Copy
    BY <2>3 DEF Miss, TooLong, Copy, Return
  <2>4. CASE ReadPastEnd \/ ReadFails \/ CopyFails
    BY <2>4 DEF ReadPastEnd, ReadFails, CopyFails, Return
  <2>5. CASE pc' # "answer"
    BY <2>5
  <2>6. CASE UNCHANGED xdbVars
    BY <2>6 DEF xdbVars, ParseIsRight
  <2> QED
    BY <2>1, <2>2, <2>3, <2>4, <2>5, <2>6
    DEF XdbNext, Lookup, Proceed, Load, LoadFails, Call, Digit, PartEnds, Locate, LocateCrashes,
        Narrow, Hit, Answer, Close
<1> QED BY <1>1, <1>2, <1>3 DEF ParseIsRight

(* The verdict is taken from region_buffer, which has the region of the    *)
(* address that the text writes.                                           *)
LEMMA VerdictStep == ASSUME XdbInv, [XdbNext]_xdbVars PROVE LookupIsRight'
<1> USE DEF XdbInv, parseVars, searchVars
<1>1. CASE Answer
  <2> SUFFICES ASSUME verdict' \in {"china", "foreign"} PROVE LookupIsRight'
    BY DEF LookupIsRight
  <2>1. /\ pc = "answer" /\ ret = 0 /\ UNCHANGED <<file, text>>
        /\ verdict' = "china" <=> region \in Chinese
    BY <1>1 DEF Answer
  <2>2. IsAddress(text) /\ ip = AddressOf(text)
    BY <2>1 DEF AddressKnown
  <2>3. HasBlocks(file, ip) => region = RegionOf(file, ip)
    BY <2>1 DEF SearchIsRight
  <2> QED BY <2>1, <2>2, <2>3 DEF LookupIsRight
<1>2. CASE Call
  BY <1>2 DEF Call, LookupIsRight
<1>3. CASE UNCHANGED <<file, text, verdict>>
  BY <1>3 DEF LookupIsRight
<1> QED
  BY <1>1, <1>2, <1>3
  DEF XdbNext, Lookup, Proceed, xdbVars, Load, LoadFails, Digit, PartEnds, PartTooLarge, BadCharacter,
      Return, Locate, LocateCrashes, Narrow, Hit, Miss, ReadPastEnd, ReadFails, TooLong, Copy, CopyFails,
      Close

(* XdbInv is an invariant of the lookups, whatever the file and the texts. *)
THEOREM XdbInvariance == XdbSpec => []XdbInv
<1>1. XdbInv /\ [XdbNext]_xdbVars => XdbInv'
  BY XdbTypeStep, ParseStep, BoundsStep, BetweenStep, FoundStep, AnswerStep,
     PartsStep, AddressStep, ParsedStep, VerdictStep DEF XdbInv
<1> QED BY XdbInitInv, <1>1, PTL DEF XdbSpec

(* Every variable of the lookup keeps its type: the parser stays in its    *)
(* text and its number in the range of addresses.                          *)
THEOREM XdbTypeCorrect == XdbSpec => []XdbTypeOK
<1>1. XdbInv => XdbTypeOK
  BY DEF XdbInv
<1> QED BY XdbInvariance, <1>1, PTL

(* The loop invariant of xdb_search's binary search.                       *)
THEOREM BetweenCorrect == XdbSpec => []BlockIsBetween
<1>1. XdbInv => BlockIsBetween
  BY DEF XdbInv
<1> QED BY XdbInvariance, <1>1, PTL

(* A lookup that succeeds gives the region of the block that holds the     *)
(* address, in every sorted database.                                      *)
THEOREM SearchCorrect == XdbSpec => []SearchIsRight
<1>1. XdbInv => SearchIsRight
  BY DEF XdbInv
<1> QED BY XdbInvariance, <1>1, PTL

(* The inclusive upper bound does not matter: the search for an address of *)
(* the database reads only blocks of the address's cell.                   *)
THEOREM ProbesCorrect == XdbSpec => []ProbesStayInside
<1>1. XdbInv => ProbesStayInside
  <2> SUFFICES ASSUME XdbInv, pc = "search", NEW k \in Holders(file, ip)
               PROVE  l <= h /\ Probe \in InCell(file, CellOf(ip))
    BY DEF ProbesStayInside
  <2>1. s_ptr + l <= k /\ k <= s_ptr + h /\ XdbTypeOK
    BY DEF XdbInv, BlockIsBetween
  <2>2. /\ k \in Nat /\ k < e_ptr /\ HasBlocks(file, ip)
        /\ s_ptr \in Nat /\ e_ptr \in Nat /\ l \in Nat /\ h \in Int
    BY <2>1, HolderPlace, CellBounds DEF XdbTypeOK
  <2>3. l <= h /\ l < e_ptr - s_ptr
    BY <2>1, <2>2
  <2>4. Probe \in Nat /\ Probe < e_ptr
    BY <2>3, ProbePlace
  <2>5. Probe \in Blocks(file)
    <3>1. file.last \in Nat /\ e_ptr <= file.last + 1
      BY <2>1, <2>2, CellBounds DEF Sorted, HasBlocks, e_ptr
    <3> QED BY <2>2, <2>4, <3>1 DEF Blocks
  <2> QED BY <2>3, <2>4, <2>5, ProbePlace
<1> QED BY XdbInvariance, <1>1, PTL

(* xdb_check_ip takes exactly the texts that are addresses, gives the      *)
(* number an address stands for, and does not read on after the end of the *)
(* text.  (n is unbounded here: the matcher's parts have three digits at   *)
(* most.)                                                                  *)
THEOREM ParseCorrect == XdbSpec => []ParseIsRight
<1>1. XdbInv => ParseIsRight
  BY DEF XdbInv
<1> QED BY XdbInvariance, <1>1, PTL

(* The whole lookup: what search_ip_string answers for a text is right for *)
(* the address it writes.                                                  *)
THEOREM LookupCorrect == XdbSpec => []LookupIsRight
<1>1. XdbInv => LookupIsRight
  BY DEF XdbInv
<1> QED BY XdbInvariance, <1>1, PTL
=============================================================================
