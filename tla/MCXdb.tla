-------------------------------- MODULE MCXdb --------------------------------
(* Databases and texts for XdbSearch, small enough for TLC: parts of 0 to  *)
(* 3, so 256 addresses in 16 cells.                                        *)
EXTENDS XdbSearch

CONSTANTS china, abroad, nowhere

(* A file with these blocks: the cells' bounds follow from the addresses.  *)
(* Block 0 is the header, whose version, policy and time read as a range.  *)
Database(blocks) ==
  LET all     == <<[sip |-> 18, eip |-> 200, len |-> 2, region |-> nowhere]>> \o blocks
      Of(c)   == {k \in 1 .. Len(blocks) : CellOf(blocks[k].sip) = c}
      Least(S) == CHOOSE k \in S : \A j \in S : k <= j
  IN [last  |-> Len(blocks),
      first |-> [c \in Cells |-> IF Of(c) = {} THEN 0 ELSE Least(Of(c))],
      end   |-> [c \in Cells |-> IF Of(c) = {} THEN 0 ELSE Least(Of(c)) + Cardinality(Of(c))],
      sip    |-> [k \in 0 .. Len(blocks) |-> all[k + 1].sip],
      eip    |-> [k \in 0 .. Len(blocks) |-> all[k + 1].eip],
      len    |-> [k \in 0 .. Len(blocks) |-> all[k + 1].len],
      region |-> [k \in 0 .. Len(blocks) |-> all[k + 1].region]]

Block(a, b, size, r) == [sip |-> a, eip |-> b, len |-> size, region |-> r]

(* Every address: one block in most cells, as many as addresses in cell 1, *)
(* four in cell 2; one with no text, one whose text has no room.           *)
Whole ==
  Database(
    <<Block(0, 15, 2, china)>>
    \o [k \in 1 .. 16 |-> Block(15 + k, 15 + k, 2, IF k % 3 = 0 THEN china ELSE abroad)]
    \o <<Block(32, 34, 2, china), Block(35, 35, 0, abroad),
         Block(36, 46, 3, abroad), Block(47, 47, 2, abroad)>>
    \o [k \in 1 .. 13 |-> Block(32 + 16 * k, 47 + 16 * k, 2, IF k % 2 = 0 THEN china ELSE abroad)])

(* One that begins and ends inside a cell.                                 *)
Partial == Database(<<Block(20, 25, 2, china), Block(26, 31, 2, abroad),
                      Block(32, 35, 2, china), Block(36, 40, 2, abroad)>>)

Databases == {Whole, Partial}

(* Every address; with leading zeros; and what is none.                    *)
Dotted(a, b, c, d) == a \o <<DOT>> \o b \o <<DOT>> \o c \o <<DOT>> \o d \o <<NUL>>
Parts == {<<p>> : p \in 0 .. Octet}
Addresses == {Dotted(a, b, c, d) : a, b, c, d \in Parts}
Odd == {Dotted(<<0>>, <<0, 2>>, <<0, 0, 1>>, <<3>>), Dotted(<<2>>, <<>>, <<3>>, <<>>),
        Dotted(<<0>>, <<4>>, <<0>>, <<0>>), Dotted(<<0>>, <<0>>, <<0>>, <<1, 0>>),
        Dotted(<<0, 1>>, <<2>>, <<3>>, <<1, DOT, 2>>), Dotted(<<1>>, <<1>>, <<1>>, <<1, SIGN>>),
        <<1, DOT, 2, DOT, 3, NUL>>, <<1, SIGN, 2, DOT, 3, DOT, 1, NUL>>, <<NUL>>}
AllTexts == Addresses \cup Odd
=============================================================================
