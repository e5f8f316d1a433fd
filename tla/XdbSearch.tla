------------------------------ MODULE XdbSearch ------------------------------
(***************************************************************************)
(* The address lookup of ioemnetd: opening the database (ip2region_init),  *)
(* one lookup after another by main_loop (search_ip_string, in             *)
(* dns_client.c), the parsing of the address and the binary search in the  *)
(* file (xdb_searcher.c), and the closing of the database.                 *)
(*                                                                         *)
(* A database file is an array of blocks, each for a range of addresses,   *)
(* and a vector index: for the two leading parts of an address, its cell,  *)
(* the number of the first block and the number after the last.  Block     *)
(* numbers stand for the offsets, which are s_ptr + m * 14.  The generator *)
(* of the files leaves <<0, 0>> in a cell without blocks, and offset 0 is  *)
(* the file's header: the search reads it as if it were a block.           *)
(*                                                                         *)
(* A character is its digit, or DOT, SIGN, NUL.  The matcher hands over    *)
(* addresses with four parts of one to three digits, so that n does not    *)
(* overflow; xdb_check_ip is written for other texts too.                  *)
(*                                                                         *)
(* A definition X_Y just before a definition X is X with a plausible       *)
(* mistake, Y.  No action uses one: the properties are tried against them. *)
(***************************************************************************)
EXTENDS Integers, Sequences, FiniteSets

CONSTANTS
  Octet,    \* the largest part of an address, 0xFF in the code
  Files,    \* the databases that may be installed
  Texts,    \* the addresses that may be looked up, as written
  Chinese,  \* the regions whose name contains the word for China
  Room,     \* the length of region_buffer
  Nowhere   \* the empty region

DOT  == 10
SIGN == 11
NUL  == 12
Radix  == Octet + 1
Square == Radix * Radix          \* the addresses of a cell, and the cells
IPs    == 0 .. Square * Square - 1

(* The cell of an address: its two leading parts.                          *)
Cells     == 0 .. Square - 1
CellOf(a) == a \div Square

(* A file: the cells' first and end, and each block's first and last       *)
(* address, the length of its region's text, and the region.               *)
Blocks(f)      == 0 .. f.last
InCell(f, c)   == {k \in Blocks(f) : f.first[c] <= k /\ k < f.end[c]}
Holds(f, k, a) == f.sip[k] <= a /\ a <= f.eip[k]

(* The blocks of a cell are in the order of their addresses, and the one   *)
(* after them, if the file has one, is another cell's.                     *)
Sorted(f, c) ==
  /\ \A j, k \in InCell(f, c) : j < k => f.eip[j] < f.sip[k]
  /\ \A k \in InCell(f, c) : f.sip[k] <= f.eip[k]
  /\ f.first[c] < f.end[c] =>
       /\ f.end[c] <= f.last + 1
       /\ f.end[c] <= f.last => \A a \in IPs : CellOf(a) = c => a < f.sip[f.end[c]]

ASSUME SizesAssumption == Octet \in Nat /\ Room \in Nat

ASSUME DatabaseAssumption ==
  \A f \in Files :
    /\ f.last \in Nat
    /\ f.first \in [Cells -> Nat] /\ f.end \in [Cells -> Nat]
    /\ f.sip \in [Blocks(f) -> Nat] /\ f.eip \in [Blocks(f) -> Nat]
    /\ f.len \in [Blocks(f) -> Nat]
    /\ \A c \in Cells : f.first[c] <= f.end[c] /\ Sorted(f, c)

ASSUME TextsAssumption ==
  \A t \in Texts : /\ t \in Seq(0 .. NUL) /\ Len(t) > 0 /\ t[Len(t)] = NUL
                  /\ \A j \in 1 .. Len(t) - 1 : t[j] # NUL

VARIABLES
  pc,        \* where main_loop's lookup is
  file,      \* the installed database
  ready,     \* searcher.handle and searcher.v_index are set
  v_index,   \* dns_client.c's v_index is not NULL
  text, ptr, i, n, ip,   \* xdb_check_ip
  l, h, found,           \* xdb_search: the bounds, and the block that holds ip
  ret, region,           \* its result and region_buffer
  verdict                \* search_ip_string's: china, foreign or failed

parseVars  == <<text, ptr, i, n, ip>>
searchVars == <<l, h, found, ret, region>>
xdbVars == <<pc, file, ready, v_index, parseVars, searchVars, verdict>>

NoBlock == -1

XdbInit ==
  /\ pc = "start"
  /\ file \in Files
  /\ ready = FALSE /\ v_index = FALSE
  /\ text \in Texts /\ ptr = 1 /\ i = 0 /\ n = 0 /\ ip = 0
  /\ l = 0 /\ h = 0 /\ found = NoBlock /\ ret = 0 /\ region = Nowhere
  /\ verdict = "none"

-----------------------------------------------------------------------------
(* ip2region_init.                                                         *)

(* The index is loaded, the file opened a second time.                     *)
Load ==
  /\ pc = "start" /\ pc' = "idle"
  /\ v_index' = TRUE /\ ready' = TRUE
  /\ UNCHANGED <<file, parseVars, searchVars, verdict>>

(* The file cannot be opened, is too short for the index, or malloc fails  *)
(* (v_index stays NULL); or only the second fopen fails.  dns_client_init  *)
(* reports it and main does not look.                                      *)
LoadFails ==
  /\ pc = "start" /\ pc' = "idle"
  /\ v_index' \in BOOLEAN /\ ready' = FALSE
  /\ UNCHANGED <<file, parseVars, searchVars, verdict>>

-----------------------------------------------------------------------------
(* search_ip_string and xdb_search_by_string.                              *)

Call ==
  /\ pc = "idle" /\ pc' = "parse"
  /\ text' \in Texts /\ ptr' = 1 /\ i' = 0 /\ n' = 0 /\ ip' = 0
  /\ l' = 0 /\ h' = 0 /\ found' = NoBlock
  /\ region' = Nowhere /\ ret' = 0 /\ verdict' = "none"
  /\ UNCHANGED <<file, ready, v_index>>

Return(code) ==
  /\ ret' = code /\ pc' = "answer"

(* xdb_check_ip: a digit, ...                                              *)
Digit ==
  /\ pc = "parse" /\ text[ptr] <= 9
  /\ n' = n * 10 + text[ptr] /\ ptr' = ptr + 1
  /\ UNCHANGED <<pc, file, ready, v_index, text, i, ip, searchVars, verdict>>

(* The parts are counted in before they are tested.                        *)
PartEnds_Untested ==
  /\ pc = "parse" /\ text[ptr] > 9 /\ (text[ptr] = DOT \/ i = 3)
  /\ ip' = ip * Radix + n
  /\ i' = i + 1 /\ n' = 0 /\ ptr' = ptr + 1
  /\ pc' = IF i = 3 THEN "locate" ELSE "parse"
  /\ UNCHANGED <<file, ready, v_index, text, searchVars, verdict>>

(* ... the end of a part: a dot, or after the fourth part anything, ...    *)
PartEnds ==
  /\ pc = "parse" /\ text[ptr] > 9 /\ (text[ptr] = DOT \/ i = 3)
  /\ n <= Octet
  /\ ip' = ip * Radix + n
  /\ i' = i + 1 /\ n' = 0 /\ ptr' = ptr + 1
  /\ pc' = IF i = 3 THEN "locate" ELSE "parse"
  /\ UNCHANGED <<file, ready, v_index, text, searchVars, verdict>>

PartTooLarge ==
  /\ pc = "parse" /\ text[ptr] > 9 /\ (text[ptr] = DOT \/ i = 3)
  /\ n > Octet
  /\ Return(10 + 2)
  /\ UNCHANGED <<file, ready, v_index, parseVars, l, h, found, region, verdict>>

(* ... or anything else, the end of the text included.                     *)
BadCharacter ==
  /\ pc = "parse" /\ text[ptr] > 9 /\ text[ptr] # DOT /\ i < 3
  /\ Return(10 + 1)
  /\ UNCHANGED <<file, ready, v_index, parseVars, l, h, found, region, verdict>>

-----------------------------------------------------------------------------
(* xdb_search.                                                             *)

s_ptr == file.first[CellOf(ip)]
e_ptr == file.end[CellOf(ip)]

(* The count is made one too large.                                        *)
Locate_OneMore ==
  /\ pc = "locate" /\ ready
  /\ l' = 0 /\ h' = e_ptr - s_ptr + 1 /\ found' = NoBlock
  /\ pc' = "search"
  /\ UNCHANGED <<file, ready, v_index, parseVars, ret, region, verdict>>

(* The upper bound is the end pointer's, one block past the cell's last.   *)
Locate ==
  /\ pc = "locate" /\ ready
  /\ l' = 0 /\ h' = e_ptr - s_ptr /\ found' = NoBlock
  /\ pc' = "search"
  /\ UNCHANGED <<file, ready, v_index, parseVars, ret, region, verdict>>

(* Without index and content the vector is read from the file: fseek on    *)
(* the null handle.                                                        *)
LocateCrashes ==
  /\ pc = "locate" /\ ~ready
  /\ pc' = "crashed"
  /\ UNCHANGED <<file, ready, v_index, parseVars, searchVars, verdict>>

Middle == (l + h) \div 2
Probe  == s_ptr + Middle

(* The bounds close in on the middle and not past it.                      *)
Narrow_ToMiddle ==
  /\ pc = "search" /\ l <= h /\ Probe \in Blocks(file)
  /\ \/ ip < file.sip[Probe] /\ h' = Middle /\ l' = l
     \/ ip >= file.sip[Probe] /\ ip > file.eip[Probe] /\ l' = Middle /\ h' = h
  /\ UNCHANGED <<pc, file, ready, v_index, parseVars, found, ret, region, verdict>>

(* The upper half loses its last block.                                    *)
Narrow_TooFar ==
  /\ pc = "search" /\ l <= h /\ Probe \in Blocks(file)
  /\ \/ ip < file.sip[Probe] /\ h' = Middle - 2 /\ l' = l
     \/ ip >= file.sip[Probe] /\ ip > file.eip[Probe] /\ l' = Middle + 1 /\ h' = h
  /\ UNCHANGED <<pc, file, ready, v_index, parseVars, found, ret, region, verdict>>

Narrow ==
  /\ pc = "search" /\ l <= h /\ Probe \in Blocks(file)
  /\ \/ ip < file.sip[Probe] /\ h' = Middle - 1 /\ l' = l
     \/ ip >= file.sip[Probe] /\ ip > file.eip[Probe] /\ l' = Middle + 1 /\ h' = h
  /\ UNCHANGED <<pc, file, ready, v_index, parseVars, found, ret, region, verdict>>

Hit ==
  /\ pc = "search" /\ l <= h /\ Probe \in Blocks(file)
  /\ Holds(file, Probe, ip)
  /\ found' = Probe /\ pc' = "copy"
  /\ UNCHANGED <<file, ready, v_index, parseVars, l, h, ret, region, verdict>>

(* The bounds have met: region_buffer is emptied, the result is success.   *)
Miss ==
  /\ pc = "search" /\ l > h
  /\ region' = Nowhere /\ Return(0)
  /\ UNCHANGED <<file, ready, v_index, parseVars, l, h, found, verdict>>

(* A block past the end of the file is a short read; ...                   *)
ReadPastEnd ==
  /\ pc = "search" /\ l <= h /\ Probe \notin Blocks(file)
  /\ Return(20 + 2)
  /\ UNCHANGED <<file, ready, v_index, parseVars, l, h, found, region, verdict>>

(* ... and fseek or fread of any block may fail.                           *)
ReadFails ==
  /\ pc = "search" /\ l <= h
  /\ \E err \in {1, 2} : Return(20 + err)
  /\ UNCHANGED <<file, ready, v_index, parseVars, l, h, found, region, verdict>>

(* A region that does not fit.                                             *)
TooLong ==
  /\ pc = "copy" /\ file.len[found] >= Room
  /\ Return(1)
  /\ UNCHANGED <<file, ready, v_index, parseVars, l, h, found, region, verdict>>

Copy ==
  /\ pc = "copy" /\ file.len[found] < Room
  /\ region' = IF file.len[found] = 0 THEN Nowhere ELSE file.region[found]
  /\ Return(0)
  /\ UNCHANGED <<file, ready, v_index, parseVars, l, h, found, verdict>>

CopyFails ==
  /\ pc = "copy" /\ file.len[found] \in 1 .. Room - 1
  /\ \E err \in {1, 2} : Return(30 + err)
  /\ UNCHANGED <<file, ready, v_index, parseVars, l, h, found, region, verdict>>

(* The result code is not looked at.                                       *)
Answer_Unchecked ==
  /\ pc = "answer" /\ pc' = "idle"
  /\ verdict' = IF region \in Chinese THEN "china" ELSE "foreign"
  /\ UNCHANGED <<file, ready, v_index, parseVars, searchVars>>

Answer ==
  /\ pc = "answer" /\ pc' = "idle"
  /\ verdict' = IF ret # 0 THEN "failed"
                ELSE IF region \in Chinese THEN "china" ELSE "foreign"
  /\ UNCHANGED <<file, ready, v_index, parseVars, searchVars>>

-----------------------------------------------------------------------------
(* A signal: ip2region_deinit.  xdb_close looks at the handle, and         *)
(* xdb_close_vector_index reads its argument whatever it is.               *)
Close ==
  /\ pc = "idle"
  /\ pc' = IF v_index THEN "closed" ELSE "crashed"
  /\ ready' = FALSE
  /\ UNCHANGED <<file, v_index, parseVars, searchVars, verdict>>

Proceed ==
  \/ Digit \/ PartEnds \/ PartTooLarge \/ BadCharacter
  \/ Locate \/ LocateCrashes \/ Narrow \/ Hit \/ Miss \/ ReadPastEnd
  \/ TooLong \/ Copy \/ Answer

Lookup == Proceed \/ ReadFails \/ CopyFails

XdbNext == Load \/ LoadFails \/ Call \/ Lookup \/ Close

XdbSpec == XdbInit /\ [][XdbNext]_xdbVars

(* main_loop goes on with a lookup it has begun; the disk need not fail.   *)
XdbFairSpec == XdbSpec /\ WF_xdbVars(Proceed)

-----------------------------------------------------------------------------
(* The reference definitions.                                              *)

(* The parts of an address end at its first four characters that are not   *)
(* digits.                                                                 *)
NonDigits(t, e) == {d \in 1 .. e : t[d] > 9}
End(t, k) == CHOOSE e \in 1 .. Len(t) : t[e] > 9 /\ Cardinality(NonDigits(t, e)) = k
Begin(t, k) == IF k = 1 THEN 1 ELSE End(t, k - 1) + 1

(* The number that the characters a to b of a text write in decimal.       *)
Value(t, a, b) ==
  LET value[j \in 0 .. Len(t)] == IF j < a THEN 0 ELSE value[j - 1] * 10 + t[j]
  IN  value[b]
Part(t, k) == Value(t, Begin(t, k), End(t, k) - 1)

IsAddress(t) ==
  /\ Cardinality(NonDigits(t, Len(t))) >= 4
  /\ \A k \in 1 .. 3 : t[End(t, k)] = DOT
  /\ \A k \in 1 .. 4 : Part(t, k) <= Octet

AddressOf(t) ==
  Part(t, 1) * Radix * Square + Part(t, 2) * Square + Part(t, 3) * Radix + Part(t, 4)

(* The region of an address: that of the block that holds it.              *)
Holders(f, a)  == {k \in InCell(f, CellOf(a)) : Holds(f, k, a)}
RegionOf(f, a) ==
  IF \E k \in Holders(f, a) : f.len[k] > 0
  THEN f.region[CHOOSE k \in Holders(f, a) : TRUE] ELSE Nowhere
HasBlocks(f, a) == f.first[CellOf(a)] < f.end[CellOf(a)]

-----------------------------------------------------------------------------
(* Every variable keeps its type, and found is a block of the file.        *)
XdbTypeOK ==
  /\ pc \in {"start", "idle", "parse", "locate", "search", "copy", "answer", "closed", "crashed"}
  /\ file \in Files /\ ready \in BOOLEAN /\ v_index \in BOOLEAN
  /\ text \in Texts /\ ptr \in 1 .. Len(text) + 1 /\ i \in 0 .. 4
  /\ n \in Nat /\ ip \in IPs
  /\ l \in Nat /\ h \in Int /\ found \in Blocks(file) \cup {NoBlock}
  /\ pc = "copy" => found # NoBlock
  /\ ret \in Nat
  /\ verdict \in {"none", "china", "foreign", "failed"}

(* xdb_check_ip takes exactly the texts that are addresses, with any tail, *)
(* for the number they stand for; it reads no character after the NUL.     *)
ParseIsRight ==
  /\ pc = "parse" => ptr <= Len(text)
  /\ pc = "locate" => IsAddress(text) /\ ip = AddressOf(text)
  /\ pc = "answer" /\ ret \in {11, 12} => ~IsAddress(text)

(* While the search goes on, the block that holds the address, if there is *)
(* one, is between its bounds: neither m - 1 nor m + 1 steps over it, and  *)
(* the inclusive upper bound costs nothing.                                *)
BlockIsBetween ==
  pc = "search" => \A k \in Holders(file, ip) : s_ptr + l <= k /\ k <= s_ptr + h

(* For an address of the database no probe leaves the blocks of its cell,  *)
(* although the upper bound is the block after them: another cell's block  *)
(* or the end of the file.                                                 *)
ProbesStayInside ==
  pc = "search" /\ Holders(file, ip) # {} => l <= h /\ Probe \in InCell(file, CellOf(ip))

(* A search that succeeds was made in an open file, and region_buffer has  *)
(* the region of the block that holds the address; it is empty if there is *)
(* no such block (in a cell without blocks the header is searched).        *)
SearchIsRight ==
  pc = "answer" /\ ret = 0 =>
    ready /\ (HasBlocks(file, ip) => region = RegionOf(file, ip))

(* What search_ip_string tells main_loop: an address is Chinese or foreign *)
(* as its block's region says, foreign if it has none; and only an address *)
(* gets such an answer.                                                    *)
LookupIsRight ==
  verdict \in {"china", "foreign"} =>
    /\ IsAddress(text)
    /\ HasBlocks(file, AddressOf(text)) =>
         (verdict = "china" <=> RegionOf(file, AddressOf(text)) \in Chinese)

(* Every lookup comes to an answer, or ends the daemon if the database was *)
(* never opened: the search narrows its bounds with every probe.           *)
LookupEnds == pc = "parse" ~> pc = "idle" \/ (pc = "crashed" /\ ~ready)
=============================================================================
