--------------------------- MODULE DnsEventProofs ---------------------------
(***************************************************************************)
(* Proofs about DnsEvent: for every packet, database and number of slots,  *)
(* and wherever memory fails, the variables keep their types, the lists of *)
(* the event stay linked, nothing but the event stays allocated, and the   *)
(* record that is logged is the one that the text read asks for, as long   *)
(* as what main_loop does is defined.                                      *)
(*                                                                         *)
(* Linked alone is not inductive: an item is only ever added to a list if  *)
(* it is in none, so the event and, while it is filled, its array have to  *)
(* be (RootInv); and only addresses go into the array (FoundInv).          *)
(*                                                                         *)
(* For the memory, TreeInv says that each item is the event, its array, or *)
(* behind an older item (so it is reached from one of the two), and        *)
(* OwnedInv what main_loop has yet to free at each step.                   *)
(*                                                                         *)
(* The record needs four more parts.  SelectInv: found is what the filter  *)
(* selects of the matches seen so far.  FailedInv: no step has failed      *)
(* before its turn.  ShownInv: the tree on the heap shows the fields and   *)
(* addresses made so far, in order.  LoggedInv: what the log has.          *)
(***************************************************************************)
EXTENDS DnsEvent, CJsonProofs

RootInv ==
  /\ event # NULL => Unlinked(json, event)
  /\ pc = "addresses" /\ ip_array # NULL => Unlinked(json, ip_array) /\ ip_array # event

FoundInv ==
  /\ pc \in {"parse", "name", "match"} => found = <<>>
  /\ pc \in {"event", "fields"} => i \in Steps
  /\ \A k \in 1 .. Len(found) : matches[found[k]] \in Addresses

EventInv == EventTypeOK /\ Sound(json) /\ RootInv /\ FoundInv

LEMMA FieldFacts ==
  /\ Len(Fields) = 5 /\ Steps = 1 .. 5 /\ "IPAddresses" \in Keys /\ "Unknown" \in Values
  /\ \A k \in Steps : Fields[k] \in Keys /\ Fields[k] \in Values
  /\ Addresses \subseteq Values /\ MaxMatches \in Nat /\ NoMatch \notin Addresses
<1>1. Len(Fields) = 5 /\ Steps = 1 .. 5
  BY DEF Fields, Steps
<1>2. \A k \in Steps : Fields[k] \in Range(Fields)
  BY <1>1 DEF Range, Fields, Steps
<1> QED BY <1>1, <1>2, EventAssumption

LEMMA EmptySound == Sound(EmptyHeap) /\ \A k : ~Live(EmptyHeap, k)
<1>1. EmptyHeap \in Heaps
  BY ItemFacts DEF EmptyHeap, Heaps, Types
<1>2. \A k : ~Live(EmptyHeap, k)
  BY DEF Live, EmptyHeap
<1> QED BY <1>1, <1>2 DEF Sound, Linked, NextIsUndone, FirstKeepsLast, PrevIsUndone

LEMMA Beginning ==
  /\ <<>> \in Seq(Addresses) /\ <<>> \in Seq(Addresses \cup {NoMatch})
  /\ <<>> \in Seq(1 .. Len(<<>>)) /\ Len(<<>>) = 0 /\ 0 <= MaxMatches
  /\ 1 \in Nat \ {0} /\ \A s \in Seq(Addresses) : 0 \in 0 .. Len(s)
  /\ NULL \in Links /\ EmptyHeap \in Heaps
<1>1. 0 <= MaxMatches /\ NULL \in Links /\ EmptyHeap \in Heaps
  BY EmptySound, FieldFacts, ItemFacts DEF Sound
<1>2. \A s \in Seq(Addresses) : 0 \in 0 .. Len(s)
  OBVIOUS
<1> QED BY <1>1, <1>2

LEMMA EventInitInv == EventInit => EventInv
<1> SUFFICES ASSUME EventInit PROVE EventInv OBVIOUS
<1>1. EventTypeOK
  BY Beginning DEF EventInit, EventTypeOK
<1>2. Sound(json) /\ RootInv /\ FoundInv
  BY EmptySound DEF EventInit, RootInv, FoundInv
<1> QED BY <1>1, <1>2 DEF EventInv

(* The next packet: a tree of its own, and nothing found yet.              *)
LEMMA DequeueStep == ASSUME EventInv, Dequeue PROVE EventInv'
<1>1. /\ pc' = "parse" /\ packet' \in Packets /\ text' \in packet'.readings /\ pid_name' = FALSE
      /\ offset' = 0 /\ matches' = <<>> /\ i' = 1 /\ found' = <<>>
      /\ json' = EmptyHeap /\ event' = NULL /\ ip_array' = NULL /\ region' = region
  BY DEF Dequeue
<1>2. text' \in Seq(Addresses)
  BY <1>1, EventAssumption
<1>3. EventTypeOK'
  BY <1>1, <1>2, Beginning DEF EventInv, EventTypeOK
<1>4. Sound(json') /\ RootInv' /\ FoundInv'
  BY <1>1, EmptySound DEF RootInv, FoundInv
<1> QED BY <1>3, <1>4 DEF EventInv

(* The steps that leave counters and tree alone.                           *)
LEMMA PlainStep ==
  ASSUME EventInv,
         \/ ReadPastBlock \/ PraseMessage \/ GetPidName \/ MatchOverrun \/ MatchEnd \/ LookUpNull
         \/ PrintEvent \/ LogWrite \/ FreeName \/ FreeMatches \/ FreeNode \/ UNCHANGED vars
  PROVE  EventInv'
<1>1. /\ UNCHANGED <<region, packet, text, offset, matches, i, found, json, event, ip_array>>
      /\ pid_name' \in BOOLEAN
  BY DEF EventInv, EventTypeOK, ReadPastBlock, PraseMessage, GetPidName, MatchOverrun, MatchEnd, LookUpNull,
     PrintEvent, LogWrite, FreeName, FreeMatches, FreeNode, vars, counters, tree
<1>2. /\ pc' \in {"idle", "name", "match", "filter", "log", "free_name", "free_matches", "free_node",
                  "undefined"} \/ pc' = pc
      /\ pc' \in {"name", "match"} => pc \in {"parse", "name", "match"}
  BY DEF ReadPastBlock, PraseMessage, GetPidName, MatchOverrun, MatchEnd, LookUpNull,
     PrintEvent, LogWrite, FreeName, FreeMatches, FreeNode, vars
<1>3. EventTypeOK'
  BY <1>1, <1>2 DEF EventInv, EventTypeOK
<1>4. Sound(json')
  BY <1>1 DEF EventInv
<1>5. RootInv'
  BY <1>1, <1>2 DEF EventInv, RootInv
<1>6. FoundInv'
  BY <1>1, <1>2 DEF EventInv, FoundInv
<1> QED BY <1>3, <1>4, <1>5, <1>6 DEF EventInv

(* A match, or NULL for one.                                               *)
LEMMA FindMatchStep == ASSUME EventInv, FindMatch PROVE EventInv'
<1> DEFINE A == Addresses \cup {NoMatch}
<1>1. /\ UNCHANGED <<region, pc, packet, text, pid_name, i, found, json, event, ip_array>>
      /\ pc = "match" /\ offset < Len(text) /\ Len(matches) < MaxMatches
      /\ offset' = offset + 1
      /\ matches' = Append(matches, text[offset + 1]) \/ matches' = Append(matches, NoMatch)
  BY DEF FindMatch, tree
<1>2. /\ text \in Seq(Addresses) /\ matches \in Seq(A) /\ offset \in 0 .. Len(text)
      /\ Len(matches) = offset /\ MaxMatches \in Nat /\ found = <<>>
  BY <1>1, FieldFacts DEF EventInv, EventTypeOK, FoundInv
<1>3. Len(text) \in Nat /\ text[offset + 1] \in A
  BY <1>1, <1>2
<1>9. PICK x \in A : matches' = Append(matches, x)
  BY <1>1, <1>3
<1> HIDE DEF A
<1>4. matches' \in Seq(A) /\ Len(matches') = offset + 1
  BY <1>9, <1>2
<1>5. offset' \in 0 .. Len(text') /\ offset' <= MaxMatches /\ Len(matches') = offset'
  BY <1>1, <1>2, <1>3, <1>4
<1>6. EventTypeOK'
  BY <1>1, <1>2, <1>4, <1>5 DEF EventInv, EventTypeOK, A
<1>7. Sound(json') /\ RootInv'
  BY <1>1 DEF EventInv, RootInv
<1>8. FoundInv'
  BY <1>1, <1>2 DEF FoundInv
<1> QED BY <1>6, <1>7, <1>8 DEF EventInv

(* A lookup: what it finds is the index of an address.                     *)
LEMMA LookUpStep == ASSUME EventInv, LookUp PROVE EventInv'
<1> DEFINE I == 1 .. Len(matches)
<1>1. /\ UNCHANGED <<region, pc, packet, text, pid_name, offset, matches, json, event, ip_array>>
      /\ pc = "filter" /\ i <= Len(matches) /\ matches[i] # NoMatch /\ i' = i + 1
      /\ found' = found \/ found' = Append(found, i)
  BY DEF LookUp, tree
<1>2. /\ i \in Nat \ {0} /\ matches \in Seq(Addresses \cup {NoMatch}) /\ found \in Seq(I)
      /\ \A k \in 1 .. Len(found) : matches[found[k]] \in Addresses
  BY DEF EventInv, EventTypeOK, FoundInv
<1>3. i \in I /\ matches[i] \in Addresses
  BY <1>1, <1>2
<1> HIDE DEF I
<1>4. /\ found' \in Seq(I) /\ Len(found) \in Nat
      /\ \A k \in 1 .. Len(found') : found'[k] = i \/ (k \in 1 .. Len(found) /\ found'[k] = found[k])
  <2>1. CASE found' = found
    BY <1>2, <2>1
  <2>2. CASE found' = Append(found, i)
    BY <1>2, <1>3, <2>2
  <2> QED BY <1>1, <2>1, <2>2
<1>5. EventTypeOK'
  BY <1>1, <1>2, <1>4 DEF EventInv, EventTypeOK, I
<1>6. Sound(json') /\ RootInv'
  BY <1>1 DEF EventInv, RootInv
<1>7. FoundInv'
  BY <1>1, <1>2, <1>3, <1>4 DEF FoundInv
<1> QED BY <1>5, <1>6, <1>7 DEF EventInv

LEMMA FilterEndStep == ASSUME EventInv, FilterEnd PROVE EventInv'
<1>1. /\ UNCHANGED <<region, packet, text, pid_name, offset, matches, found, json, event, ip_array>>
      /\ pc' \in {"free_name", "event"} /\ i' = 1
  BY DEF FilterEnd, tree
<1>2. EventTypeOK'
  BY <1>1 DEF EventInv, EventTypeOK
<1>3. Sound(json') /\ RootInv' /\ FoundInv'
  BY <1>1, FieldFacts DEF EventInv, RootInv, FoundInv
<1> QED BY <1>2, <1>3 DEF EventInv

-----------------------------------------------------------------------------
(* The constructors of the two containers.                                 *)
LEMMA CreateEventStep == ASSUME EventInv, CreateEvent PROVE EventInv'
<1>1. PICK r \in New(json, "object") : json' = r.json /\ event' = r.item
  BY DEF CreateEvent
<1>2. /\ UNCHANGED <<region, packet, text, pid_name, offset, matches, i, found, ip_array>>
      /\ pc = "event" /\ pc' = "fields"
  BY DEF CreateEvent, counters
<1>3. Created(json, r) /\ r.item \in Links
  <2>1. Created(json, r)
    BY NewSound DEF EventInv, Types
  <2>2. r.item \in Links
    BY ItemFacts DEF New, Fresh
  <2> QED BY <2>1, <2>2
<1>4. Sound(json') /\ RootInv'
  BY <1>1, <1>2, <1>3 DEF Created, RootInv, Leaf
<1>5. EventTypeOK'
  BY <1>1, <1>2, <1>3, <1>4 DEF EventInv, EventTypeOK, Sound
<1>6. FoundInv'
  BY <1>2, FieldFacts DEF EventInv, FoundInv
<1> QED BY <1>4, <1>5, <1>6 DEF EventInv

LEMMA CreateArrayStep == ASSUME EventInv, CreateArray PROVE EventInv'
<1>1. PICK r \in New(json, "array") : json' = r.json /\ ip_array' = r.item
  BY DEF CreateArray
<1>2. /\ UNCHANGED <<region, packet, text, pid_name, offset, matches, found, event>>
      /\ pc = "array" /\ pc' = "addresses" /\ i' = 1
  BY DEF CreateArray
<1>3. Created(json, r) /\ r.item \in Links
  <2>1. Created(json, r)
    BY NewSound DEF EventInv, Types
  <2>2. r.item \in Links
    BY ItemFacts DEF New, Fresh
  <2> QED BY <2>1, <2>2
<1>4. Sound(json') /\ RootInv'
  BY <1>1, <1>2, <1>3 DEF EventInv, Created, RootInv, Leaf
<1>5. EventTypeOK'
  BY <1>1, <1>2, <1>3, <1>4 DEF EventInv, EventTypeOK, Sound
<1>6. FoundInv'
  BY <1>2 DEF EventInv, FoundInv
<1> QED BY <1>4, <1>5, <1>6 DEF EventInv

(* A field: added, or deleted again.                                       *)
LEMMA AddFieldStep == ASSUME EventInv, AddField PROVE EventInv'
<1> DEFINE field == Fields[i]
           created == IF field \in {"UID", "PID"} THEN CreateNumber(json, field)
                      ELSE CreateString(json, Value(field))
<1>1. PICK a \in AddNew(event, field, created) : json' = a.json
  BY DEF AddField
<1>2. /\ UNCHANGED <<region, packet, text, pid_name, offset, matches, found, event, ip_array>>
      /\ pc = "fields" /\ i \in Steps /\ i' = i + 1
      /\ pc' = IF i = Len(Fields) THEN "array" ELSE pc
  BY DEF AddField
<1>3. Sound(json) /\ field \in Keys /\ field \in Values /\ Value(field) \in Values
      /\ (event = NULL \/ Unlinked(json, event))
  BY <1>2, FieldFacts DEF EventInv, RootInv, Value
<1> HIDE DEF field
<1>4. \A r \in created : Created(json, r)
  BY <1>3, CreateNumberSound, CreateStringSound
<1> HIDE DEF created
<1>5. Sound(json') /\ \A j : Unlinked(json, j) => Unlinked(json', j)
  BY <1>1, <1>3, <1>4, AddNewSound
<1>6. RootInv'
  BY <1>2, <1>5 DEF EventInv, RootInv
<1>7. i' \in Nat \ {0} /\ (pc' = "fields" => i' \in Steps) /\ pc' \in {"array", "fields"}
  BY <1>2, FieldFacts
<1>8. EventTypeOK'
  BY <1>2, <1>5, <1>7 DEF EventInv, EventTypeOK, Sound
<1>9. FoundInv'
  BY <1>2, <1>7 DEF EventInv, FoundInv
<1> QED BY <1>5, <1>6, <1>8, <1>9 DEF EventInv

(* An address: into the array, or into nothing.                            *)
LEMMA AddAddressStep == ASSUME EventInv, AddAddress PROVE EventInv'
<1>1. PICK r \in CreateString(json, matches[found[i]]) :
        json' = AddToArray(r.json, ip_array, r.item)
  BY DEF AddAddress
<1>2. /\ UNCHANGED <<region, pc, packet, text, pid_name, offset, matches, found, event, ip_array>>
      /\ pc = "addresses" /\ i <= Len(found) /\ i' = i + 1
  BY DEF AddAddress
<1>3. /\ i \in Nat \ {0} /\ found \in Seq(1 .. Len(matches))
      /\ \A k \in 1 .. Len(found) : matches[found[k]] \in Addresses
      /\ Sound(json)
      /\ (event = NULL \/ Unlinked(json, event)) /\ (ip_array = NULL \/ Unlinked(json, ip_array))
      /\ (ip_array # NULL => ip_array # event)
  BY <1>2 DEF EventInv, EventTypeOK, FoundInv, RootInv
<1>4. matches[found[i]] \in Values
  <2>1. i \in 1 .. Len(found)
    BY <1>2, <1>3
  <2> QED BY <1>3, <2>1, FieldFacts
<1>5. Created(json, r)
  BY <1>1, <1>3, <1>4, CreateStringSound
<1>6. /\ Sound(r.json) /\ (r.item = NULL \/ Unlinked(r.json, r.item))
      /\ \A j : Unlinked(json, j) => Unlinked(r.json, j) /\ j # r.item
  BY <1>5 DEF Created, Leaf
<1>7. ip_array = NULL \/ (ip_array \in Items /\ Live(r.json, ip_array))
  BY <1>3, <1>6 DEF Unlinked
<1>8. Sound(json') /\ \A j : Unlinked(r.json, j) /\ j # r.item => Unlinked(json', j)
  BY <1>1, <1>6, <1>7, AddToArraySound
<1>9. RootInv'
  BY <1>2, <1>3, <1>6, <1>8 DEF RootInv
<1>10. EventTypeOK'
  BY <1>2, <1>3, <1>8 DEF EventInv, EventTypeOK, Sound
<1>11. FoundInv'
  BY <1>2 DEF EventInv, FoundInv
<1> QED BY <1>8, <1>9, <1>10, <1>11 DEF EventInv

(* The array goes into the object: of the two only the event stays out.    *)
LEMMA AddArrayStep == ASSUME EventInv, AddArray PROVE EventInv'
<1>1. PICK a \in AddToObject(json, event, "IPAddresses", ip_array) : json' = a.json
  BY DEF AddArray
<1>2. /\ UNCHANGED <<region, packet, text, pid_name, offset, matches, i, found, event, ip_array>>
      /\ pc = "addresses" /\ pc' = "print"
  BY DEF AddArray, counters
<1>3. /\ Sound(json) /\ (event = NULL \/ Unlinked(json, event))
      /\ (ip_array = NULL \/ Unlinked(json, ip_array)) /\ (ip_array # NULL => ip_array # event)
  BY <1>2 DEF EventInv, RootInv
<1>4. event = NULL \/ (event \in Items /\ Live(json, event))
  BY <1>3 DEF Unlinked
<1>5. Sound(json') /\ \A j : Unlinked(json, j) /\ j # ip_array => Unlinked(json', j)
  BY <1>1, <1>3, <1>4, FieldFacts, AddToObjectSound
<1>6. RootInv'
  BY <1>2, <1>3, <1>5 DEF RootInv
<1>7. EventTypeOK'
  BY <1>2, <1>5 DEF EventInv, EventTypeOK, Sound
<1>8. FoundInv'
  BY <1>2 DEF EventInv, FoundInv
<1> QED BY <1>5, <1>6, <1>7, <1>8 DEF EventInv

LEMMA EventNextInv == EventInv /\ [EventNext]_vars => EventInv'
BY DequeueStep, PlainStep, FindMatchStep, LookUpStep, FilterEndStep, CreateEventStep,
   CreateArrayStep, AddFieldStep, AddAddressStep, AddArrayStep DEF EventNext

-----------------------------------------------------------------------------
(* main_loop keeps the invariant, packet after packet.                     *)
THEOREM EventInvariance == EventSpec => []EventInv
BY EventInitInv, EventNextInv, PTL DEF EventSpec

(* Every variable of main_loop keeps its type; in particular what is       *)
(* reported is the index of a match, and no slot past the last is used.    *)
THEOREM EventTypeCorrect == EventSpec => []EventTypeOK
<1>1. EventInv => EventTypeOK
  BY DEF EventInv
<1> QED BY <1>1, EventInvariance, PTL

(* Whatever allocation of cJSON fails, the lists of the event's tree stay  *)
(* linked: no item is lost from one or in two of them.                     *)
THEOREM ListsCorrect == EventSpec => []ListsAreLinked
<1>1. EventInv => ListsAreLinked
  BY DEF EventInv, Sound, ListsAreLinked
<1> QED BY <1>1, EventInvariance, PTL

-----------------------------------------------------------------------------
(* What remains of the tree, and what main_loop owns.                      *)

(* The tree hangs together: each item is the event, the array or behind    *)
(* one of them, unless there is no array.                                  *)
TreeInv ==
  /\ Tight(json)
  /\ pc \in {"parse", "name", "match", "filter", "event"} => \A k \in Items : ~Live(json, k)
  /\ pc \in {"parse", "name", "match", "filter", "event", "fields", "array"} => ip_array = NULL
  /\ pc = "addresses" /\ ip_array = NULL => <<"array", 0>> \in failed
  /\ <<"array", 0>> \notin failed => Rooted(json, {event, ip_array})

(* What is yet to be freed, at each step.                                  *)
Copies == {Match(k) : k \in DOMAIN matches}

OwnedInv ==
  /\ pc = "idle" => owned = {}
  /\ pc \in {"parse", "name", "free_node"} => owned \subseteq {Node}
  /\ pc = "free_matches" => owned \subseteq {Node} \cup Copies
  /\ pc \in {"match", "filter", "event", "fields", "array", "addresses", "print", "free_name"} =>
       owned \subseteq {Node, Name} \cup Copies
  /\ pc = "log" => owned \subseteq {Node, Name, Text} \cup Copies

LEMMA OwnedStep == ASSUME EventInv, OwnedInv, [EventNext]_vars PROVE OwnedInv'
<1>1. CASE FindMatch
  <2>1. /\ pc = "match" /\ pc' = "match" /\ owned \subseteq {Node, Name} \cup Copies
        /\ matches \in Seq(Addresses \cup {NoMatch})
        /\ text[offset + 1] \in Addresses \cup {NoMatch}
    BY <1>1 DEF FindMatch, OwnedInv, EventInv, EventTypeOK
  <2>2. PICK x \in Addresses \cup {NoMatch} : matches' = Append(matches, x)
    BY <1>1, <2>1 DEF FindMatch
  <2>3. DOMAIN matches \subseteq DOMAIN matches' /\ Len(matches') \in DOMAIN matches'
    BY <2>1, <2>2
  <2>4. owned' \in {owned, owned \cup {Match(Len(matches'))}}
    BY <1>1 DEF FindMatch
  <2>5. owned' \subseteq {Node, Name} \cup Copies'
    BY <2>1, <2>3, <2>4 DEF Copies
  <2> QED BY <2>1, <2>5 DEF OwnedInv
<1>2. CASE Dequeue
  BY <1>2 DEF Dequeue, OwnedInv
<1>3. CASE (EventNext /\ ~FindMatch /\ ~Dequeue) \/ UNCHANGED vars
  <2>1. matches' = matches
    BY <1>3 DEF EventNext, ReadPastBlock, PraseMessage, GetPidName, MatchOverrun, MatchEnd, LookUp, LookUpNull,
       FilterEnd, CreateEvent, AddField, CreateArray, AddAddress, AddArray, PrintEvent, LogWrite,
       FreeName, FreeMatches, FreeNode, vars, counters
  <2>2. Copies' = Copies
    BY <2>1 DEF Copies
  <2>3. CASE ReadPastBlock \/ PraseMessage \/ MatchOverrun \/ MatchEnd \/ LookUp \/ LookUpNull \/ FilterEnd
    BY <2>2, <2>3 DEF OwnedInv, ReadPastBlock, PraseMessage, MatchOverrun, MatchEnd, LookUp, LookUpNull, FilterEnd
  <2>4. CASE CreateEvent \/ AddField \/ CreateArray \/ AddAddress \/ AddArray
    BY <2>2, <2>4, FieldFacts DEF OwnedInv, CreateEvent, AddField, CreateArray, AddAddress, AddArray
  <2>5. CASE GetPidName \/ PrintEvent \/ LogWrite \/ FreeName \/ FreeMatches \/ FreeNode
    BY <2>2, <2>5
       DEF OwnedInv, GetPidName, PrintEvent, LogWrite, FreeName, FreeMatches, FreeNode, Copies
  <2>6. CASE UNCHANGED vars
    BY <2>2, <2>6 DEF OwnedInv, vars
  <2> QED BY <1>3, <2>3, <2>4, <2>5, <2>6 DEF EventNext
<1> QED BY <1>1, <1>2, <1>3

LEMMA EmptyTree ==
  Tight(EmptyHeap) /\ (\A k \in Items : ~Live(EmptyHeap, k)) /\ \A r : Rooted(EmptyHeap, r)
<1>1. \A k : IsFree(EmptyHeap, k)
  BY DEF IsFree, EmptyHeap
<1> QED BY <1>1, EmptySound DEF Tight, Rooted, Sound

LEMMA TreeInitInv == EventInit => TreeInv /\ OwnedInv
BY EmptyTree DEF EventInit, TreeInv, OwnedInv

(* A new item that is a root.                                              *)
LEMMA NewRoot ==
  ASSUME NEW h, NEW r, NEW type, NEW value, Made(h, r, type, value), NEW roots, Rooted(h, roots)
  PROVE  Tight(r.json) /\ Rooted(r.json, roots \cup {r.item})
<1>1. \A j \in Items : Live(r.json, j) => Live(h, j) \/ j \in {r.item}
  BY DEF Made, NoneNew, Newest
<1> QED BY <1>1, KeptRooted DEF Made

(* A new item that is hung into a list.                                    *)
LEMMA NewHung ==
  ASSUME NEW h, NEW f, NEW x \in Items, NEW type, NEW value,
         Made(h, [json |-> f, item |-> x], type, value),
         NEW list \in Items, Unlinked(h, list)
  PROVE  /\ Tight(AddToArray(f, list, x))
         /\ \A roots : Rooted(h, roots) => Rooted(AddToArray(f, list, x), roots)
<1>1. /\ Sound(f) /\ Tight(f) /\ Keeps(h, f) /\ Unlinked(f, x) /\ x # NULL
      /\ \A j \in Items : Live(f, j) => j = x \/ (j < x /\ Live(h, j))
      /\ Live(f, list) /\ list # x
  BY ItemFacts DEF Made, NoneNew, Newest, Created, Leaf, Unlinked
<1>2. ASSUME NEW roots, Rooted(f, roots \cup {x})
      PROVE  Tight(AddToArray(f, list, x)) /\ Rooted(AddToArray(f, list, x), roots)
  BY <1>1, <1>2, HungRooted
<1>3. Rooted(f, Items \cup {x})
  BY DEF Rooted
<1>4. Tight(AddToArray(f, list, x))
  BY <1>2, <1>3
<1>5. ASSUME NEW roots, Rooted(h, roots) PROVE Rooted(f, roots \cup {x})
  BY <1>5, NewRoot
<1> QED BY <1>2, <1>4, <1>5

LEMMA TreeStep == ASSUME EventInv, TreeInv, [EventNext]_vars PROVE TreeInv'
<1> USE DEF EventInv
<1>1. CASE Dequeue
  BY <1>1, EmptyTree DEF Dequeue, TreeInv
<1>2. CASE \/ ReadPastBlock \/ PraseMessage \/ GetPidName \/ FindMatch \/ MatchOverrun \/ MatchEnd \/ LookUp
           \/ LookUpNull \/ FilterEnd \/ PrintEvent \/ LogWrite \/ FreeName \/ FreeMatches
           \/ FreeNode \/ UNCHANGED vars
  <2>1. UNCHANGED <<json, event, ip_array>>
    BY <1>2 DEF ReadPastBlock, PraseMessage, GetPidName, FindMatch, MatchOverrun, MatchEnd, LookUp, LookUpNull,
       FilterEnd, PrintEvent, LogWrite, FreeName, FreeMatches, FreeNode, vars, tree
  <2>2. /\ pc' \in {"parse", "name", "match", "filter", "event"} =>
             pc \in {"parse", "name", "match", "filter", "event"}
        /\ pc' \in {"fields", "array", "addresses"} => pc' = pc
    BY <1>2 DEF ReadPastBlock, PraseMessage, GetPidName, FindMatch, MatchOverrun, MatchEnd, LookUp, LookUpNull,
       FilterEnd, PrintEvent, LogWrite, FreeName, FreeMatches, FreeNode, vars
  <2>3. failed \subseteq failed'
    BY <1>2 DEF ReadPastBlock, PraseMessage, GetPidName, FindMatch, MatchOverrun, MatchEnd, LookUp, LookUpNull,
       FilterEnd, PrintEvent, LogWrite, FreeName, FreeMatches, FreeNode, vars
  <2> QED BY <2>1, <2>2, <2>3 DEF TreeInv
<1>3. CASE CreateEvent
  <2>1. PICK r \in New(json, "object") :
          json' = r.json /\ event' = r.item /\ FailedIf(r.item = NULL, <<"event", 0>>)
    BY <1>3 DEF CreateEvent
  <2>2. pc = "event" /\ pc' = "fields" /\ ip_array' = ip_array /\ ip_array = NULL
    BY <1>3 DEF CreateEvent, TreeInv
  <2>3. Made(json, r, "object", NoValue)
    BY NewIs DEF TreeInv, Types
  <2>4. Rooted(json, {NULL})
    BY <2>2 DEF TreeInv, Rooted
  <2>5. Tight(r.json) /\ Rooted(r.json, {NULL} \cup {r.item})
    BY <2>3, <2>4, NewRoot
  <2>6. {event', ip_array'} = {NULL} \cup {r.item}
    BY <2>1, <2>2
  <2> QED BY <2>1, <2>2, <2>5, <2>6 DEF TreeInv
<1>4. CASE AddField
  <2> DEFINE field == Fields[i]
             number == field \in {"UID", "PID"}
             created == IF number THEN CreateNumber(json, field) ELSE CreateString(json, Value(field))
             type == IF number THEN "number" ELSE "string"
             value == IF number THEN field ELSE Value(field)
  <2>1. PICK a \in AddNew(event, field, created) :
          json' = a.json /\ FailedIf(~a.added, <<field, 0>>)
    BY <1>4 DEF AddField
  <2>2. /\ UNCHANGED <<event, ip_array>> /\ pc = "fields" /\ i \in Steps /\ pc' \in {"fields", "array"}
        /\ failed \subseteq failed'
    <3>1. failed \subseteq failed'
      BY <2>1 DEF FailedIf
    <3> QED BY <1>4, <3>1 DEF AddField
  <2>3. field \in Keys /\ field \in Values /\ Value(field) \in Values
    BY <2>2, FieldFacts DEF Value
  <2> HIDE DEF field
  <2>4. \A r \in created : r = [json |-> r.json, item |-> r.item] /\ Made(json, r, type, value)
    BY <2>3, CreateNumberIs, CreateStringIs, OutcomeRecords DEF TreeInv
  <2> HIDE DEF created, type, value
  <2>5. \/ /\ ~a.added /\ Tight(a.json) /\ Keeps(json, a.json)
           /\ \A j \in Items : Live(a.json, j) => Live(json, j)
        \/ /\ event # NULL
           /\ \E f \in Heaps, x \in Items :
                /\ Made(json, [json |-> f, item |-> x], type, value) /\ f.key[x] = field
                /\ a.json = AddToArray(f, event, x) /\ x # event
    BY <2>1, <2>3, <2>4, AddNewIs, SMTT(30) DEF TreeInv
  <2>6. Tight(a.json) /\ \A roots : Rooted(json, roots) => Rooted(a.json, roots)
    <3>1. CASE ~a.added /\ Tight(a.json) /\ Keeps(json, a.json)
               /\ \A j \in Items : Live(a.json, j) => Live(json, j)
      <4>1. \A roots : Rooted(json, roots) => Rooted(a.json, roots \cup {})
        BY <3>1, KeptRooted
      <4>2. \A roots : roots \cup {} = roots
        OBVIOUS
      <4> QED BY <3>1, <4>1, <4>2
    <3>2. ASSUME event # NULL, NEW f \in Heaps, NEW x \in Items,
                 Made(json, [json |-> f, item |-> x], type, value),
                 a.json = AddToArray(f, event, x)
          PROVE  Tight(a.json) /\ \A roots : Rooted(json, roots) => Rooted(a.json, roots)
      <4>1. event \in Items /\ Unlinked(json, event)
        BY <3>2 DEF RootInv, Unlinked
      <4> QED BY <3>2, <4>1, NewHung
    <3> QED BY <2>5, <3>1, <3>2
  <2> QED BY <2>1, <2>2, <2>6 DEF TreeInv
<1>5. CASE CreateArray
  <2>1. PICK r \in New(json, "array") :
          json' = r.json /\ ip_array' = r.item /\ FailedIf(r.item = NULL, <<"array", 0>>)
    BY <1>5 DEF CreateArray
  <2>2. pc = "array" /\ pc' = "addresses" /\ event' = event /\ ip_array = NULL
    BY <1>5 DEF CreateArray, TreeInv
  <2>3. Made(json, r, "array", NoValue)
    BY NewIs DEF TreeInv, Types
  <2>4. Tight(r.json) /\ \A roots : Rooted(json, roots) => Rooted(r.json, roots \cup {r.item})
    BY <2>3, NewRoot DEF Made
  <2>5. CASE r.item = NULL
    BY <2>1, <2>2, <2>4, <2>5 DEF TreeInv, FailedIf
  <2>6. CASE r.item # NULL
    <3>1. ASSUME <<"array", 0>> \notin failed PROVE Rooted(r.json, {event, r.item})
      <4>1. Rooted(json, {event, NULL})
        BY <2>2, <3>1 DEF TreeInv
      <4>2. Rooted(r.json, {event, NULL, r.item})
        <5>1. {event, NULL} \cup {r.item} = {event, NULL, r.item}
          OBVIOUS
        <5> QED BY <2>4, <4>1, <5>1
      <4> QED BY <4>2, ItemFacts DEF Rooted
    <3> QED BY <2>1, <2>2, <2>4, <2>6, <3>1 DEF TreeInv, FailedIf
  <2> QED BY <2>5, <2>6
<1>6. CASE AddAddress
  <2>1. PICK r \in CreateString(json, matches[found[i]]) :
          /\ json' = AddToArray(r.json, ip_array, r.item)
          /\ FailedIf(r.item = NULL \/ ip_array = NULL, <<"address", i>>)
    BY <1>6 DEF AddAddress
  <2>2. /\ UNCHANGED <<event, ip_array>> /\ pc = "addresses" /\ pc' = "addresses"
        /\ failed \subseteq failed' /\ (<<"array", 0>> \in failed' => <<"array", 0>> \in failed)
    <3>1. failed \subseteq failed' /\ (<<"array", 0>> \in failed' => <<"array", 0>> \in failed)
      BY <2>1 DEF FailedIf
    <3> QED BY <1>6, <3>1 DEF AddAddress
  <2>3. Made(json, r, "string", matches[found[i]]) /\ r = [json |-> r.json, item |-> r.item]
    <3>1. matches[found[i]] \in Values
      BY <1>6, FieldFacts DEF AddAddress, FoundInv, EventTypeOK
    <3> QED BY <3>1, CreateStringIs, OutcomeRecords DEF TreeInv
  <2>4. CASE r.item = NULL
    <3>1. json' = r.json /\ Tight(r.json)
      BY <2>1, <2>3, <2>4 DEF AddToArray, Made
    <3>2. \A roots : Rooted(json, roots) => Rooted(r.json, roots)
      <4>1. \A j \in Items : Live(r.json, j) => Live(json, j) \/ j \in {}
        BY <2>3, <2>4, ItemFacts DEF Made, NoneNew, Newest
      <4>2. \A roots : Rooted(json, roots) => Rooted(r.json, roots \cup {})
        BY <2>3, <4>1, KeptRooted DEF Made
      <4>3. \A roots : roots \cup {} = roots
        OBVIOUS
      <4> QED BY <4>2, <4>3
    <3> QED BY <2>2, <3>1, <3>2 DEF TreeInv
  <2>5. CASE r.item # NULL /\ ip_array = NULL
    <3>1. json' = r.json /\ Tight(r.json)
      BY <2>1, <2>3, <2>5 DEF AddToArray, Made
    <3>2. <<"array", 0>> \in failed
      BY <2>2, <2>5 DEF TreeInv
    <3> QED BY <2>2, <3>1, <3>2 DEF TreeInv
  <2>6. CASE r.item # NULL /\ ip_array # NULL
    <3>1. r.item \in Items /\ ip_array \in Items /\ Unlinked(json, ip_array)
      BY <2>2, <2>3, <2>6 DEF Made, NoneNew, Newest, RootInv, Unlinked
    <3>2. /\ Tight(json') /\ \A roots : Rooted(json, roots) => Rooted(json', roots)
      BY <2>1, <2>3, <3>1, NewHung
    <3> QED BY <2>2, <3>2 DEF TreeInv
  <2> QED BY <2>4, <2>5, <2>6
<1>7. CASE AddArray
  <2>1. PICK a \in AddToObject(json, event, "IPAddresses", ip_array) :
          json' = a.json /\ FailedIf(~a.added, <<"IPAddresses", 0>>)
    BY <1>7 DEF AddArray
  <2>2. /\ UNCHANGED <<event, ip_array>> /\ pc = "addresses" /\ pc' = "print"
        /\ (<<"array", 0>> \in failed' <=> <<"array", 0>> \in failed)
    <3>1. <<"array", 0>> \in failed' <=> <<"array", 0>> \in failed
      BY <2>1 DEF FailedIf
    <3> QED BY <1>7, <3>1 DEF AddArray
  <2>3. CASE ~a.added
    <3>1. a.json = json
      BY <2>3 DEF AddToObject
    <3> QED BY <2>1, <2>2, <3>1 DEF TreeInv
  <2>4. CASE a.added
    <3>1. ip_array = NULL \/ Unlinked(json, ip_array)
      BY <2>2 DEF RootInv
    <3>2. /\ event # NULL /\ ip_array # NULL /\ event # ip_array
          /\ \E g \in Heaps :
               /\ a.json = AddToArray(g, event, ip_array) /\ SameTree(json, g)
               /\ g.blocks = json.blocks \cup {<<ip_array, "key">>}
      BY <2>1, <2>4, <3>1, FieldFacts, AddToObjectIs
    <3>3. PICK g \in Heaps :
            /\ a.json = AddToArray(g, event, ip_array) /\ SameTree(json, g)
            /\ g.blocks = json.blocks \cup {<<ip_array, "key">>}
      BY <3>2
    <3>4. /\ event \in Items /\ ip_array \in Items
          /\ Unlinked(json, event) /\ Unlinked(json, ip_array) /\ json \in Heaps /\ Linked(json)
      BY <3>1, <3>2 DEF RootInv, Unlinked, Sound
    <3>5. Sound(g) /\ Unlinked(g, event) /\ Unlinked(g, ip_array)
      BY <3>3, <3>4, SameTreeLinked DEF Sound
    <3>6. Tight(g)
      BY <3>3, <3>4, DressedTight DEF TreeInv, Unlinked, Parts
    <3>7. \A roots : Rooted(json, roots) => Rooted(g, roots)
      BY <3>3 DEF SameTree, Rooted
    <3>8. \A roots : ip_array \in roots /\ Rooted(g, roots \cup {ip_array}) =>
                       Tight(AddToArray(g, event, ip_array)) /\ Rooted(AddToArray(g, event, ip_array), roots)
      BY <3>2, <3>4, <3>5, <3>6, HungRooted DEF Unlinked
    <3>9. Tight(a.json)
      <4>1. ip_array \in Items /\ Rooted(g, Items \cup {ip_array})
        BY <3>4 DEF Rooted
      <4> QED BY <3>3, <3>8, <4>1
    <3>10. ASSUME Rooted(json, {event, ip_array}) PROVE Rooted(a.json, {event, ip_array})
      <4>1. {event, ip_array} \cup {ip_array} = {event, ip_array}
        OBVIOUS
      <4> QED BY <3>3, <3>7, <3>8, <3>10, <4>1
    <3> QED BY <2>1, <2>2, <3>9, <3>10 DEF TreeInv
  <2> QED BY <2>3, <2>4
<1> QED BY <1>1, <1>2, <1>3, <1>4, <1>5, <1>6, <1>7 DEF EventNext

(* Nothing of a packet is left but its event: main_loop has freed all of   *)
(* its own, and every item that is there is whole and in reach.            *)
THEOREM StaysCorrect == EventSpec => []OnlyTheEventStays
<1>1. EventInit => EventInv /\ TreeInv /\ OwnedInv
  BY EventInitInv, TreeInitInv
<1>2. EventInv /\ TreeInv /\ OwnedInv /\ [EventNext]_vars => (EventInv /\ TreeInv /\ OwnedInv)'
  BY EventNextInv, TreeStep, OwnedStep
<1>3. EventInv /\ TreeInv /\ OwnedInv => OnlyTheEventStays
  <2> DEFINE known == UNION {Behind(json, k) : k \in {event, ip_array} \ {NULL}}
  <2> SUFFICES ASSUME EventInv, TreeInv, OwnedInv, pc = "idle", NEW k \in Items, ~IsFree(json, k)
               PROVE  Live(json, k) /\ (k \in known \/ <<"array", 0>> \in failed)
    BY DEF OnlyTheEventStays, OwnedInv
  <2>1. Live(json, k)
    BY DEF TreeInv, Tight
  <2>2. ASSUME <<"array", 0>> \notin failed PROVE k \in known
    <3>1. json \in Heaps /\ {event, ip_array} \in SUBSET Links /\ Rooted(json, {event, ip_array})
      BY <2>2 DEF EventInv, EventTypeOK, TreeInv
    <3> QED BY <2>1, <3>1, AllBehind
  <2> QED BY <2>1, <2>2
<1> QED BY <1>1, <1>2, <1>3, PTL DEF EventSpec

-----------------------------------------------------------------------------
(* Selected, step by step.                                                 *)
Selects(f, K, n) ==
  f[0] = <<>> /\ \A k \in 1 .. n : f[k] = IF k \in K THEN Append(f[k - 1], k) ELSE f[k - 1]

LEMMA SelectedIs ==
  ASSUME NEW K, NEW n \in Nat
  PROVE  \E f \in [0 .. n -> Seq(K \cap (1 .. n))] : Selects(f, K, n) /\ f[n] = Selected(K, n)
<1> DEFINE V == Seq(K \cap (1 .. n))
           step == [p \in (1 .. n) \X V |-> IF p[1] \in K THEN Append(p[2], p[1]) ELSE p[2]]
           S == CHOOSE S : S = [k \in 0 .. n |->
                  IF k = 0 THEN <<>> ELSE IF k \in K THEN Append(S[k - 1], k) ELSE S[k - 1]]
<1> HIDE DEF S
<1>1. <<>> \in V /\ \A k \in 1 .. n : \A t \in V : k \in K => Append(t, k) \in V
  OBVIOUS
<1>2. step \in [(1 .. n) \X V -> V]
  <2> HIDE DEF V
  <2> QED BY <1>1
<1>3. PICK f \in [0 .. n -> V] : Runs(f, n, <<>>, step)
  <2> HIDE DEF step, V
  <2> QED BY <1>1, <1>2, RunExists
<1>4. Selects(f, K, n)
  <2>1. ASSUME NEW k \in 1 .. n
        PROVE  f[k] = IF k \in K THEN Append(f[k - 1], k) ELSE f[k - 1]
    <3>1. f[k - 1] \in V
      <4>1. k - 1 \in 0 .. n
        OBVIOUS
      <4> HIDE DEF V
      <4> QED BY <4>1
    <3>2. f[k] = step[<<k, f[k - 1]>>]
      <4> HIDE DEF step, V
      <4> QED BY <1>3 DEF Runs
    <3> HIDE DEF V
    <3> QED BY <3>1, <3>2
  <2> HIDE DEF step, V
  <2> QED BY <1>3, <2>1 DEF Runs, Selects
<1>5. f = [k \in 0 .. n |->
             IF k = 0 THEN <<>> ELSE IF k \in K THEN Append(f[k - 1], k) ELSE f[k - 1]]
  <2>1. \A k \in 0 .. n :
          f[k] = IF k = 0 THEN <<>> ELSE IF k \in K THEN Append(f[k - 1], k) ELSE f[k - 1]
    <3>1. \A k \in 0 .. n : k # 0 => k \in 1 .. n
      OBVIOUS
    <3> HIDE DEF V
    <3> QED BY <1>4, <3>1 DEF Selects
  <2> HIDE DEF V
  <2> QED BY <2>1
<1>6. S = [k \in 0 .. n |->
             IF k = 0 THEN <<>> ELSE IF k \in K THEN Append(S[k - 1], k) ELSE S[k - 1]]
  BY <1>5 DEF S
<1>7. Selected(K, n) = S[n]
  BY DEF Selected, S
<1>8. Selects(S, K, n)
  <2>1. \A k \in 0 .. n :
          S[k] = IF k = 0 THEN <<>> ELSE IF k \in K THEN Append(S[k - 1], k) ELSE S[k - 1]
    BY <1>6
  <2>2. 0 \in 0 .. n /\ \A k \in 1 .. n : k \in 0 .. n /\ k # 0
    OBVIOUS
  <2> QED BY <2>1, <2>2 DEF Selects
<1>9. S \in [0 .. n -> V]
  <2> DEFINE T == {k \in 0 .. n : S[k] \notin V}
  <2> HIDE DEF V
  <2>1. ASSUME T # {} PROVE FALSE
    <3>1. T \in SUBSET Nat
      OBVIOUS
    <3>2. PICK m \in T : \A y \in T : m <= y
      <4> HIDE DEF T
      <4> QED BY <2>1, <3>1, Least
    <3>3. m \in 0 .. n /\ S[m] \notin V
      BY <3>2
    <3>4. m \in 1 .. n /\ m - 1 \in 0 .. n /\ m - 1 < m
      BY <1>1, <1>8, <3>3 DEF Selects
    <3>5. S[m - 1] \in V
      BY <3>2, <3>4
    <3> QED BY <1>1, <1>8, <3>3, <3>4, <3>5 DEF Selects
  <2>2. \A k \in 0 .. n : S[k] \in V
    BY <2>1
  <2> QED BY <1>6, <2>2
<1> QED BY <1>7, <1>8, <1>9

(* What is selected depends on the members only.                           *)
LEMMA SelectsAgree ==
  ASSUME NEW K, NEW L, NEW n \in Nat, \A k \in 1 .. n : k \in K <=> k \in L,
         NEW f, NEW g, Selects(f, K, n), Selects(g, L, n)
  PROVE  f[n] = g[n]
<1> DEFINE T == {k \in 0 .. n : f[k] # g[k]}
<1>1. ASSUME T # {} PROVE FALSE
  <2>1. T \in SUBSET Nat
    OBVIOUS
  <2>2. PICK m \in T : \A y \in T : m <= y
    <3> HIDE DEF T
    <3> QED BY <1>1, <2>1, Least
  <2>3. m \in 0 .. n /\ f[m] # g[m]
    BY <2>2
  <2>4. m \in 1 .. n /\ m - 1 \in 0 .. n /\ m - 1 < m
    BY <2>3 DEF Selects
  <2>5. f[m - 1] = g[m - 1]
    BY <2>2, <2>4
  <2> QED BY <2>3, <2>4, <2>5 DEF Selects
<1> QED BY <1>1

LEMMA SelectedSame ==
  ASSUME NEW K, NEW L, NEW n \in Nat, \A k \in 1 .. n : k \in K <=> k \in L
  PROVE  Selected(K, n) = Selected(L, n)
<1>1. PICK f : Selects(f, K, n) /\ f[n] = Selected(K, n)
  BY SelectedIs
<1>2. PICK g : Selects(g, L, n) /\ g[n] = Selected(L, n)
  BY SelectedIs
<1>3. f[n] = g[n]
  BY <1>1, <1>2, SelectsAgree
<1> QED BY <1>1, <1>2, <1>3

LEMMA SelectedNext ==
  ASSUME NEW K, NEW n \in Nat
  PROVE  /\ Selected(K, n) \in Seq(K \cap (1 .. n))
         /\ Selected(K, 0) = <<>>
         /\ Selected(K, n + 1) = IF n + 1 \in K THEN Append(Selected(K, n), n + 1)
                                 ELSE Selected(K, n)
<1>1. PICK f \in [0 .. n -> Seq(K \cap (1 .. n))] : Selects(f, K, n) /\ f[n] = Selected(K, n)
  BY SelectedIs
<1>2. PICK g : Selects(g, K, n + 1) /\ g[n + 1] = Selected(K, n + 1)
  <2>1. n + 1 \in Nat
    OBVIOUS
  <2> QED BY <2>1, SelectedIs
<1>3. Selected(K, 0) = <<>>
  BY SelectedIs DEF Selects
<1>4. Selects(g, K, n)
  BY <1>2 DEF Selects
<1>5. f[n] = g[n]
  BY <1>1, <1>4, SelectsAgree
<1>6. n + 1 \in 1 .. n + 1 /\ (n + 1) - 1 = n /\ n \in 0 .. n
  OBVIOUS
<1>7. f[n] \in Seq(K \cap (1 .. n))
  BY <1>6
<1> QED BY <1>1, <1>2, <1>3, <1>5, <1>6, <1>7 DEF Selects

-----------------------------------------------------------------------------
(* What is found is what is to be reported, as far as the matches have     *)
(* been looked up.                                                         *)
Unfailed(tag, n) == \A k \in Nat : k >= n => <<tag, k>> \notin failed

SelectInv ==
  /\ \A k \in 1 .. Len(matches) : matches[k] \in {text[k], NoMatch}
  /\ pc \in {"parse", "name"} => matches = <<>>
  /\ pc \in {"parse", "name", "match"} => i = 1 /\ found = <<>> /\ Unfailed("lookup", 1)
  /\ pc = "filter" =>
       i <= Len(matches) + 1 /\ found = Selected(ToReport, i - 1) /\ Unfailed("lookup", i)
  /\ pc \notin {"parse", "name", "match", "filter", "undefined"} => found = Reported

LEMMA FieldNames ==
  /\ \A k \in Steps : Fields[k] \notin {"lookup", "address", "IPAddresses", "print", "log", "array",
                                        "event", "match"}
  /\ \A j, k \in Steps : Fields[j] = Fields[k] => j = k
<1>1. Steps = 1 .. 5
  BY FieldFacts
<1>2. /\ Fields[1] = "DnsRet" /\ Fields[2] = "Domain" /\ Fields[3] = "UID" /\ Fields[4] = "PID"
      /\ Fields[5] = "ProcessName"
  BY DEF Fields
<1>3. \A k \in Steps : k = 1 \/ k = 2 \/ k = 3 \/ k = 4 \/ k = 5
  BY <1>1
<1> QED BY <1>2, <1>3

(* What a step of the event's construction may make fail.                  *)
LEMMA LaterFailures ==
  ASSUME EventInv,
         \/ CreateEvent \/ AddField \/ CreateArray \/ AddAddress \/ AddArray \/ PrintEvent \/ LogWrite
  PROVE  \/ CreateEvent /\ failed' \in {failed, failed \cup {<<"event", 0>>}}
         \/ AddField /\ i \in Steps /\ failed' \in {failed, failed \cup {<<Fields[i], 0>>}}
         \/ CreateArray /\ failed' \in {failed, failed \cup {<<"array", 0>>}}
         \/ AddAddress /\ failed' \in {failed, failed \cup {<<"address", i>>}}
         \/ AddArray /\ failed' \in {failed, failed \cup {<<"IPAddresses", 0>>}}
         \/ PrintEvent /\ failed' \in {failed, failed \cup {<<"print", 0>>}}
         \/ LogWrite /\ failed' \in {failed, failed \cup {<<"log", 0>>}}
<1>1. CASE CreateEvent
  BY <1>1 DEF CreateEvent, FailedIf
<1>2. CASE AddField
  BY <1>2 DEF AddField, FailedIf
<1>3. CASE CreateArray
  BY <1>3 DEF CreateArray, FailedIf
<1>4. CASE AddAddress
  BY <1>4 DEF AddAddress, FailedIf
<1>5. CASE AddArray
  BY <1>5 DEF AddArray, FailedIf
<1>6. CASE PrintEvent
  BY <1>6 DEF PrintEvent
<1>7. CASE LogWrite
  BY <1>7 DEF LogWrite
<1> QED BY <1>1, <1>2, <1>3, <1>4, <1>5, <1>6, <1>7

LEMMA SameReport ==
  ASSUME UNCHANGED <<matches, text, region>>,
         \A k \in Nat : <<"lookup", k>> \in failed' <=> <<"lookup", k>> \in failed,
         Len(matches) \in Nat
  PROVE  ToReport' = ToReport /\ Reported' = Reported
<1>1. ToReport' = ToReport
  BY DEF ToReport
<1> QED BY <1>1 DEF Reported

LEMMA LookUpSelects == ASSUME EventInv, SelectInv, LookUp PROVE SelectInv'
<1>1. /\ pc = "filter" /\ pc' = pc /\ i <= Len(matches) /\ matches[i] # NoMatch /\ i' = i + 1
      /\ UNCHANGED <<region, text, matches>>
      /\ \/ /\ found' = IF Wanted(matches[i]) THEN Append(found, i) ELSE found
            /\ failed' = failed
         \/ /\ found' = Append(found, i)
            /\ failed' = failed \cup {<<"lookup", i>>}
  BY DEF LookUp
<1>2. /\ i \in Nat \ {0} /\ Len(matches) \in Nat /\ i \in 1 .. Len(matches)
      /\ found = Selected(ToReport, i - 1) /\ Unfailed("lookup", i)
      /\ matches[i] = text[i] /\ matches[i] \in Addresses
  BY <1>1 DEF EventInv, EventTypeOK, SelectInv
<1>3. <<"lookup", i>> \notin failed
  BY <1>2 DEF Unfailed
<1>4. i \in ToReport' <=> found' = Append(found, i) /\ found' # found
  <2>1. found \in Seq(1 .. Len(matches))
    BY DEF EventInv, EventTypeOK
  <2>2. Append(found, i) # found
    <3>1. Len(Append(found, i)) = Len(found) + 1 /\ Len(found) \in Nat
      BY <2>1
    <3> QED BY <3>1
  <2>3. Wanted(matches[i]) <=> \/ text[i] \in China /\ region = FOREIGN
                               \/ text[i] \in Elsewhere /\ region = DOMESTIC
    BY <1>2, EventAssumption DEF Wanted, Addresses
  <2>4. i \in ToReport' <=> <<"lookup", i>> \in failed' \/ Wanted(matches[i])
    BY <1>1, <1>2, <2>3 DEF ToReport
  <2> QED BY <1>1, <1>3, <2>2, <2>4
<1>5. found' = IF i \in ToReport' THEN Append(found, i) ELSE found
  BY <1>1, <1>4
<1>6. \A k \in 1 .. i - 1 : k \in ToReport' <=> k \in ToReport
  BY <1>1, <1>2 DEF ToReport
<1>7. Selected(ToReport', i - 1) = Selected(ToReport, i - 1)
  <2> DEFINE K == ToReport'
             L == ToReport
             n == i - 1
  <2>1. n \in Nat /\ \A k \in 1 .. n : k \in K <=> k \in L
    BY <1>2, <1>6
  <2> HIDE DEF K, L, n
  <2>2. Selected(K, n) = Selected(L, n)
    BY <2>1, SelectedSame
  <2> QED BY <2>2 DEF K, L, n
<1>8. Selected(ToReport', i) = found'
  <2> DEFINE K == ToReport'
             n == i - 1
  <2>1. n \in Nat /\ n + 1 = i
    BY <1>2
  <2> HIDE DEF K, n
  <2>2. Selected(K, n + 1) = IF n + 1 \in K THEN Append(Selected(K, n), n + 1) ELSE Selected(K, n)
    BY <2>1, SelectedNext
  <2> QED BY <1>2, <1>5, <1>7, <2>1, <2>2 DEF K, n
<1>9. i' - 1 = i /\ i' <= Len(matches') + 1 /\ i' >= i
  BY <1>1, <1>2
<1>10. Unfailed("lookup", i)' 
  BY <1>1, <1>2, <1>9 DEF Unfailed
<1> QED BY <1>1, <1>8, <1>9, <1>10 DEF SelectInv

LEMMA SelectStep == ASSUME EventInv, SelectInv, [EventNext]_vars PROVE SelectInv'
<1>0. Len(matches) \in Nat /\ offset \in Nat /\ Len(matches) = offset /\ i \in Nat
  BY DEF EventInv, EventTypeOK
<1>1. CASE LookUp
  BY <1>1, LookUpSelects
<1>2. CASE Dequeue
  BY <1>2 DEF Dequeue, SelectInv, Unfailed
<1>3. CASE ReadPastBlock \/ PraseMessage \/ GetPidName
  <2>1. /\ UNCHANGED <<text, matches, i, found, failed>> /\ pc \in {"parse", "name"}
        /\ pc' \in {"name", "free_node", "undefined"} \/ (pc' = "match" /\ pc = "name")
    BY <1>3 DEF ReadPastBlock, PraseMessage, GetPidName, counters
  <2>2. matches = <<>> /\ i = 1 /\ found = <<>> /\ Unfailed("lookup", 1) /\ Unfailed("lookup", 1)'
    BY <2>1 DEF SelectInv, Unfailed
  <2>3. Reported' = <<>>
    <3> DEFINE K == ToReport'
    <3>1. Reported' = Selected(K, 0)
      BY <2>1, <2>2 DEF Reported
    <3> HIDE DEF K
    <3>2. Selected(K, 0) = <<>>
      BY SelectedNext
    <3> QED BY <3>1, <3>2
  <2> QED BY <2>1, <2>2, <2>3 DEF SelectInv
<1>4. CASE FindMatch
  <2>1. /\ UNCHANGED <<pc, text, i, found, failed>> /\ pc = "match" /\ offset < Len(text)
        /\ text \in Seq(Addresses) /\ matches \in Seq(Addresses \cup {NoMatch})
        /\ matches' = Append(matches, text[offset + 1]) \/ matches' = Append(matches, NoMatch)
    BY <1>4 DEF FindMatch, EventInv, EventTypeOK
  <2>2. text[offset + 1] \in Addresses
    BY <1>0, <2>1
  <2>3. PICK x \in Addresses \cup {NoMatch} :
          matches' = Append(matches, x) /\ x \in {text[offset + 1], NoMatch}
    BY <2>1, <2>2
  <2>4. \A k \in 1 .. Len(matches') : matches'[k] \in {text'[k], NoMatch}
    <3>1. /\ Len(matches') = offset + 1 /\ matches'[offset + 1] = x
          /\ \A k \in 1 .. offset : matches'[k] = matches[k]
      BY <1>0, <2>1, <2>3
    <3> QED BY <1>0, <2>1, <2>3, <3>1 DEF SelectInv
  <2>5. Unfailed("lookup", 1)' <=> Unfailed("lookup", 1)
    BY <2>1 DEF Unfailed
  <2> QED BY <2>1, <2>4, <2>5 DEF SelectInv
<1>5. CASE MatchEnd
  <2>1. /\ UNCHANGED <<text, matches, i, found>> /\ pc = "match" /\ pc' = "filter"
        /\ failed' \in {failed, failed \cup {<<"match", 0>>}}
    BY <1>5 DEF MatchEnd, counters
  <2>2. i = 1 /\ found = <<>> /\ Unfailed("lookup", 1)
    BY <2>1 DEF SelectInv
  <2>3. Unfailed("lookup", i)' /\ i' = 1
    BY <2>1, <2>2 DEF Unfailed
  <2>4. found' = Selected(ToReport', i' - 1)
    <3> DEFINE K == ToReport'
    <3>1. found' = <<>> /\ i' - 1 = 0
      BY <2>1, <2>2
    <3> HIDE DEF K
    <3>2. Selected(K, 0) = <<>>
      BY SelectedNext
    <3> QED BY <3>1, <3>2 DEF K
  <2> QED BY <1>0, <2>1, <2>3, <2>4 DEF SelectInv
<1>6. CASE MatchOverrun \/ LookUpNull
  BY <1>6 DEF MatchOverrun, LookUpNull, counters, SelectInv
<1>7. CASE FilterEnd
  <2>1. /\ UNCHANGED <<text, matches, found, failed, region>> /\ pc = "filter"
        /\ pc' \in {"free_name", "event"} /\ i > Len(matches)
    BY <1>7 DEF FilterEnd
  <2>2. i - 1 = Len(matches) /\ found = Selected(ToReport, i - 1)
    BY <1>0, <2>1 DEF SelectInv
  <2>3. Reported' = Reported
    BY <1>0, <2>1, SameReport
  <2> QED BY <2>1, <2>2, <2>3 DEF SelectInv, Reported
<1>8. CASE \/ CreateEvent \/ AddField \/ CreateArray \/ AddAddress \/ AddArray \/ PrintEvent
           \/ LogWrite \/ FreeName \/ FreeMatches \/ FreeNode
  <2>1. /\ UNCHANGED <<text, matches, found, region>>
        /\ pc' \notin {"parse", "name", "match", "filter", "undefined"}
        /\ pc \notin {"parse", "name", "match", "filter", "undefined"}
    BY <1>8 DEF CreateEvent, AddField, CreateArray, AddAddress, AddArray, PrintEvent, LogWrite,
       FreeName, FreeMatches, FreeNode, counters
  <2>2. \A k \in Nat : <<"lookup", k>> \in failed' <=> <<"lookup", k>> \in failed
    <3>1. CASE FreeName \/ FreeMatches \/ FreeNode
      BY <3>1 DEF FreeName, FreeMatches, FreeNode
    <3>2. CASE ~(FreeName \/ FreeMatches \/ FreeNode)
      BY <1>8, <3>2, LaterFailures, FieldNames
    <3> QED BY <3>1, <3>2
  <2>3. Reported' = Reported
    BY <1>0, <2>1, <2>2, SameReport
  <2> QED BY <2>1, <2>3 DEF SelectInv
<1>9. CASE UNCHANGED vars
  <2>1. UNCHANGED <<text, matches, found, region, failed, i, pc>>
    BY <1>9 DEF vars, counters
  <2>2. ToReport' = ToReport /\ Reported' = Reported
    BY <1>0, <2>1, SameReport
  <2>3. \A n : Unfailed("lookup", n)' <=> Unfailed("lookup", n)
    BY <2>1 DEF Unfailed
  <2> QED BY <2>1, <2>2, <2>3 DEF SelectInv
<1> QED BY <1>1, <1>2, <1>3, <1>4, <1>5, <1>6, <1>7, <1>8, <1>9 DEF EventNext

(* A step of a packet fails when it is taken, not before.                  *)
Early == {"parse", "name", "match", "filter", "event"}

FailedInv ==
  /\ pc \in Early => \A k \in Steps : <<Fields[k], 0>> \notin failed
  /\ pc = "fields" => \A k \in Steps : k >= i => <<Fields[k], 0>> \notin failed
  /\ pc \in Early \cup {"fields", "array"} => Unfailed("address", 1)
  /\ pc = "addresses" => Unfailed("address", i)
  /\ pc \in Early \cup {"fields", "array", "addresses"} => <<"IPAddresses", 0>> \notin failed
  /\ pc \in Early \cup {"fields", "array", "addresses", "print", "log"} =>
       <<"print", 0>> \notin failed /\ <<"log", 0>> \notin failed

LEMMA FailedStep == ASSUME EventInv, FailedInv, [EventNext]_vars PROVE FailedInv'
<1> USE DEF Early
<1>0. i \in Nat \ {0} /\ \A k \in Steps : k \in Nat
  BY FieldFacts DEF EventInv, EventTypeOK
<1>1. CASE Dequeue
  BY <1>1 DEF Dequeue, FailedInv, Unfailed
<1>2. CASE \/ ReadPastBlock \/ PraseMessage \/ GetPidName \/ FindMatch \/ MatchOverrun \/ MatchEnd \/ LookUp
           \/ LookUpNull \/ FilterEnd
  <2>1. failed' \in {failed, failed \cup {<<"match", 0>>}, failed \cup {<<"lookup", i>>}}
    BY <1>2 DEF ReadPastBlock, PraseMessage, GetPidName, FindMatch, MatchOverrun, MatchEnd, LookUp, LookUpNull,
       FilterEnd
  <2>2. pc \in Early /\ pc' \in Early \cup {"undefined", "free_name", "free_node"}
    BY <1>2 DEF ReadPastBlock, PraseMessage, GetPidName, FindMatch, MatchOverrun, MatchEnd, LookUp, LookUpNull,
       FilterEnd
  <2>3. Unfailed("address", 1)'
    BY <2>1, <2>2 DEF FailedInv, Unfailed
  <2>4. /\ \A k \in Steps : <<Fields[k], 0>> \notin failed'
        /\ <<"IPAddresses", 0>> \notin failed' /\ <<"print", 0>> \notin failed'
        /\ <<"log", 0>> \notin failed'
    BY <2>1, <2>2, FieldNames DEF FailedInv
  <2> QED BY <2>2, <2>3, <2>4 DEF FailedInv
<1>3. CASE CreateEvent
  <2>1. /\ pc = "event" /\ pc' = "fields" /\ failed' \in {failed, failed \cup {<<"event", 0>>}}
    BY <1>3 DEF CreateEvent, FailedIf
  <2> QED BY <2>1, FieldNames DEF FailedInv, Unfailed
<1>4. CASE AddField
  <2>1. /\ pc = "fields" /\ pc' \in {"fields", "array"} /\ i \in Steps /\ i' = i + 1
        /\ failed' \in {failed, failed \cup {<<Fields[i], 0>>}}
    BY <1>4 DEF AddField, FailedIf
  <2>2. \A k \in Steps : k >= i' => Fields[k] # Fields[i] /\ k >= i
    <3>1. \A k \in Steps : k >= i' => k # i /\ k >= i
      BY <1>0, <2>1
    <3> QED BY <2>1, <3>1, FieldNames
  <2>3. \A k \in Steps : k >= i' => <<Fields[k], 0>> \notin failed'
    BY <2>1, <2>2 DEF FailedInv
  <2>4. Fields[i] \notin {"address", "IPAddresses", "print", "log"}
    BY <2>1, FieldNames
  <2>5. Unfailed("address", 1)' /\ <<"IPAddresses", 0>> \notin failed'
        /\ <<"print", 0>> \notin failed' /\ <<"log", 0>> \notin failed'
    BY <2>1, <2>4 DEF FailedInv, Unfailed
  <2> QED BY <2>1, <2>3, <2>5 DEF FailedInv
<1>5. CASE CreateArray
  <2>1. /\ pc = "array" /\ pc' = "addresses" /\ i' = 1
        /\ failed' \in {failed, failed \cup {<<"array", 0>>}}
    BY <1>5 DEF CreateArray, FailedIf
  <2> QED BY <2>1 DEF FailedInv, Unfailed
<1>6. CASE AddAddress
  <2>1. /\ pc = "addresses" /\ pc' = pc /\ i' = i + 1
        /\ failed' \in {failed, failed \cup {<<"address", i>>}}
    BY <1>6 DEF AddAddress, FailedIf
  <2>2. Unfailed("address", i)'
    BY <1>0, <2>1 DEF FailedInv, Unfailed
  <2> QED BY <2>1, <2>2 DEF FailedInv
<1>7. CASE AddArray
  <2>1. /\ pc = "addresses" /\ pc' = "print"
        /\ failed' \in {failed, failed \cup {<<"IPAddresses", 0>>}}
    BY <1>7 DEF AddArray, FailedIf
  <2> QED BY <2>1 DEF FailedInv
<1>8. CASE PrintEvent \/ LogWrite \/ FreeName \/ FreeMatches \/ FreeNode
  <2>1. \/ pc' \in {"free_name", "free_matches", "free_node", "idle"}
        \/ pc = "print" /\ pc' = "log" /\ failed' = failed
    BY <1>8 DEF PrintEvent, LogWrite, FreeName, FreeMatches, FreeNode
  <2> QED BY <2>1 DEF FailedInv
<1>9. CASE UNCHANGED vars
  BY <1>9 DEF vars, counters, FailedInv, Unfailed
<1> QED BY <1>1, <1>2, <1>3, <1>4, <1>5, <1>6, <1>7, <1>8, <1>9 DEF EventNext

-----------------------------------------------------------------------------
(* What a list of the tree shows: the fields of an event, by their         *)
(* numbers, or the addresses of an array.                                  *)
ShowsFields(h, object, s, fields) ==
  /\ ListOf(h, object, s) /\ Len(s) = Len(fields)
  /\ \A j \in 1 .. Len(fields) : /\ h.type[s[j]] # "array" /\ h.key[s[j]] = Fields[fields[j]]
                                 /\ h.value[s[j]] = Value(Fields[fields[j]])

ShowsAddresses(h, array, t, addresses) ==
  /\ ListOf(h, array, t) /\ Len(t) = Len(addresses)
  /\ \A j \in 1 .. Len(addresses) : h.value[t[j]] = text[found[addresses[j]]]

LEMMA KeptShown ==
  ASSUME NEW h, NEW g, Keeps(h, g), NEW c \in Items, Live(h, c), NEW s, NEW K
  PROVE  /\ ShowsFields(h, c, s, K) => ShowsFields(g, c, s, K)
         /\ ShowsAddresses(h, c, s, K) => ShowsAddresses(g, c, s, K)
<1>1. ASSUME ShowsFields(h, c, s, K) PROVE ShowsFields(g, c, s, K)
  <2>1. ListOf(h, c, s) /\ Len(s) = Len(K)
    BY <1>1 DEF ShowsFields
  <2>2. /\ ListOf(g, c, s)
        /\ \A j \in 1 .. Len(s) : /\ g.key[s[j]] = h.key[s[j]] /\ g.value[s[j]] = h.value[s[j]]
                                  /\ g.type[s[j]] = h.type[s[j]]
    BY <2>1, KeptList
  <2> QED BY <1>1, <2>1, <2>2 DEF ShowsFields
<1>2. ASSUME ShowsAddresses(h, c, s, K) PROVE ShowsAddresses(g, c, s, K)
  <2>1. ListOf(h, c, s) /\ Len(s) = Len(K)
    BY <1>2 DEF ShowsAddresses
  <2>2. /\ ListOf(g, c, s)
        /\ \A j \in 1 .. Len(s) : /\ g.key[s[j]] = h.key[s[j]] /\ g.value[s[j]] = h.value[s[j]]
                                  /\ g.type[s[j]] = h.type[s[j]]
    BY <2>1, KeptList
  <2> QED BY <1>2, <2>1, <2>2 DEF ShowsAddresses
<1> QED BY <1>1, <1>2

LEMMA Longer ==
  ASSUME NEW S, NEW s \in Seq(S), NEW x \in S
  PROVE  /\ Append(s, x) \in Seq(S) /\ Len(Append(s, x)) = Len(s) + 1 /\ Len(s) \in Nat
         /\ Append(s, x)[Len(s) + 1] = x
         /\ \A j \in 1 .. Len(s) : Append(s, x)[j] = s[j]
         /\ \A j \in 1 .. Len(s) + 1 : j = Len(s) + 1 \/ j \in 1 .. Len(s)
OBVIOUS

LEMMA HungField ==
  ASSUME NEW h, Sound(h), NEW c \in Items, Live(h, c), NEW x, Unlinked(h, x), x # c,
         NEW K \in Seq(Nat), NEW k \in Nat, NEW s, ShowsFields(h, c, s, K),
         \A j \in 1 .. Len(s) : s[j] < x,
         h.type[x] # "array", h.key[x] = Fields[k], h.value[x] = Value(Fields[k])
  PROVE  ShowsFields(AddToArray(h, c, x), c, Append(s, x), Append(K, k))
<1> DEFINE g == AddToArray(h, c, x)
           t == Append(s, x)
           L == Append(K, k)
<1>1. ListOf(h, c, s) /\ s \in Seq(Items) /\ x \in Items /\ Len(s) = Len(K)
  BY DEF ShowsFields, ListOf, Unlinked
<1>2. ListOf(g, c, t)
  BY <1>1, HungList
<1>3. g.type = h.type /\ g.key = h.key /\ g.value = h.value
  BY AddToArrayIs
<1>4. /\ Len(t) = Len(s) + 1 /\ t[Len(s) + 1] = x /\ \A j \in 1 .. Len(s) : t[j] = s[j]
      /\ \A j \in 1 .. Len(s) + 1 : j = Len(s) + 1 \/ j \in 1 .. Len(s)
  BY <1>1, Longer
<1>5. Len(L) = Len(K) + 1 /\ L[Len(K) + 1] = k /\ \A j \in 1 .. Len(K) : L[j] = K[j]
  BY Longer
<1> HIDE DEF g, t, L
<1>6. \A j \in 1 .. Len(K) + 1 : /\ g.type[t[j]] # "array" /\ g.key[t[j]] = Fields[L[j]]
                                 /\ g.value[t[j]] = Value(Fields[L[j]])
  BY <1>1, <1>3, <1>4, <1>5 DEF ShowsFields
<1>7. ShowsFields(g, c, t, L)
  BY <1>1, <1>2, <1>4, <1>5, <1>6 DEF ShowsFields
<1> QED BY <1>7 DEF g, t, L

LEMMA HungAddress ==
  ASSUME NEW h, Sound(h), NEW c \in Items, Live(h, c), NEW x, Unlinked(h, x), x # c,
         NEW K \in Seq(Nat), NEW k \in Nat, NEW s, ShowsAddresses(h, c, s, K),
         \A j \in 1 .. Len(s) : s[j] < x, h.value[x] = text[found[k]]
  PROVE  ShowsAddresses(AddToArray(h, c, x), c, Append(s, x), Append(K, k))
<1> DEFINE g == AddToArray(h, c, x)
           t == Append(s, x)
           L == Append(K, k)
<1>1. ListOf(h, c, s) /\ s \in Seq(Items) /\ x \in Items /\ Len(s) = Len(K)
  BY DEF ShowsAddresses, ListOf, Unlinked
<1>2. ListOf(g, c, t)
  BY <1>1, HungList
<1>3. g.value = h.value
  BY AddToArrayIs
<1>4. /\ Len(t) = Len(s) + 1 /\ t[Len(s) + 1] = x /\ \A j \in 1 .. Len(s) : t[j] = s[j]
      /\ \A j \in 1 .. Len(s) + 1 : j = Len(s) + 1 \/ j \in 1 .. Len(s)
  BY <1>1, Longer
<1>5. Len(L) = Len(K) + 1 /\ L[Len(K) + 1] = k /\ \A j \in 1 .. Len(K) : L[j] = K[j]
  BY Longer
<1> HIDE DEF g, t, L
<1>6. \A j \in 1 .. Len(K) + 1 : g.value[t[j]] = text[found[L[j]]]
  BY <1>1, <1>3, <1>4, <1>5 DEF ShowsAddresses
<1>7. ShowsAddresses(g, c, t, L)
  BY <1>1, <1>2, <1>4, <1>5, <1>6 DEF ShowsAddresses
<1> QED BY <1>7 DEF g, t, L

(* A list somewhere else is not disturbed.                                 *)
LEMMA HungShown ==
  ASSUME NEW h, Sound(h), NEW c \in Items, Live(h, c), NEW x, Unlinked(h, x), x # c,
         NEW s, ListOf(h, c, s), NEW d \in Items, d # c, NEW t, NEW K,
         \A j \in 1 .. Len(s) : \A k \in 1 .. Len(t) : s[j] # t[k]
  PROVE  /\ ShowsFields(h, d, t, K) => ShowsFields(AddToArray(h, c, x), d, t, K)
         /\ ShowsAddresses(h, d, t, K) => ShowsAddresses(AddToArray(h, c, x), d, t, K)
         /\ ListOf(h, d, t) => \A k \in 1 .. Len(t) : t[k] # x
<1> DEFINE g == AddToArray(h, c, x)
<1>1. g.type = h.type /\ g.key = h.key /\ g.value = h.value
  BY AddToArrayIs
<1>2. ListOf(h, d, t) => ListOf(g, d, t) /\ \A k \in 1 .. Len(t) : x # t[k]
  BY HungOther
<1> HIDE DEF g
<1>3. ShowsFields(h, d, t, K) => ShowsFields(g, d, t, K)
  BY <1>1, <1>2 DEF ShowsFields
<1>4. ShowsAddresses(h, d, t, K) => ShowsAddresses(g, d, t, K)
  BY <1>1, <1>2 DEF ShowsAddresses
<1> QED BY <1>2, <1>3, <1>4 DEF g

LEMMA DressedShown ==
  ASSUME NEW h, NEW g, SameTree(h, g), g.type = h.type, g.value = h.value,
         NEW x, \A j \in Items : j # x => g.key[j] = h.key[j], NEW c, NEW s, NEW K
  PROVE  /\ ShowsFields(h, c, s, K) /\ (\A j \in 1 .. Len(s) : s[j] # x) => ShowsFields(g, c, s, K)
         /\ ShowsAddresses(h, c, s, K) => ShowsAddresses(g, c, s, K)
<1>1. ListOf(h, c, s) => ListOf(g, c, s) /\ \A j \in 1 .. Len(s) : s[j] \in Items
  <2>1. g.child = h.child /\ g.next = h.next /\ g.prev = h.prev
        /\ \A j \in Items : Live(g, j) <=> Live(h, j)
    BY DEF SameTree
  <2>2. ListOf(h, c, s) => s \in Seq(Items)
    BY DEF ListOf
  <2>3. s \in Seq(Items) => \A j \in 1 .. Len(s) : s[j] \in Items
    OBVIOUS
  <2> QED BY <2>1, <2>2, <2>3 DEF ListOf
<1>2. ShowsFields(h, c, s, K) /\ (\A j \in 1 .. Len(s) : s[j] # x) => ShowsFields(g, c, s, K)
  BY <1>1 DEF ShowsFields
<1>3. ShowsAddresses(h, c, s, K) => ShowsAddresses(g, c, s, K)
  BY <1>1 DEF ShowsAddresses
<1> QED BY <1>2, <1>3

(* What is printed of such lists.                                          *)
LEMMA FieldsPrinted ==
  ASSUME NEW h \in Heaps, NEW c \in Items, NEW s, NEW K \in Seq(Nat), ShowsFields(h, c, s, K)
  PROVE  Contents(h, c) = FieldRecord(K)
<1>1. ListFrom(h, h.child[c]) = s /\ s \in Seq(Items) /\ Len(s) = Len(K)
  BY ListIs DEF ShowsFields, ListOf
<1>2. DOMAIN s = 1 .. Len(K) /\ DOMAIN K = 1 .. Len(K)
  BY <1>1
<1>3. Contents(h, c) =
        [j \in 1 .. Len(K) |->
          [key   |-> h.key[s[j]],
           value |-> IF h.type[s[j]] = "array" THEN TextsOf(h, h.child[s[j]]) ELSE <<h.value[s[j]]>>]]
  BY <1>1, <1>2 DEF Contents
<1>4. FieldRecord(K) = [j \in 1 .. Len(K) |-> [key |-> Fields[K[j]], value |-> <<Value(Fields[K[j]])>>]]
  BY <1>2 DEF FieldRecord
<1>5. \A j \in 1 .. Len(K) : /\ h.type[s[j]] # "array" /\ h.key[s[j]] = Fields[K[j]]
                             /\ h.value[s[j]] = Value(Fields[K[j]])
  BY DEF ShowsFields
<1> QED BY <1>3, <1>4, <1>5

LEMMA AddressesPrinted ==
  ASSUME NEW h \in Heaps, NEW a \in Items, NEW t, NEW K \in Seq(Nat), ShowsAddresses(h, a, t, K),
         found = Reported
  PROVE  [key |-> "IPAddresses", value |-> TextsOf(h, h.child[a])] = AddressRecord(K)
<1>1. ListFrom(h, h.child[a]) = t /\ t \in Seq(Items) /\ Len(t) = Len(K)
  BY ListIs DEF ShowsAddresses, ListOf
<1>2. DOMAIN t = 1 .. Len(K) /\ DOMAIN K = 1 .. Len(K)
  BY <1>1
<1>3. TextsOf(h, h.child[a]) = [j \in 1 .. Len(K) |-> h.value[t[j]]]
  BY <1>1, <1>2 DEF TextsOf
<1>4. AddressRecord(K) = [key   |-> "IPAddresses",
                          value |-> [j \in 1 .. Len(K) |-> text[found[K[j]]]]]
  BY <1>2 DEF AddressRecord
<1>5. \A j \in 1 .. Len(K) : h.value[t[j]] = text[found[K[j]]]
  BY DEF ShowsAddresses
<1>6. TextsOf(h, h.child[a]) = [j \in 1 .. Len(K) |-> text[found[K[j]]]]
  BY <1>3, <1>5
<1> QED BY <1>4, <1>6

LEMMA AllPrinted ==
  ASSUME NEW f, Sound(f), NEW c \in Items, Live(f, c), NEW a, Unlinked(f, a), a # c,
         NEW K \in Seq(Nat), NEW s, ShowsFields(f, c, s, K), \A j \in 1 .. Len(s) : s[j] < a,
         NEW L \in Seq(Nat), NEW t, ShowsAddresses(f, a, t, L),
         \A j \in 1 .. Len(s) : \A k \in 1 .. Len(t) : s[j] # t[k],
         f.type[a] = "array", f.key[a] = "IPAddresses", found = Reported
  PROVE  Contents(AddToArray(f, c, a), c) = Append(FieldRecord(K), AddressRecord(L))
<1> DEFINE g == AddToArray(f, c, a)
           m == Append(s, a)
           n == Len(K)
           r(j) == IF g.type[m[j]] = "array" THEN TextsOf(g, g.child[m[j]]) ELSE <<g.value[m[j]]>>
           R(j) == [key |-> g.key[m[j]], value |-> r(j)]
           F(j) == [key |-> Fields[K[j]], value |-> <<Value(Fields[K[j]])>>]
<1>1. ListOf(f, c, s) /\ s \in Seq(Items) /\ a \in Items /\ Len(s) = n /\ n \in Nat
  BY DEF ShowsFields, ListOf, Unlinked
<1>2. g \in Heaps /\ g.type = f.type /\ g.key = f.key /\ g.value = f.value
  BY AddToArrayIs
<1>3. ListOf(g, c, m)
  BY <1>1, HungList
<1>4. /\ m \in Seq(Items) /\ Len(m) = n + 1 /\ m[n + 1] = a /\ \A j \in 1 .. n : m[j] = s[j]
      /\ \A j \in 1 .. n + 1 : j = n + 1 \/ j \in 1 .. n
  BY <1>1, Longer
<1>5. ShowsAddresses(g, a, t, L)
  BY <1>1, HungShown
<1> HIDE DEF g, m
<1>6. ListFrom(g, g.child[c]) = m /\ DOMAIN m = 1 .. n + 1
  BY <1>2, <1>3, <1>4, ListIs
<1>7. Contents(g, c) = [j \in 1 .. n + 1 |-> R(j)]
  BY <1>6 DEF Contents
<1>8. \A j \in 1 .. n : R(j) = F(j)
  <2> SUFFICES ASSUME NEW j \in 1 .. n PROVE R(j) = F(j)
    OBVIOUS
  <2>1. /\ g.type[m[j]] # "array" /\ g.key[m[j]] = Fields[K[j]]
        /\ g.value[m[j]] = Value(Fields[K[j]])
    BY <1>2, <1>4 DEF ShowsFields
  <2> QED BY <2>1
<1>9. R(n + 1) = AddressRecord(L)
  <2>1. R(n + 1) = [key |-> "IPAddresses", value |-> TextsOf(g, g.child[a])]
    BY <1>2, <1>4
  <2>2. R(n + 1) = [key |-> "IPAddresses", value |-> TextsOf(g, g.child[a])] /\ g \in Heaps /\ a \in Items
    BY <1>1, <1>2, <2>1
  <2> HIDE DEF R
  <2> QED BY <1>5, <2>2, AddressesPrinted
<1> HIDE DEF R, F
<1>10. FieldRecord(K) = [j \in 1 .. n |-> F(j)]
  BY DEF FieldRecord, F
<1> DEFINE S == {F(j) : j \in 1 .. n} \cup {AddressRecord(L)}
           q == [j \in 1 .. n |-> F(j)]
           v == AddressRecord(L)
<1>11. q \in Seq(S) /\ Len(q) = n /\ v \in S
  BY <1>1
<1>12. \A j \in 1 .. n : q[j] = F(j)
  OBVIOUS
<1> HIDE DEF q, v, S
<1>13. Append(q, v) = [j \in 1 .. n + 1 |-> R(j)]
  <2> DEFINE w == Append(q, v)
  <2>1. w \in Seq(S) /\ Len(w) = n + 1 /\ w[n + 1] = v /\ \A j \in 1 .. n : w[j] = q[j]
    BY <1>11, Longer
  <2> HIDE DEF w
  <2>2. w = [j \in 1 .. n + 1 |-> w[j]]
    BY <2>1
  <2>3. \A j \in 1 .. n + 1 : w[j] = R(j)
    BY <1>4, <1>8, <1>9, <1>12, <2>1 DEF v
  <2>4. w = [j \in 1 .. n + 1 |-> R(j)]
    BY <2>2, <2>3
  <2> QED BY <2>4 DEF w
<1> QED BY <1>7, <1>10, <1>13 DEF g, q, v

-----------------------------------------------------------------------------
(* The event shows the fields made so far, and the array the addresses;    *)
(* in the end the event is the record.                                     *)
Apart(s, t) == \A j \in 1 .. Len(s) : \A k \in 1 .. Len(t) : s[j] # t[k]

FieldsShown(n) == \E s : ShowsFields(json, event, s, Selected(FieldsMade, n))

BothShown(n) ==
  \E s, t : /\ ShowsFields(json, event, s, Selected(FieldsMade, Len(Fields)))
            /\ ShowsAddresses(json, ip_array, t, Selected(AddressesMade, n))
            /\ Apart(s, t) /\ \A j \in 1 .. Len(s) : s[j] < ip_array

ShownInv ==
  /\ pc = "event" => i = 1
  /\ pc = "addresses" => i <= Len(found) + 1
  /\ pc = "log" => event # NULL
  /\ event # NULL =>
       /\ pc = "fields" => FieldsShown(i - 1)
       /\ pc = "array" \/ (pc = "addresses" /\ ip_array = NULL) => FieldsShown(Len(Fields))
       /\ pc = "addresses" /\ ip_array # NULL =>
            BothShown(i - 1) /\ json.type[ip_array] = "array"
       /\ pc \in {"print", "log"} => Contents(json, event) = Record

RecordInv == EventInv /\ TreeInv /\ SelectInv /\ FailedInv /\ ShownInv

LEMMA SelectedSeq == ASSUME NEW K, NEW n \in Nat PROVE Selected(K, n) \in Seq(Nat)
<1> DEFINE q == Selected(K, n)
           S == K \cap (1 .. n)
<1>1. q \in Seq(S) /\ S \subseteq Nat
  BY SelectedNext
<1> HIDE DEF q, S
<1>2. q = [j \in 1 .. Len(q) |-> q[j]] /\ Len(q) \in Nat /\ \A j \in 1 .. Len(q) : q[j] \in Nat
  BY <1>1
<1>3. q \in Seq(Nat)
  BY <1>2
<1> QED BY <1>3 DEF q

LEMMA SelectedStep ==
  ASSUME NEW K, NEW L, NEW n \in Nat \ {0}, \A k \in 1 .. n - 1 : k \in L <=> k \in K
  PROVE  /\ Selected(K, n - 1) \in Seq(Nat)
         /\ Selected(L, n) = IF n \in L THEN Append(Selected(K, n - 1), n) ELSE Selected(K, n - 1)
<1> DEFINE m == n - 1
<1>1. m \in Nat /\ m + 1 = n /\ \A k \in 1 .. m : k \in L <=> k \in K
  OBVIOUS
<1> HIDE DEF m
<1>2. Selected(L, m) = Selected(K, m)
  BY <1>1, SelectedSame
<1>3. Selected(L, m + 1) = IF m + 1 \in L THEN Append(Selected(L, m), m + 1) ELSE Selected(L, m)
  BY <1>1, SelectedNext
<1>4. Selected(K, m) \in Seq(Nat)
  BY <1>1, SelectedSeq
<1> QED BY <1>1, <1>2, <1>3, <1>4 DEF m

LEMMA CreateEventShows == ASSUME RecordInv, CreateEvent PROVE ShownInv'
<1>1. PICK r \in New(json, "object") : json' = r.json /\ event' = r.item
  BY DEF CreateEvent
<1>2. pc' = "fields" /\ i' = 1 /\ pc = "event"
  BY DEF CreateEvent, counters, RecordInv, ShownInv
<1>3. ASSUME r.item # NULL PROVE FieldsShown(0)'
  <2>1. Leaf(r.json, r.item) /\ NULL \notin Items
    BY <1>3, NewSound, ItemFacts DEF RecordInv, EventInv, Created, Types
  <2>2. ListOf(r.json, r.item, <<>>)
    BY <2>1 DEF ListOf, Leaf, Unlinked
  <2>3. Selected(FieldsMade', 0) = <<>>
    BY SelectedNext
  <2> QED BY <1>1, <2>2, <2>3 DEF FieldsShown, ShowsFields
<1>4. i' - 1 = 0
  BY <1>2
<1> QED BY <1>1, <1>2, <1>3, <1>4 DEF ShownInv

LEMMA AddFieldShows == ASSUME RecordInv, AddField PROVE ShownInv'
<1> USE DEF RecordInv, EventInv
<1> DEFINE field == Fields[i]
           number == field \in {"UID", "PID"}
           created == IF number THEN CreateNumber(json, field) ELSE CreateString(json, Value(field))
           type == IF number THEN "number" ELSE "string"
           value == IF number THEN field ELSE Value(field)
           K == Selected(FieldsMade, i - 1)
           L == Selected(FieldsMade', i)
<1>1. PICK a \in AddNew(event, field, created) :
        json' = a.json /\ FailedIf(~a.added, <<field, 0>>)
  BY DEF AddField
<1>2. /\ UNCHANGED <<event, pid_name>> /\ pc = "fields" /\ i \in Steps /\ i' = i + 1
      /\ pc' = IF i = Len(Fields) THEN "array" ELSE "fields"
  BY DEF AddField
<1>3. ASSUME event # NULL, \E u : ShowsFields(a.json, event, u, L) PROVE ShownInv'
  <2>1. i' - 1 = i /\ (pc' = "array" => i = Len(Fields)) /\ pc' \in {"fields", "array"}
    BY <1>2, FieldFacts
  <2>2. \A f : Value(f)' = Value(f)
    BY <1>2 DEF Value
  <2>3. PICK u : ShowsFields(a.json, event, u, L)
    BY <1>3
  <2>4. /\ Selected(FieldsMade, i - 1)' = L
        /\ i = Len(Fields) => Selected(FieldsMade, Len(Fields))' = L
    BY <2>1
  <2>5. ShowsFields(json, event, u, Selected(FieldsMade, i - 1))'
    BY <1>1, <1>2, <2>2, <2>3, <2>4 DEF ShowsFields
  <2>6. i = Len(Fields) => ShowsFields(json, event, u, Selected(FieldsMade, Len(Fields)))'
    BY <1>1, <1>2, <2>2, <2>3, <2>4 DEF ShowsFields
  <2> QED BY <1>2, <2>1, <2>5, <2>6 DEF ShownInv, FieldsShown
<1>4. /\ event # NULL => event \in Items /\ Live(json, event)
      /\ i \in Nat \ {0} /\ field \in Keys /\ field \in Values /\ Value(field) \in Values
      /\ i \in 1 .. 5
  BY <1>2, FieldFacts DEF RootInv, Unlinked, Value, EventTypeOK
<1>5. /\ failed' = (IF ~a.added THEN failed \cup {<<field, 0>>} ELSE failed)
      /\ <<field, 0>> \notin failed
  BY <1>1, <1>2, <1>4 DEF FailedIf, FailedInv
<1>6. /\ i \in FieldsMade' <=> a.added
      /\ \A k \in 1 .. i - 1 : k \in FieldsMade' <=> k \in FieldsMade
  <2>1. i \in FieldsMade' <=> a.added
    BY <1>2, <1>5 DEF FieldsMade
  <2>2. \A k \in 1 .. i - 1 : k \in Steps /\ k # i
    BY <1>4, FieldFacts
  <2>3. \A k \in 1 .. i - 1 : Fields[k] # field
    BY <1>2, <2>2, FieldNames
  <2> HIDE DEF field
  <2>4. \A k \in 1 .. i - 1 : <<Fields[k], 0>> \in failed' <=> <<Fields[k], 0>> \in failed
    BY <1>5, <2>3
  <2> QED BY <2>1, <2>2, <2>4 DEF FieldsMade
<1>7. K \in Seq(Nat) /\ L = IF a.added THEN Append(K, i) ELSE K
  <2> DEFINE M == FieldsMade
             N == FieldsMade'
  <2>1. i \in Nat \ {0} /\ \A k \in 1 .. i - 1 : k \in N <=> k \in M
    BY <1>4, <1>6
  <2> HIDE DEF M, N
  <2>2. /\ Selected(M, i - 1) \in Seq(Nat)
        /\ Selected(N, i) = IF i \in N THEN Append(Selected(M, i - 1), i) ELSE Selected(M, i - 1)
    BY <2>1, SelectedStep
  <2> QED BY <1>6, <2>2 DEF M, N
<1> HIDE DEF field
<1>8. \A r \in created : r = [json |-> r.json, item |-> r.item] /\ Made(json, r, type, value)
  BY <1>4, CreateNumberIs, CreateStringIs, OutcomeRecords DEF TreeInv
<1>9. type # "array" /\ value = Value(field)
  <2>1. number => field # "ProcessName"
    OBVIOUS
  <2> QED BY <2>1 DEF Value
<1> HIDE DEF created, type, value
<1>10. \/ ~a.added /\ Keeps(json, a.json)
       \/ /\ a.added
          /\ \E f \in Heaps, x \in Items :
               /\ Made(json, [json |-> f, item |-> x], type, value) /\ f.key[x] = field
               /\ a.json = AddToArray(f, event, x) /\ x # event
  <2>1. Sound(json) /\ Tight(json) /\ field \in Keys /\ a \in AddNew(event, field, created)
    BY <1>1, <1>4 DEF TreeInv
  <2>2. \/ /\ ~a.added /\ Tight(a.json) /\ Keeps(json, a.json)
           /\ \A j \in Items : Live(a.json, j) => Live(json, j)
        \/ /\ a.added /\ event # NULL
           /\ \E f \in Heaps, x \in Items :
                /\ Made(json, [json |-> f, item |-> x], type, value) /\ f.key[x] = field
                /\ a.json = AddToArray(f, event, x) /\ x # event
    BY <1>8, <2>1, AddNewIs, SMTT(30)
  <2> QED BY <2>2
<1> HIDE DEF K, L
<1>11. ASSUME event # NULL PROVE \E u : ShowsFields(a.json, event, u, L)
  <2>1. PICK s : ShowsFields(json, event, s, K)
    BY <1>2, <1>11 DEF ShownInv, FieldsShown, K
  <2>2. CASE ~a.added /\ Keeps(json, a.json)
    BY <1>4, <1>7, <1>11, <2>1, <2>2, KeptShown
  <2>3. ASSUME a.added, NEW f \in Heaps, NEW x \in Items,
               Made(json, [json |-> f, item |-> x], type, value), f.key[x] = field,
               a.json = AddToArray(f, event, x), x # event
        PROVE  ShowsFields(a.json, event, Append(s, x), L)
    <3>1. /\ Sound(f) /\ Keeps(json, f) /\ Unlinked(f, x)
          /\ \A j \in Items : Live(f, j) => j = x \/ j < x
          /\ f.type[x] = type /\ f.value[x] = value
      BY <2>3, ItemFacts DEF Made, NoneNew, Newest, Created, Leaf
    <3>2. event \in Items /\ Live(json, event) /\ Live(f, event)
      BY <1>4, <1>11, <3>1 DEF Keeps
    <3>3. ShowsFields(f, event, s, K)
      BY <2>1, <3>1, <3>2, KeptShown
    <3>4. \A j \in 1 .. Len(s) : s[j] < x
      <4>1. \A j \in 1 .. Len(s) : s[j] \in Items /\ Live(f, s[j]) /\ f.prev[s[j]] # NULL
        BY <3>3 DEF ShowsFields, ListOf
      <4> QED BY <3>1, <4>1 DEF Unlinked
    <3>5. f.type[x] # "array" /\ f.key[x] = Fields[i] /\ f.value[x] = Value(Fields[i])
      BY <1>9, <2>3, <3>1 DEF field
    <3>6. ShowsFields(AddToArray(f, event, x), event, Append(s, x), Append(K, i))
      BY <1>4, <1>7, <2>3, <3>1, <3>2, <3>3, <3>4, <3>5, HungField
    <3> QED BY <1>7, <2>3, <3>6
  <2> QED BY <1>10, <2>2, <2>3
<1>12. CASE event = NULL
  BY <1>2, <1>12 DEF ShownInv
<1> QED BY <1>3, <1>11, <1>12 DEF K, L

(* From one step to the next while the addresses are added.                *)
LEMMA SameFields ==
  ASSUME RecordInv, CreateArray \/ AddAddress \/ AddArray \/ PrintEvent \/ LogWrite
  PROVE  /\ UNCHANGED <<event, pid_name, found, matches, text, FieldsMade>>
         /\ \A s : ShowsFields(json', event, s, Selected(FieldsMade, Len(Fields))) =>
                     ShowsFields(json, event, s, Selected(FieldsMade, Len(Fields)))'
<1>1. UNCHANGED <<event, pid_name, found, matches, text>>
  BY DEF CreateArray, AddAddress, AddArray, PrintEvent, LogWrite, counters, tree
<1>2. \A k \in Steps : <<Fields[k], 0>> \in failed' <=> <<Fields[k], 0>> \in failed
  <2>1. pc \notin {"event", "fields"}
    BY DEF CreateArray, AddAddress, AddArray, PrintEvent, LogWrite
  <2>2. ~CreateEvent /\ ~AddField
    BY <2>1 DEF CreateEvent, AddField
  <2>3. failed' \in {failed} \cup {failed \cup {<<tag, k>>} : k \in {0, i},
                                    tag \in {"array", "address", "IPAddresses", "print", "log"}}
    BY <2>2, LaterFailures DEF RecordInv
  <2> QED BY <2>3, FieldNames
<1>3. FieldsMade' = FieldsMade
  BY <1>2 DEF FieldsMade
<1>4. \A f : Value(f)' = Value(f)
  BY <1>1 DEF Value
<1>5. ASSUME NEW s, ShowsFields(json', event, s, Selected(FieldsMade, Len(Fields)))
      PROVE  ShowsFields(json, event, s, Selected(FieldsMade, Len(Fields)))'
  BY <1>1, <1>3, <1>4, <1>5 DEF ShowsFields
<1> QED BY <1>1, <1>3, <1>5

(* A list does not hold an item in none, and a new item comes after it.    *)
LEMMA ShownBefore ==
  ASSUME NEW f, NEW x, Unlinked(f, x), \A j \in Items : Live(f, j) => j = x \/ j < x,
         NEW c, NEW s, ListOf(f, c, s)
  PROVE  \A j \in 1 .. Len(s) : s[j] < x
<1>1. \A j \in 1 .. Len(s) : s[j] \in Items /\ Live(f, s[j]) /\ f.prev[s[j]] # NULL
  BY DEF ListOf
<1> QED BY <1>1 DEF Unlinked

LEMMA CreateArrayShows == ASSUME RecordInv, CreateArray PROVE ShownInv'
<1> USE DEF RecordInv, EventInv
<1> DEFINE K == Selected(FieldsMade, Len(Fields))
<1>1. PICK r \in New(json, "array") : json' = r.json /\ ip_array' = r.item
  BY DEF CreateArray
<1>2. /\ UNCHANGED <<event, found>> /\ pc = "array" /\ pc' = "addresses" /\ i' = 1
      /\ Len(found) \in Nat
  BY DEF CreateArray, EventTypeOK
<1>3. Made(json, r, "array", NoValue) /\ Keeps(json, r.json)
  <2>1. Made(json, r, "array", NoValue)
    BY NewIs DEF TreeInv, Types
  <2> QED BY <2>1 DEF Made
<1>4. ASSUME event # NULL
      PROVE  \E s : /\ ShowsFields(json', event, s, K) /\ ListOf(r.json, event, s)
                    /\ ShowsFields(json, event, s, Selected(FieldsMade, Len(Fields)))'
  <2>1. PICK s : ShowsFields(json, event, s, K)
    BY <1>2, <1>4 DEF ShownInv, FieldsShown
  <2>2. event \in Items /\ Live(json, event)
    BY <1>4 DEF RootInv, Unlinked
  <2>3. ShowsFields(r.json, event, s, K)
    BY <1>3, <2>1, <2>2, KeptShown
  <2>4. ShowsFields(json', event, s, K)
    BY <1>1, <2>3
  <2>5. ShowsFields(json, event, s, Selected(FieldsMade, Len(Fields)))'
    BY <2>4, SameFields
  <2> QED BY <2>3, <2>4, <2>5 DEF ShowsFields
<1>5. ASSUME event # NULL, r.item # NULL PROVE BothShown(0)' /\ r.json.type[r.item] = "array"
  <2>1. PICK s : /\ ListOf(r.json, event, s)
                 /\ ShowsFields(json, event, s, Selected(FieldsMade, Len(Fields)))'
    BY <1>4, <1>5
  <2>2. /\ Leaf(r.json, r.item) /\ r.json.type[r.item] = "array"
        /\ \A j \in Items : Live(r.json, j) => j = r.item \/ j < r.item
    BY <1>3, <1>5 DEF Made, NoneNew, Newest
  <2>3. \A j \in 1 .. Len(s) : s[j] < r.item
    BY <2>1, <2>2, ShownBefore DEF Leaf
  <2>4. ShowsAddresses(json, ip_array, <<>>, Selected(AddressesMade, 0))'
    <3>1. ListOf(r.json, r.item, <<>>)
      BY <2>2 DEF Leaf, ListOf, Unlinked
    <3>2. Selected(AddressesMade', 0) = <<>>
      BY SelectedNext
    <3> QED BY <1>1, <3>1, <3>2 DEF ShowsAddresses
  <2>5. Apart(s, <<>>)
    BY DEF Apart
  <2> HIDE DEF K
  <2> QED BY <1>1, <2>1, <2>2, <2>3, <2>4, <2>5 DEF BothShown
<1>6. event # NULL => FieldsShown(Len(Fields))'
  BY <1>4 DEF FieldsShown
<1>7. i' <= Len(found') + 1 /\ i' - 1 = 0
  BY <1>2
<1>8. event # NULL /\ r.item # NULL => BothShown(i - 1)'
  BY <1>5, <1>7 DEF BothShown
<1> QED BY <1>1, <1>2, <1>5, <1>6, <1>7, <1>8 DEF ShownInv

(* Whether an address is made, and which ones are.                         *)
LEMMA AddressMade ==
  ASSUME RecordInv, AddAddress, NEW added \in BOOLEAN,
         failed' = (IF ~added THEN failed \cup {<<"address", i>>} ELSE failed)
  PROVE  /\ Selected(AddressesMade, i - 1) \in Seq(Nat)
         /\ Selected(AddressesMade', i) =
              IF added THEN Append(Selected(AddressesMade, i - 1), i)
              ELSE Selected(AddressesMade, i - 1)
<1> USE DEF RecordInv, EventInv
<1>1. pc = "addresses" /\ pc' = pc /\ i <= Len(found) /\ found' = found
  BY DEF AddAddress
<1>2. i \in Nat \ {0} /\ i \in 1 .. Len(found)
  BY <1>1 DEF EventTypeOK
<1>3. found = Reported /\ found' = Reported'
  <2>1. SelectInv'
    BY SelectStep DEF EventNext
  <2> QED BY <1>1, <2>1 DEF SelectInv
<1>4. Len(Reported') = Len(found) /\ Len(Reported) = Len(found)
  BY <1>1, <1>3
<1>5. <<"address", i>> \notin failed
  BY <1>1, <1>2 DEF FailedInv, Unfailed
<1>6. i \in AddressesMade' <=> added
  BY <1>2, <1>4, <1>5 DEF AddressesMade
<1>7. \A k \in 1 .. i - 1 : k \in AddressesMade' <=> k \in AddressesMade
  <2>1. \A k \in 1 .. i - 1 : k # i
    BY <1>2
  <2> QED BY <1>4, <2>1 DEF AddressesMade
<1> DEFINE M == AddressesMade
           N == AddressesMade'
<1>8. i \in Nat \ {0} /\ \A k \in 1 .. i - 1 : k \in N <=> k \in M
  BY <1>2, <1>7
<1> HIDE DEF M, N
<1>9. /\ Selected(M, i - 1) \in Seq(Nat)
      /\ Selected(N, i) = IF i \in N THEN Append(Selected(M, i - 1), i) ELSE Selected(M, i - 1)
  BY <1>8, SelectedStep
<1> QED BY <1>6, <1>9 DEF M, N

LEMMA AddAddressShows == ASSUME RecordInv, AddAddress PROVE ShownInv'
<1> USE DEF RecordInv, EventInv
<1> DEFINE K == Selected(FieldsMade, Len(Fields))
           A == Selected(AddressesMade, i - 1)
           B == Selected(AddressesMade', i)
           v == matches[found[i]]
<1>1. PICK r \in CreateString(json, v) :
        /\ json' = AddToArray(r.json, ip_array, r.item)
        /\ FailedIf(r.item = NULL \/ ip_array = NULL, <<"address", i>>)
  BY DEF AddAddress
<1>2. /\ UNCHANGED <<event, ip_array, found, text>> /\ pc = "addresses" /\ pc' = pc /\ i' = i + 1
      /\ i <= Len(found) /\ Len(found) \in Nat /\ i \in Nat \ {0} /\ i \in 1 .. Len(found)
  BY DEF AddAddress, EventTypeOK
<1>3. v = text[found[i]] /\ v \in Values
  <2>1. found[i] \in 1 .. Len(matches) /\ v \in Addresses
    BY <1>2 DEF FoundInv, EventTypeOK
  <2> QED BY <2>1, FieldFacts DEF SelectInv
<1> HIDE DEF v
<1>4. Made(json, r, "string", v) /\ Keeps(json, r.json) /\ Sound(r.json)
  <2>1. Made(json, r, "string", v)
    BY <1>3, CreateStringIs DEF TreeInv
  <2> QED BY <2>1 DEF Made, Created
<1>5. /\ A \in Seq(Nat)
      /\ B = IF r.item # NULL /\ ip_array # NULL THEN Append(A, i) ELSE A
  <2> DEFINE added == r.item # NULL /\ ip_array # NULL
  <2>1. added \in BOOLEAN /\ failed' = (IF ~added THEN failed \cup {<<"address", i>>} ELSE failed)
    BY <1>1 DEF FailedIf
  <2> HIDE DEF added
  <2>2. /\ A \in Seq(Nat) /\ B = IF added THEN Append(A, i) ELSE A
    BY <2>1, AddressMade
  <2> QED BY <2>2 DEF added
<1>6. /\ event # NULL => event \in Items /\ Live(json, event) /\ Live(r.json, event)
      /\ ip_array # NULL => /\ ip_array \in Items /\ Live(json, ip_array) /\ Live(r.json, ip_array)
                            /\ ip_array # event /\ r.json.type[ip_array] = json.type[ip_array]
  BY <1>2, <1>4 DEF RootInv, Unlinked, Keeps
<1>7. r.item # NULL =>
        /\ Unlinked(r.json, r.item) /\ r.item # ip_array /\ r.item # event
        /\ r.json.value[r.item] = v
        /\ \A j \in Items : Live(r.json, j) => j = r.item \/ j < r.item
  BY <1>2, <1>4 DEF Made, NoneNew, Newest, Created, Leaf, RootInv
<1>8. i' <= Len(found') + 1 /\ i' - 1 = i
  BY <1>2
<1> HIDE DEF K, A, B
<1>9. ASSUME event # NULL, ip_array = NULL PROVE FieldsShown(Len(Fields))'
  <2>1. json' = r.json
    BY <1>1, <1>9 DEF AddToArray
  <2>2. PICK s : ShowsFields(json, event, s, K)
    BY <1>2, <1>9 DEF ShownInv, FieldsShown, K
  <2>3. ShowsFields(json', event, s, K)
    BY <1>4, <1>6, <1>9, <2>1, <2>2, KeptShown
  <2> QED BY <2>3, SameFields DEF FieldsShown, K
<1>10. ASSUME event # NULL, ip_array # NULL
       PROVE  /\ json'.type[ip_array] = "array"
              /\ \E s, t : /\ ShowsFields(json', event, s, K) /\ ShowsAddresses(json', ip_array, t, B)
                           /\ Apart(s, t) /\ \A j \in 1 .. Len(s) : s[j] < ip_array
  <2>1. PICK s, t : /\ ShowsFields(json, event, s, K) /\ ShowsAddresses(json, ip_array, t, A)
                    /\ Apart(s, t) /\ \A j \in 1 .. Len(s) : s[j] < ip_array
    BY <1>2, <1>10 DEF ShownInv, BothShown, K, A
  <2>2. ShowsFields(r.json, event, s, K) /\ ShowsAddresses(r.json, ip_array, t, A)
    BY <1>4, <1>6, <1>10, <2>1, KeptShown
  <2>3. r.json.type[ip_array] = "array"
    BY <1>2, <1>6, <1>10 DEF ShownInv
  <2>4. CASE r.item = NULL
    <3>1. json' = r.json /\ B = A
      BY <1>1, <1>5, <2>4 DEF AddToArray
    <3> QED BY <2>1, <2>2, <2>3, <3>1
  <2>5. CASE r.item # NULL
    <3> DEFINE x == r.item
               f == r.json
    <3>0. /\ Sound(f) /\ ip_array \in Items /\ Live(f, ip_array) /\ Unlinked(f, x) /\ x # ip_array
          /\ f.value[x] = text[found[i]] /\ json' = AddToArray(f, ip_array, x)
          /\ event \in Items /\ event # ip_array /\ i \in Nat
          /\ \A j \in Items : Live(f, j) => j = x \/ j < x
      BY <1>1, <1>2, <1>3, <1>4, <1>6, <1>7, <1>10, <2>5
    <3> HIDE DEF x, f
    <3>1. ListOf(f, event, s) /\ ListOf(f, ip_array, t) /\ t \in Seq(Items) /\ x \in Items
      BY <2>2, <3>0 DEF ShowsFields, ShowsAddresses, ListOf, Unlinked, f
    <3>2. \A j \in 1 .. Len(t) : t[j] < x
      BY <3>0, <3>1, ShownBefore
    <3>3. ShowsAddresses(json', ip_array, Append(t, x), B)
      <4>1. B = Append(A, i)
        BY <1>5, <1>10, <2>5
      <4>2. ShowsAddresses(f, ip_array, t, A)
        BY <2>2 DEF f
      <4> QED BY <1>5, <3>0, <3>2, <4>1, <4>2, HungAddress
    <3>4. ShowsFields(json', event, s, K) /\ \A j \in 1 .. Len(s) : s[j] # x
      <4>1. \A j \in 1 .. Len(t) : \A k \in 1 .. Len(s) : t[j] # s[k]
        BY <2>1 DEF Apart
      <4>2. ShowsFields(f, event, s, K)
        BY <2>2 DEF f
      <4> QED BY <3>0, <3>1, <4>1, <4>2, HungShown
    <3>5. Apart(s, Append(t, x))
      <4>1. /\ Len(Append(t, x)) = Len(t) + 1 /\ Append(t, x)[Len(t) + 1] = x
            /\ \A j \in 1 .. Len(t) : Append(t, x)[j] = t[j]
            /\ \A j \in 1 .. Len(t) + 1 : j = Len(t) + 1 \/ j \in 1 .. Len(t)
        BY <3>1, Longer
      <4> QED BY <2>1, <3>4, <4>1 DEF Apart
    <3>6. json'.type[ip_array] = "array"
      <4>1. json'.type = f.type
        BY <3>0, AddToArrayIs
      <4> QED BY <2>3, <4>1 DEF f
    <3> QED BY <2>1, <3>3, <3>4, <3>5, <3>6
  <2> QED BY <2>4, <2>5
<1>11. ASSUME event # NULL, ip_array # NULL PROVE BothShown(i - 1)' /\ json'.type[ip_array] = "array"
  <2>1. PICK s, t : /\ ShowsFields(json', event, s, K) /\ ShowsAddresses(json', ip_array, t, B)
                    /\ Apart(s, t) /\ \A j \in 1 .. Len(s) : s[j] < ip_array
    BY <1>10, <1>11
  <2>2. ShowsFields(json, event, s, Selected(FieldsMade, Len(Fields)))'
    BY <2>1, SameFields DEF K
  <2>3. Selected(AddressesMade, i - 1)' = B
    BY <1>8 DEF B
  <2>4. ShowsAddresses(json, ip_array, t, Selected(AddressesMade, i - 1))'
    BY <1>2, <2>1, <2>3 DEF ShowsAddresses
  <2>5. \A j \in 1 .. Len(s) : s[j] < ip_array'
    BY <1>2, <2>1
  <2> QED BY <1>10, <1>11, <2>1, <2>2, <2>4, <2>5 DEF BothShown
<1> QED BY <1>2, <1>8, <1>9, <1>11 DEF ShownInv

(* Once the addresses are in, what the record must say stays.              *)
LEMMA SameRecord ==
  ASSUME RecordInv, AddArray \/ PrintEvent \/ LogWrite
  PROVE  /\ Reported' = Reported /\ found = Reported
         /\ FieldRecord(Selected(FieldsMade, Len(Fields)))'
              = FieldRecord(Selected(FieldsMade, Len(Fields)))
         /\ AddressRecord(Selected(AddressesMade, Len(Reported)))'
              = AddressRecord(Selected(AddressesMade, Len(Reported)))
<1> USE DEF RecordInv, EventInv
<1>1. /\ UNCHANGED <<event, pid_name, found, matches, text, FieldsMade>>
      /\ pc \in {"addresses", "print", "log"} /\ pc' \notin {"parse", "name", "match", "filter", "undefined"}
  BY SameFields DEF AddArray, PrintEvent, LogWrite
<1>2. found = Reported /\ found' = Reported'
  <2>1. SelectInv'
    BY SelectStep DEF EventNext
  <2> QED BY <1>1, <2>1 DEF SelectInv
<1>3. Reported' = Reported
  BY <1>1, <1>2
<1>4. \A k \in Nat : <<"address", k>> \in failed' <=> <<"address", k>> \in failed
  <2>1. failed' \in {failed} \cup {failed \cup {<<tag, 0>>} : tag \in {"IPAddresses", "print", "log"}}
    BY DEF AddArray, PrintEvent, LogWrite, FailedIf
  <2> QED BY <2>1
<1>5. AddressesMade' = AddressesMade
  BY <1>3, <1>4 DEF AddressesMade
<1>6. \A f : Value(f)' = Value(f)
  BY <1>1 DEF Value
<1>7. FieldRecord(Selected(FieldsMade, Len(Fields)))' = FieldRecord(Selected(FieldsMade, Len(Fields)))
  BY <1>1, <1>6 DEF FieldRecord
<1>8. AddressRecord(Selected(AddressesMade, Len(Reported)))'
        = AddressRecord(Selected(AddressesMade, Len(Reported)))
  BY <1>1, <1>3, <1>5 DEF AddressRecord
<1> QED BY <1>2, <1>3, <1>7, <1>8

LEMMA AddArrayShows == ASSUME RecordInv, AddArray PROVE ShownInv'
<1> USE DEF RecordInv, EventInv
<1> DEFINE K == Selected(FieldsMade, Len(Fields))
           A == Selected(AddressesMade, Len(Reported))
<1>1. PICK a \in AddToObject(json, event, "IPAddresses", ip_array) :
        json' = a.json /\ FailedIf(~a.added, <<"IPAddresses", 0>>)
  BY DEF AddArray
<1>2. /\ UNCHANGED <<event, ip_array>> /\ pc = "addresses" /\ pc' = "print"
      /\ found = Reported /\ i - 1 = Len(Reported)
  <2>1. /\ UNCHANGED <<event, ip_array>> /\ pc = "addresses" /\ pc' = "print" /\ i > Len(found)
        /\ i <= Len(found) + 1 /\ i \in Nat /\ Len(found) \in Nat
    BY DEF AddArray, EventTypeOK, ShownInv
  <2>2. found = Reported
    BY SameRecord
  <2> HIDE DEF RecordInv, EventInv
  <2> QED BY <2>1, <2>2
<1>3. SUFFICES ASSUME event # NULL PROVE Contents(a.json, event) = Record'
  BY <1>1, <1>2 DEF ShownInv
<1>4. /\ Record' = IF a.added THEN Append(FieldRecord(K), AddressRecord(A)) ELSE FieldRecord(K)
  <2>1. <<"IPAddresses", 0>> \in failed' <=> ~a.added
    BY <1>1, <1>2 DEF FailedIf, FailedInv
  <2> QED BY <2>1, SameRecord DEF Record
<1>5. K \in Seq(Nat) /\ A \in Seq(Nat)
  <2>1. Len(Fields) \in Nat /\ Len(Reported) \in Nat
    BY <1>2, FieldFacts DEF EventTypeOK
  <2> QED BY <2>1, SelectedSeq
<1>6. /\ event \in Items /\ Unlinked(json, event) /\ Live(json, event) /\ json \in Heaps
      /\ Sound(json)
      /\ (ip_array = NULL \/ (Unlinked(json, ip_array) /\ ip_array \in Items /\ ip_array # event))
  BY <1>2, <1>3 DEF RootInv, Unlinked, Sound
<1>7. CASE ~a.added
  <2>1. a.json = json
    BY <1>7 DEF AddToObject
  <2>2. \E s : ShowsFields(json, event, s, K)
    BY <1>2, <1>3 DEF ShownInv, FieldsShown, BothShown
  <2>3. Contents(json, event) = FieldRecord(K)
    BY <1>5, <1>6, <2>2, FieldsPrinted
  <2> QED BY <1>4, <1>7, <2>1, <2>3
<1>8. CASE a.added
  <2>1. /\ ip_array # NULL /\ event # ip_array
        /\ \E g \in Heaps :
             /\ a.json = AddToArray(g, event, ip_array) /\ SameTree(json, g)
             /\ g.type = json.type /\ g.value = json.value
             /\ g.key[ip_array] = "IPAddresses" /\ \A j \in Items : j # ip_array => g.key[j] = json.key[j]
    BY <1>6, <1>8, FieldFacts, AddToObjectIs
  <2>2. PICK g \in Heaps :
          /\ a.json = AddToArray(g, event, ip_array) /\ SameTree(json, g)
          /\ g.type = json.type /\ g.value = json.value
          /\ g.key[ip_array] = "IPAddresses" /\ \A j \in Items : j # ip_array => g.key[j] = json.key[j]
    BY <2>1
  <2>3. PICK s, t : /\ ShowsFields(json, event, s, K) /\ ShowsAddresses(json, ip_array, t, A)
                    /\ Apart(s, t) /\ \A j \in 1 .. Len(s) : s[j] < ip_array
    BY <1>2, <1>3, <2>1 DEF ShownInv, BothShown
  <2>4. json.type[ip_array] = "array"
    BY <1>2, <1>3, <2>1 DEF ShownInv
  <2>5. Sound(g) /\ Live(g, event) /\ Unlinked(g, ip_array) /\ ip_array \in Items
    <3>1. json \in Heaps /\ Linked(json) /\ Unlinked(json, ip_array)
      BY <1>6, <2>1 DEF Sound
    <3>2. Linked(g) /\ Unlinked(g, ip_array)
      BY <2>2, <3>1, SameTreeLinked
    <3> QED BY <1>6, <2>1, <2>2, <3>2 DEF Sound, SameTree
  <2>6. \A j \in 1 .. Len(s) : s[j] # ip_array
    <3>1. \A j \in 1 .. Len(s) : s[j] \in Int /\ ip_array \in Int
      BY <2>3, <2>5, ItemsAssumption DEF ShowsFields, ListOf, Items
    <3> QED BY <2>3, <3>1
  <2> HIDE DEF K, A
  <2>7. ShowsFields(g, event, s, K) /\ ShowsAddresses(g, ip_array, t, A)
    BY <2>2, <2>3, <2>6, DressedShown
  <2>8. /\ \A j \in 1 .. Len(s) : \A k \in 1 .. Len(t) : s[j] # t[k]
        /\ g.type[ip_array] = "array" /\ g.key[ip_array] = "IPAddresses"
    BY <2>2, <2>3, <2>4 DEF Apart
  <2>9. Contents(AddToArray(g, event, ip_array), event) = Append(FieldRecord(K), AddressRecord(A))
    BY <1>2, <1>5, <1>6, <2>1, <2>3, <2>5, <2>7, <2>8, AllPrinted
  <2> QED BY <1>4, <1>8, <2>2, <2>9
<1> QED BY <1>7, <1>8 DEF AddToObject

LEMMA ShownStutters == ASSUME RecordInv, UNCHANGED vars PROVE ShownInv' /\ Record' = Record /\ Reported' = Reported
<1>1. UNCHANGED <<pc, i, found, json, event, ip_array, pid_name, text, failed, matches, region>>
  BY DEF vars, counters, tree
<1>2. /\ ToReport' = ToReport /\ FieldsMade' = FieldsMade /\ \A f : Value(f)' = Value(f)
  BY <1>1 DEF ToReport, FieldsMade, Value
<1>3. Reported' = Reported
  BY <1>1, <1>2 DEF Reported
<1>4. AddressesMade' = AddressesMade
  BY <1>1, <1>3 DEF AddressesMade
<1>5. Record' = Record
  BY <1>1, <1>2, <1>3, <1>4 DEF Record, FieldRecord, AddressRecord
<1>6. \A s : ShowsFields(json, event, s, Selected(FieldsMade, i - 1)) =>
             ShowsFields(json, event, s, Selected(FieldsMade, i - 1))'
  BY <1>1, <1>2 DEF ShowsFields
<1>7. \A s : ShowsFields(json, event, s, Selected(FieldsMade, Len(Fields))) =>
             ShowsFields(json, event, s, Selected(FieldsMade, Len(Fields)))'
  BY <1>1, <1>2 DEF ShowsFields
<1>8. \A t : ShowsAddresses(json, ip_array, t, Selected(AddressesMade, i - 1)) =>
             ShowsAddresses(json, ip_array, t, Selected(AddressesMade, i - 1))'
  BY <1>1, <1>4 DEF ShowsAddresses
<1>9. FieldsShown(i - 1) => FieldsShown(i - 1)'
  BY <1>6 DEF FieldsShown
<1>10. FieldsShown(Len(Fields)) => FieldsShown(Len(Fields))'
  BY <1>7 DEF FieldsShown
<1>11. BothShown(i - 1) => BothShown(i - 1)'
  BY <1>1, <1>7, <1>8 DEF BothShown
<1> QED BY <1>1, <1>3, <1>5, <1>9, <1>10, <1>11 DEF RecordInv, ShownInv

LEMMA ShownStep == ASSUME RecordInv, [EventNext]_vars PROVE ShownInv'
<1>1. CASE \/ Dequeue \/ ReadPastBlock \/ PraseMessage \/ GetPidName \/ FindMatch \/ MatchOverrun \/ MatchEnd
           \/ LookUp \/ LookUpNull \/ FilterEnd \/ LogWrite \/ FreeName \/ FreeMatches \/ FreeNode
  <2>1. /\ pc' \notin {"fields", "array", "addresses", "print", "log"}
        /\ pc' = "event" => i' = 1
    BY <1>1 DEF Dequeue, ReadPastBlock, PraseMessage, GetPidName, FindMatch, MatchOverrun, MatchEnd, LookUp,
       LookUpNull, FilterEnd, LogWrite, FreeName, FreeMatches, FreeNode
  <2> QED BY <2>1 DEF ShownInv
<1>2. CASE PrintEvent
  <2>1. CASE pc' = "free_name"
    BY <2>1 DEF ShownInv
  <2>2. CASE pc' # "free_name"
    <3>1. /\ pc' = "log" /\ pc = "print" /\ event # NULL /\ UNCHANGED <<json, event, failed>>
      BY <1>2, <2>2 DEF PrintEvent, tree
    <3>2. Record' = Record
      BY <1>2, <3>1, SameRecord DEF Record
    <3>3. Contents(json', event') = Record'
      BY <3>1, <3>2 DEF RecordInv, ShownInv
    <3> QED BY <3>1, <3>3 DEF ShownInv
  <2> QED BY <2>1, <2>2
<1> QED BY <1>1, <1>2, CreateEventShows, AddFieldShows, CreateArrayShows, AddAddressShows,
           AddArrayShows, ShownStutters DEF EventNext

(* What the log has of this packet.                                        *)
LoggedInv ==
  /\ pc \in Early \cup {"fields", "array", "addresses", "print", "log"} => logged = NoRecord
  /\ pc \in {"event", "fields", "array", "addresses", "print", "log"} => found # <<>>
  /\ pc \in {"free_name", "free_matches", "free_node", "idle"} =>
       logged = IF Reported = <<>> \/ failed \cap {<<"print", 0>>, <<"log", 0>>} # {} THEN NoRecord
                ELSE Record

LEMMA LoggedStep == ASSUME RecordInv, LoggedInv, [EventNext]_vars PROVE LoggedInv'
<1> USE DEF Early
<1>1. CASE \/ Dequeue \/ ReadPastBlock \/ GetPidName \/ FindMatch \/ MatchOverrun \/ MatchEnd \/ LookUp \/ LookUpNull
  <2>1. /\ pc' \in {"parse", "name", "match", "filter", "undefined"}
        /\ \/ logged' = NoRecord
           \/ pc \in Early /\ logged' = logged
    BY <1>1 DEF Dequeue, ReadPastBlock, GetPidName, FindMatch, MatchOverrun, MatchEnd, LookUp, LookUpNull
  <2> QED BY <2>1 DEF LoggedInv
<1>2. CASE PraseMessage \/ FilterEnd
  <2>1. /\ logged' = logged /\ pc \in {"parse", "filter"} /\ UNCHANGED found
        /\ pc' \in {"name", "undefined", "free_node", "free_name", "event"}
        /\ pc' \in {"event", "free_name"} => (pc' = "free_name" <=> found = <<>>)
        /\ pc' = "free_node" => pc = "parse"
    BY <1>2 DEF PraseMessage, FilterEnd, counters
  <2>2. pc' \in {"free_node", "free_name"} => Reported' = <<>>
    <3>1. SelectInv'
      BY <1>2, SelectStep DEF EventNext, RecordInv
    <3>2. pc = "parse" => found = <<>>
      BY DEF RecordInv, SelectInv
    <3> QED BY <2>1, <3>1, <3>2 DEF SelectInv
  <2> QED BY <2>1, <2>2 DEF LoggedInv
<1>3. CASE CreateEvent \/ AddField \/ CreateArray \/ AddAddress \/ AddArray
  <2>1. /\ UNCHANGED <<logged, found>> /\ pc \in {"event", "fields", "array", "addresses"}
        /\ pc' \in {"fields", "array", "addresses", "print"}
    BY <1>3 DEF CreateEvent, AddField, CreateArray, AddAddress, AddArray, counters
  <2> QED BY <2>1 DEF LoggedInv
<1>4. CASE PrintEvent
  <2>1. /\ UNCHANGED <<logged, found>> /\ pc = "print"
        /\ pc' = "log" \/ (pc' = "free_name" /\ <<"print", 0>> \in failed')
    BY <1>4 DEF PrintEvent, counters
  <2> QED BY <2>1 DEF LoggedInv
<1>5. CASE LogWrite
  <2>1. pc = "log" /\ pc' = "free_name"
    BY <1>5 DEF LogWrite
  <2>2. CASE failed' = failed /\ logged' = Contents(json, event)
    <3>1. Reported' # <<>> /\ Record' = Record
      BY <1>5, <2>1, <2>2, SameRecord DEF LoggedInv, Record
    <3>2. failed' \cap {<<"print", 0>>, <<"log", 0>>} = {}
      BY <2>1, <2>2 DEF RecordInv, FailedInv
    <3>3. logged' = Record
      BY <2>1, <2>2 DEF RecordInv, ShownInv
    <3> QED BY <2>1, <3>1, <3>2, <3>3 DEF LoggedInv
  <2>3. CASE failed' = failed \cup {<<"log", 0>>} /\ logged' = logged
    <3>1. logged' = NoRecord /\ <<"log", 0>> \in failed' \cap {<<"print", 0>>, <<"log", 0>>}
      BY <2>1, <2>3 DEF LoggedInv
    <3> QED BY <2>1, <3>1 DEF LoggedInv
  <2> QED BY <1>5, <2>2, <2>3 DEF LogWrite
<1>6. CASE FreeName \/ FreeMatches \/ FreeNode \/ UNCHANGED vars
  <2>1. /\ UNCHANGED <<region, text, pid_name, found, matches, logged, failed>>
        /\ \/ /\ pc \in {"free_name", "free_matches", "free_node"}
              /\ pc' \in {"free_matches", "free_node", "idle"}
           \/ pc' = pc
    BY <1>6 DEF FreeName, FreeMatches, FreeNode, counters, vars
  <2>2. /\ ToReport' = ToReport /\ FieldsMade' = FieldsMade /\ \A f : Value(f)' = Value(f)
    BY <2>1 DEF ToReport, FieldsMade, Value
  <2>3. Reported' = Reported
    BY <2>1, <2>2 DEF Reported
  <2>4. AddressesMade' = AddressesMade
    BY <2>1, <2>3 DEF AddressesMade
  <2>5. Record' = Record
    BY <2>1, <2>2, <2>3, <2>4 DEF Record, FieldRecord, AddressRecord
  <2> QED BY <2>1, <2>3, <2>5 DEF LoggedInv
<1> QED BY <1>1, <1>2, <1>3, <1>4, <1>5, <1>6 DEF EventNext

LEMMA RecordInitInv == EventInit => RecordInv /\ LoggedInv
<1> SUFFICES ASSUME EventInit PROVE RecordInv /\ LoggedInv
  OBVIOUS
<1>1. EventInv /\ TreeInv
  BY EventInitInv, TreeInitInv
<1>2. pc = "idle" /\ matches = <<>> /\ found = <<>> /\ logged = NoRecord
  BY DEF EventInit
<1>3. Reported = <<>>
  <2> DEFINE K == ToReport
  <2>1. Reported = Selected(K, 0)
    BY <1>2 DEF Reported
  <2> HIDE DEF K
  <2>2. Selected(K, 0) = <<>>
    BY SelectedNext
  <2> QED BY <2>1, <2>2
<1>4. SelectInv /\ FailedInv /\ ShownInv /\ LoggedInv
  BY <1>2, <1>3 DEF SelectInv, FailedInv, ShownInv, LoggedInv, Early
<1> QED BY <1>1, <1>4 DEF RecordInv

(* The record of a packet says what it must: each field with its value and *)
(* the addresses of the text that the region asks for, in order, all but   *)
(* what failed on the way; and there is none when nothing is to be said.   *)
THEOREM RecordCorrect == EventSpec => []RecordIsRight
<1>1. RecordInv /\ LoggedInv /\ [EventNext]_vars => (RecordInv /\ LoggedInv)'
  BY EventNextInv, TreeStep, SelectStep, FailedStep, ShownStep, LoggedStep DEF RecordInv
<1>2. RecordInv /\ LoggedInv => RecordIsRight
  BY DEF LoggedInv, RecordIsRight
<1> QED BY RecordInitInv, <1>1, <1>2, PTL DEF EventSpec
=============================================================================
