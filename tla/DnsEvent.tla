------------------------------ MODULE DnsEvent ------------------------------
(***************************************************************************)
(* main_loop on one packet after another: the message is parsed, its       *)
(* addresses found and looked up, those the region asks for put into an    *)
(* event, and the event logged as JSON.                                    *)
(*                                                                         *)
(* The copy of the datagram has no NUL behind it.  Unless the datagram     *)
(* holds one, the reading goes on past the block: it may find a NUL among  *)
(* the bytes there, with any of its readings for a result, or may be no    *)
(* defined behaviour at all.  Of a text only the addresses in it count.    *)
(*                                                                         *)
(* Where the program's behaviour is undefined it goes no further here: a   *)
(* read past the block, an array written past its end, a value that does   *)
(* not fit, a NULL address looked up.                                      *)
(*                                                                         *)
(* A definition X_Y just before a definition X is X with a plausible       *)
(* mistake, Y.  No action uses one: the properties are tried against them. *)
(***************************************************************************)
EXTENDS CJson, SequencesExt

CONSTANTS
  China,         \* the addresses the database has as Chinese, ...
  Elsewhere,     \* ... and the others
  Packets,       \* the datagrams: of each, whether its four fields are read
                 \* and fit, whether it holds a NUL, and the texts that
                 \* may be read where it lies
  Regions,       \* what -r may give
  MaxMatches     \* how many addresses match_results holds

FOREIGN  == 1
DOMESTIC == 0
Addresses == China \cup Elsewhere
NoRecord == <<>>
NoMatch  == "no match"

(* What every event has, in order, and where its value comes from.         *)
Fields == <<"DnsRet", "Domain", "UID", "PID", "ProcessName">>
Steps  == 1 .. Len(Fields)

ASSUME EventAssumption ==
  /\ MaxMatches \in Nat
  /\ Range(Fields) \cup {"IPAddresses"} \subseteq Keys
  /\ Range(Fields) \cup {"Unknown"} \cup Addresses \subseteq Values
  /\ China \cap Elsewhere = {} /\ NoMatch \notin Addresses
  /\ \A m \in Packets :
       /\ m.fields \in {"ok", "bad", "long"} /\ m.ended \in BOOLEAN
       /\ m.readings \subseteq Seq(Addresses)
       /\ m.ended => \A s, r \in m.readings : s = r

VARIABLES
  region, pc,
  packet, text,        \* the datagram and the addresses in what is read
  pid_name,            \* whether the process's name is known
  offset, matches, i, found,
  json, event, ip_array,
  logged,              \* what the last log_write wrote
  owned,               \* what main_loop itself has allocated
  failed               \* which steps of this packet have failed

counters == <<offset, matches, i, found>>
tree     == <<json, event, ip_array>>
vars     == <<region, pc, packet, text, pid_name, counters, tree, logged, owned, failed>>

Node      == <<"node", 0>>
Name      == <<"pid_name", 0>>
Text      == <<"event_str", 0>>
Match(k)  == <<"match", k>>

EventInit ==
  /\ region \in Regions /\ pc = "idle"
  /\ packet \in Packets /\ text = <<>> /\ pid_name = FALSE
  /\ offset = 0 /\ matches = <<>> /\ i = 1 /\ found = <<>>
  /\ json = EmptyHeap /\ event = NULL /\ ip_array = NULL
  /\ logged = NoRecord /\ owned = {} /\ failed = {}

-----------------------------------------------------------------------------
(* A packet from the queue.  The variables of the loop's body begin anew;  *)
(* an event of an earlier packet is out of reach by now.                   *)
Dequeue ==
  /\ pc = "idle" /\ pc' = "parse"
  /\ packet' \in Packets /\ text' \in packet'.readings
  /\ pid_name' = FALSE /\ owned' = {Node}
  /\ offset' = 0 /\ matches' = <<>> /\ i' = 1 /\ found' = <<>>
  /\ json' = EmptyHeap /\ event' = NULL /\ ip_array' = NULL
  /\ logged' = NoRecord /\ failed' = {}
  /\ UNCHANGED region

(* It is printed first, and then parsed, as a string.                      *)
ReadPastBlock ==
  /\ pc = "parse" /\ ~packet.ended
  /\ pc' = "undefined"
  /\ UNCHANGED <<region, packet, text, pid_name, counters, tree, logged, owned, failed>>

(* PraseMessage: four values, or the packet is dropped.                    *)
PraseMessage ==
  /\ pc = "parse"
  /\ \/ packet.fields = "ok"   /\ pc' = "name"
     \/ packet.fields = "bad"  /\ pc' = "free_node"
     \/ packet.fields = "long" /\ pc' = "undefined"
  /\ UNCHANGED <<region, packet, text, pid_name, counters, tree, logged, owned, failed>>

(* get_pid_name: no file, no memory and an empty file are all NULL, and    *)
(* leave nothing allocated.                                                *)
GetPidName ==
  /\ pc = "name" /\ pc' = "match"
  /\ pid_name' \in BOOLEAN
  /\ owned' = IF pid_name' THEN owned \cup {Name} ELSE owned
  /\ UNCHANGED <<region, packet, text, counters, tree, logged, failed>>

(* regex_find_all: the next match, from where the last one ended, and its  *)
(* copy, or NULL if memory is short.                                       *)
FindMatch ==
  /\ pc = "match" /\ offset < Len(text) /\ Len(matches) < MaxMatches
  /\ \/ /\ matches' = Append(matches, text[offset + 1])
        /\ owned' = owned \cup {Match(Len(matches'))}
     \/ matches' = Append(matches, NoMatch) /\ UNCHANGED owned
  /\ offset' = offset + 1
  /\ UNCHANGED <<region, pc, packet, text, pid_name, i, found, tree, logged, failed>>

(* Nothing counts the slots of match_results.                              *)
MatchOverrun ==
  /\ pc = "match" /\ offset < Len(text) /\ Len(matches) = MaxMatches
  /\ pc' = "undefined"
  /\ UNCHANGED <<region, packet, text, pid_name, counters, tree, logged, owned, failed>>

(* No match any more, or an error of the matcher: the loop ends.           *)
MatchEnd ==
  /\ pc = "match" /\ pc' = "filter"
  /\ \/ offset = Len(text) /\ UNCHANGED failed
     \/ offset < Len(text) /\ failed' = failed \cup {<<"match", 0>>}
  /\ UNCHANGED <<region, packet, text, pid_name, counters, tree, logged, owned>>

(* Whether an address that has been looked up is reported.                 *)
Wanted(address) ==
  IF address \in China THEN region = FOREIGN ELSE region = DOMESTIC

(* The lookup of one match; one that fails counts as wanted.               *)
LookUp ==
  /\ pc = "filter" /\ i <= Len(matches) /\ matches[i] # NoMatch
  /\ \/ /\ found' = IF Wanted(matches[i]) THEN Append(found, i) ELSE found
        /\ UNCHANGED failed
     \/ /\ found' = Append(found, i)
        /\ failed' = failed \cup {<<"lookup", i>>}
  /\ i' = i + 1
  /\ UNCHANGED <<region, pc, packet, text, pid_name, offset, matches, tree, logged, owned>>

LookUpNull ==
  /\ pc = "filter" /\ i <= Len(matches) /\ matches[i] = NoMatch
  /\ pc' = "undefined"
  /\ UNCHANGED <<region, packet, text, pid_name, counters, tree, logged, owned, failed>>

FilterEnd ==
  /\ pc = "filter" /\ i > Len(matches)
  /\ pc' = IF found = <<>> THEN "free_name" ELSE "event"
  /\ i' = 1
  /\ UNCHANGED <<region, packet, text, pid_name, offset, matches, found, tree, logged, owned, failed>>

-----------------------------------------------------------------------------
(* The event: an object, ...                                               *)
FailedIf(condition, step) == failed' = IF condition THEN failed \cup {step} ELSE failed

CreateEvent ==
  /\ pc = "event" /\ pc' = "fields"
  /\ \E r \in New(json, "object") :
       json' = r.json /\ event' = r.item /\ FailedIf(r.item = NULL, <<"event", 0>>)
  /\ UNCHANGED <<region, packet, text, pid_name, counters, ip_array, logged, owned>>

(* ... its five fields, ...                                                *)
Value(field) == IF field = "ProcessName" /\ ~pid_name THEN "Unknown" ELSE field

AddField ==
  /\ pc = "fields" /\ i \in Steps
  /\ LET field   == Fields[i]
         created == IF field \in {"UID", "PID"} THEN CreateNumber(json, field)
                    ELSE CreateString(json, Value(field))
     IN  \E a \in AddNew(event, field, created) :
           json' = a.json /\ FailedIf(~a.added, <<field, 0>>)
  /\ i' = i + 1 /\ pc' = IF i = Len(Fields) THEN "array" ELSE pc
  /\ UNCHANGED <<region, packet, text, pid_name, offset, matches, found, event, ip_array,
                 logged, owned>>

(* ... an array, ...                                                       *)
CreateArray ==
  /\ pc = "array" /\ pc' = "addresses" /\ i' = 1
  /\ \E r \in New(json, "array") :
       json' = r.json /\ ip_array' = r.item /\ FailedIf(r.item = NULL, <<"array", 0>>)
  /\ UNCHANGED <<region, packet, text, pid_name, offset, matches, found, event, logged, owned>>

(* ... a string for each address, lost if there is no array, ...           *)
AddAddress_NotByIndex ==
  /\ pc = "addresses" /\ i <= Len(found)
  /\ \E r \in CreateString(json, matches[i]) :
       /\ json' = AddToArray(r.json, ip_array, r.item)
       /\ FailedIf(r.item = NULL \/ ip_array = NULL, <<"address", i>>)
  /\ i' = i + 1
  /\ UNCHANGED <<region, pc, packet, text, pid_name, offset, matches, found, event, ip_array,
                 logged, owned>>

AddAddress ==
  /\ pc = "addresses" /\ i <= Len(found)
  /\ \E r \in CreateString(json, matches[found[i]]) :
       /\ json' = AddToArray(r.json, ip_array, r.item)
       /\ FailedIf(r.item = NULL \/ ip_array = NULL, <<"address", i>>)
  /\ i' = i + 1
  /\ UNCHANGED <<region, pc, packet, text, pid_name, offset, matches, found, event, ip_array,
                 logged, owned>>

(* ... and the array into the object; it is lost if that fails.            *)
AddArray ==
  /\ pc = "addresses" /\ i > Len(found) /\ pc' = "print"
  /\ \E a \in AddToObject(json, event, "IPAddresses", ip_array) :
       json' = a.json /\ FailedIf(~a.added, <<"IPAddresses", 0>>)
  /\ UNCHANGED <<region, packet, text, pid_name, counters, event, ip_array, logged, owned>>

(* cJSON_Print: NULL for NULL, and when memory is short.                   *)
PrintEvent ==
  /\ pc = "print"
  /\ \/ event # NULL /\ pc' = "log" /\ owned' = owned \cup {Text} /\ UNCHANGED failed
     \/ pc' = "free_name" /\ failed' = failed \cup {<<"print", 0>>} /\ UNCHANGED owned
  /\ UNCHANGED <<region, packet, text, pid_name, counters, tree, logged>>

(* What the JSON text of a tree says: the keys and values in order, and    *)
(* the texts of an array for its value.                                    *)
TextsOf(h, first) == [j \in DOMAIN ListFrom(h, first) |-> h.value[ListFrom(h, first)[j]]]
Contents(h, object) ==
  LET members == ListFrom(h, h.child[object])
  IN  [j \in DOMAIN members |->
        [key   |-> h.key[members[j]],
         value |-> IF h.type[members[j]] = "array" THEN TextsOf(h, h.child[members[j]])
                   ELSE <<h.value[members[j]]>>]]

LogWrite ==
  /\ pc = "log" /\ pc' = "free_name"
  /\ \/ logged' = Contents(json, event) /\ UNCHANGED failed
     \/ failed' = failed \cup {<<"log", 0>>} /\ UNCHANGED logged
  /\ owned' = owned \ {Text}
  /\ UNCHANGED <<region, packet, text, pid_name, counters, tree>>

-----------------------------------------------------------------------------
(* What is freed, with or without an event.                                *)
FreeName ==
  /\ pc = "free_name" /\ pc' = "free_matches"
  /\ owned' = owned \ {Name}
  /\ UNCHANGED <<region, packet, text, pid_name, counters, tree, logged, failed>>

FreeMatches ==
  /\ pc = "free_matches" /\ pc' = "free_node"
  /\ owned' = owned \ {Match(k) : k \in DOMAIN matches}
  /\ UNCHANGED <<region, packet, text, pid_name, counters, tree, logged, failed>>

FreeNode ==
  /\ pc = "free_node" /\ pc' = "idle"
  /\ owned' = owned \ {Node}
  /\ UNCHANGED <<region, packet, text, pid_name, counters, tree, logged, failed>>

EventNext ==
  \/ Dequeue \/ ReadPastBlock \/ PraseMessage \/ GetPidName
  \/ FindMatch \/ MatchOverrun \/ MatchEnd \/ LookUp \/ LookUpNull \/ FilterEnd
  \/ CreateEvent \/ AddField \/ CreateArray \/ AddAddress \/ AddArray \/ PrintEvent \/ LogWrite
  \/ FreeName \/ FreeMatches \/ FreeNode

EventSpec == EventInit /\ [][EventNext]_vars

-----------------------------------------------------------------------------
(* Every variable keeps its type.                                          *)
EventTypeOK ==
  /\ region \in Regions /\ packet \in Packets
  /\ pc \in {"idle", "parse", "name", "match", "filter", "event", "fields", "array", "addresses",
            "print", "log", "free_name", "free_matches", "free_node", "undefined"}
  /\ text \in Seq(Addresses) /\ pid_name \in BOOLEAN
  /\ offset \in 0 .. Len(text) /\ i \in Nat \ {0}
  /\ matches \in Seq(Addresses \cup {NoMatch}) /\ Len(matches) = offset /\ offset <= MaxMatches
  /\ found \in Seq(1 .. Len(matches))
  /\ json \in Heaps /\ event \in Links /\ ip_array \in Links

(* Every list of the tree stays one, with all memory failures: next and    *)
(* prev undo each other, and the first item knows the last, which is where *)
(* the next item is hung.  The two lists under construction are apart.     *)
ListsAreLinked == Linked(json)

(* The reference: what the record of this packet must say, given what has  *)
(* failed.  The reported addresses are those of the text whose lookup      *)
(* failed or gave what the region asks for, in their order.                *)
Selected(K, n) ==
  LET S[k \in 0 .. n] == IF k = 0 THEN <<>>
                         ELSE IF k \in K THEN Append(S[k - 1], k) ELSE S[k - 1]
  IN  S[n]

ToReport ==
  {k \in 1 .. Len(matches) : \/ <<"lookup", k>> \in failed
                             \/ text[k] \in China /\ region = FOREIGN
                             \/ text[k] \in Elsewhere /\ region = DOMESTIC}
Reported == Selected(ToReport, Len(matches))

FieldsMade    == {k \in Steps : <<Fields[k], 0>> \notin failed}
AddressesMade == {k \in 1 .. Len(Reported) : <<"address", k>> \notin failed}

FieldRecord(fields) == [k \in DOMAIN fields |-> [key   |-> Fields[fields[k]],
                                                 value |-> <<Value(Fields[fields[k]])>>]]
AddressRecord(addresses) ==
  [key |-> "IPAddresses", value |-> [k \in DOMAIN addresses |-> text[Reported[addresses[k]]]]]

Record ==
  LET fields    == FieldRecord(Selected(FieldsMade, Len(Fields)))
      addresses == AddressRecord(Selected(AddressesMade, Len(Reported)))
  IN  IF <<"IPAddresses", 0>> \in failed THEN fields ELSE Append(fields, addresses)

(* Once the packet is done with, the log has its record, with each field   *)
(* and address where it belongs: all of them unless memory ran short for   *)
(* just that one.  Nothing is logged when nothing is to be reported.  The  *)
(* record is that of what was read, which without a NUL in the datagram is *)
(* not always what was received.                                           *)
RecordIsRight ==
  pc \in {"free_matches", "free_node", "idle"} =>
    logged = IF Reported = <<>> \/ failed \cap {<<"print", 0>>, <<"log", 0>>} # {} THEN NoRecord
             ELSE Record

(* When a packet is done with, main_loop has freed what it allocated, and  *)
(* what remains of cJSON's is the event and its array, whole items only;   *)
(* the strings for an array that could not be made are the exception.      *)
OnlyTheEventStays ==
  pc = "idle" =>
    /\ owned = {}
    /\ LET known == UNION {Behind(json, k) : k \in {event, ip_array} \ {NULL}}
       IN  \A k \in Items : ~IsFree(json, k) =>
             Live(json, k) /\ (k \in known \/ <<"array", 0>> \in failed)
=============================================================================
