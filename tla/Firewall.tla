------------------------------ MODULE Firewall ------------------------------
(***************************************************************************)
(* How ioemnetd loads its rule file (binder_client.cpp): it connects to    *)
(* netd, then firewall_thread sends the rules one by one over binder, and  *)
(* netd (oemListener.cpp) has iptables-restore put each one in the kernel. *)
(* netd and ioemnetd may die at any moment; init restarts both, and        *)
(* ioemnetd then loads the whole file again.  The kernel's tables survive. *)
(*                                                                         *)
(* A line of the file is a record.  `words' are the table names that occur *)
(* anywhere in its text, `rule' is what it asks for (NoRule in a header),  *)
(* `chars' the length of its text, `ending' the length of its line end: 1  *)
(* for "\n", 2 for "\r\n", 0 for a last line without one.                  *)
(*                                                                         *)
(* A definition X_Y just before a definition X is X with a plausible       *)
(* mistake, Y.                                                             *)
(***************************************************************************)
EXTENDS Integers, FiniteSets, Sequences, SequencesExt

CONSTANTS
  Files,           \* the rule files: sequences of lines
  Rules, NoRule,
  FailureReply,    \* what netd answers when a rule is refused
  Refused,         \* the rules iptables-restore never accepts
  MaxFailures,     \* bound: how often it refuses another one
  MaxDeaths,       \* bound: how often netd dies
  MaxCrashes       \* bound: how often ioemnetd dies

Words   == {"mangle", "filter", "nat"}
Empty   == "(empty)"    \* the empty string
Replies == {Empty, "iptables_rules_set_successfully", FailureReply}

(* A line of the file; fgets returns none without a character.             *)
FileLine ==
  {l \in [words : SUBSET Words, rule : Rules \cup {NoRule}, delete : BOOLEAN,
          chars : Nat, ending : 0 .. 2] : l.chars + l.ending > 0}

ASSUME FilesAssumption == Files \subseteq Seq(FileLine)

ASSUME ReplyAssumption == FailureReply # Empty

ASSUME BoundsAssumption ==
  MaxFailures \in Nat /\ MaxDeaths \in Nat /\ MaxCrashes \in Nat

VARIABLES
  file,                \* the file ioemnetd is given
  netd, deaths,        \* the running instance of netd, 0 if there is none
  request, answer,     \* the rule netd is at work on; its reply to the last one
  tables,              \* the rules in the kernel, by table
  pc,                  \* the next step of ioemnetd
  mNetd, oemNetd,      \* the instances its proxies lead to; 0 for nullptr
  line, type, retryCount, reply,
  logged,              \* the lines this run of ioemnetd has logged; 0: the file
  crashes, failures,
  attempts,            \* history: how often this run has sent each line
  clean,               \* history: no call of this run has failed
  strayed,             \* history: a delete has failed although the rule was there
  complete             \* history: since the last clean load no call has failed

netdVars    == <<netd, deaths, request, answer, tables, failures>>
proxyVars   == <<mNetd, oemNetd>>
loaderVars  == <<line, type, retryCount, reply, logged>>
historyVars == <<attempts, clean, strayed, complete>>
fwVars == <<file, netdVars, pc, proxyVars, loaderVars, crashes, historyVars>>

None  == [line |-> 0]
Lines == 1 .. Len(file)

FirewallInit ==
  /\ file \in Files
  /\ netd = 1 /\ deaths = 0
  /\ request = None /\ answer = Empty
  /\ tables = [t \in Words |-> <<>>]
  /\ pc = "get_service"
  /\ mNetd = 0 /\ oemNetd = 0
  /\ line = 1 /\ type = 0 /\ retryCount = 0 /\ reply = Empty /\ logged = {}
  /\ crashes = 0 /\ failures = 0
  /\ attempts = [i \in Lines |-> 0]
  /\ clean = FALSE /\ strayed = FALSE /\ complete = FALSE

-----------------------------------------------------------------------------
(* NetdBinderInit, until it succeeds.                                      *)

(* Once it has a proxy, it never asks for another one.                     *)
GetService_OnlyOnce ==
  /\ pc = "get_service"
  /\ netd # 0 \/ mNetd # 0
  /\ mNetd' = IF mNetd = 0 THEN netd ELSE mNetd
  /\ pc' = "get_oem"
  /\ UNCHANGED <<file, netdVars, oemNetd, loaderVars, crashes, historyVars>>

(* A proxy that an earlier attempt has got stays when netd is not there.   *)
GetService ==
  /\ pc = "get_service"
  /\ netd # 0 \/ mNetd # 0
  /\ mNetd' = IF netd # 0 THEN netd ELSE mNetd
  /\ pc' = "get_oem"
  /\ UNCHANGED <<file, netdVars, oemNetd, loaderVars, crashes, historyVars>>

GetOemNetd ==
  /\ pc = "get_oem"
  /\ IF netd # 0 /\ mNetd = netd
       THEN oemNetd' = netd /\ pc' = "open"
       ELSE pc' = "get_service" /\ UNCHANGED oemNetd
  /\ UNCHANGED <<file, netdVars, mNetd, loaderVars, crashes, historyVars>>

-----------------------------------------------------------------------------
(* read_file_line.                                                         *)

Open ==
  /\ pc = "open"
  /\ pc' = "read"
  /\ line' = 1 /\ type' = 0
  /\ clean' = TRUE
  /\ UNCHANGED <<file, netdVars, proxyVars, retryCount, reply, logged, crashes,
                 attempts, strayed, complete>>

OpenFails ==
  /\ pc = "open"
  /\ pc' = "done"
  /\ logged' = {0}
  /\ UNCHANGED <<file, netdVars, proxyVars, line, type, retryCount, reply, crashes,
                 historyVars>>

(* strstr's order: mangle, filter, nat.                                    *)
TypeOf(words) ==
  IF "mangle" \in words THEN 2 ELSE IF "filter" \in words THEN 0 ELSE 1

(* The type stays what it was.                                             *)
ReadHeader_KeepsType ==
  /\ pc = "read" /\ line \in Lines
  /\ file[line].words # {}
  /\ line' = line + 1
  /\ UNCHANGED <<file, netdVars, pc, proxyVars, type, retryCount, reply, logged, crashes,
                 historyVars>>

(* Whatever line has a table's name in it counts as that table's header.   *)
ReadHeader ==
  /\ pc = "read" /\ line \in Lines
  /\ file[line].words # {}
  /\ type' = TypeOf(file[line].words)
  /\ line' = line + 1
  /\ UNCHANGED <<file, netdVars, pc, proxyVars, retryCount, reply, logged, crashes,
                 historyVars>>

(* The newline is removed (150), then one character more (153): of a line  *)
(* that ends in "\r\n" the text is left, of another it loses its end.      *)
TextLen(l) == l.chars + l.ending
Sent(l) == [rule |-> l.rule, lost |-> 2 - l.ending]

(* Lines that delete a rule are left out.                                  *)
ReadRule_SkipsDeletes ==
  /\ pc = "read" /\ line \in Lines
  /\ file[line].words = {} /\ TextLen(file[line]) > 1
  /\ pc' = IF file[line].delete THEN "read" ELSE "call"
  /\ line' = IF file[line].delete THEN line + 1 ELSE line
  /\ retryCount' = 0
  /\ UNCHANGED <<file, netdVars, proxyVars, type, reply, logged, crashes, historyVars>>

ReadRule ==
  /\ pc = "read" /\ line \in Lines
  /\ file[line].words = {} /\ TextLen(file[line]) > 1
  /\ pc' = "call"
  /\ retryCount' = 0
  /\ UNCHANGED <<file, netdVars, proxyVars, line, type, reply, logged, crashes, historyVars>>

(* Of a single character nothing is left, and memcpy is asked for a length *)
(* of -1: the process dies.                                                *)
ReadShort ==
  /\ pc = "read" /\ line \in Lines
  /\ file[line].words = {} /\ TextLen(file[line]) = 1
  /\ pc' = "dead"
  /\ UNCHANGED <<file, netdVars, proxyVars, loaderVars, crashes, historyVars>>

EndOfFile ==
  /\ pc = "read" /\ line \notin Lines
  /\ pc' = "done"
  /\ complete' = (complete \/ (clean /\ ~strayed))
  /\ UNCHANGED <<file, netdVars, proxyVars, loaderVars, crashes, attempts, clean, strayed>>

TableName(i) ==
  CASE i = 0 -> "filter" [] i = 1 -> "nat" [] OTHER -> "mangle"

(* The call blocks until netd answers; a proxy to an instance that is gone *)
(* leaves the result as it was, empty, and the status is not looked at.    *)
Call ==
  /\ pc = "call"
  /\ attempts' = [attempts EXCEPT ![line] = @ + 1]
  /\ IF netd # 0 /\ oemNetd = netd
       THEN /\ request' = [line |-> line, table |-> TableName(type),
                           sent |-> Sent(file[line]), delete |-> file[line].delete]
            /\ pc' = "wait"
            /\ UNCHANGED <<reply, clean, complete>>
       ELSE /\ reply' = Empty
            /\ pc' = "check"
            /\ clean' = FALSE /\ complete' = FALSE
            /\ UNCHANGED request
  /\ UNCHANGED <<file, netd, deaths, answer, tables, failures, proxyVars, line, type,
                 retryCount, logged, crashes, strayed>>

(* resStrC.find("ERROR"), which tells upper from lower case.               *)
SaysError(text) == text = "ERROR"

(* The limit comes before the failure is logged.                           *)
Check_StopsEarly ==
  /\ pc = "check"
  /\ LET failed == ~file[line].delete /\ SaysError(reply)
         count  == retryCount + 1
     IN  /\ logged' = IF failed /\ count = 3 THEN logged \cup {line} ELSE logged
         /\ retryCount' = IF failed THEN count + 1 ELSE retryCount
         /\ IF failed /\ count < 1
              THEN pc' = "call" /\ UNCHANGED line
              ELSE pc' = "read" /\ line' = line + 1
  /\ UNCHANGED <<file, netdVars, proxyVars, type, reply, crashes, historyVars>>

(* The answer to a rule, other than a delete: retryCount goes up once for  *)
(* the failure and once in the loop's condition.                           *)
Check ==
  /\ pc = "check"
  /\ LET failed == ~file[line].delete /\ SaysError(reply)
         count  == retryCount + 1
     IN  /\ logged' = IF failed /\ count = 3 THEN logged \cup {line} ELSE logged
         /\ retryCount' = IF failed THEN count + 1 ELSE retryCount
         /\ IF failed /\ count < 3
              THEN pc' = "call" /\ UNCHANGED line
              ELSE pc' = "read" /\ line' = line + 1
  /\ UNCHANGED <<file, netdVars, proxyVars, type, reply, crashes, historyVars>>

Loader ==
  \/ GetService \/ GetOemNetd \/ Open \/ OpenFails
  \/ ReadHeader \/ ReadRule \/ ReadShort \/ EndOfFile \/ Call \/ Check

-----------------------------------------------------------------------------
(* netd: set_iptables_rule, and the kernel.                                *)

Present(r) == r.sent \in ToSet(tables[r.table])

(* iptables-restore changes the table, or leaves it alone and fails.       *)
Applies ==
  /\ request.sent \notin Refused
  /\ request.delete => Present(request)
  /\ tables' = [tables EXCEPT ![request.table] =
                  IF request.delete THEN RemoveFirst(@, request.sent)
                                    ELSE Append(@, request.sent)]
  /\ answer' = "iptables_rules_set_successfully"
  /\ UNCHANGED <<failures, clean, strayed, complete>>

Fails ==
  /\ answer' = FailureReply
  /\ UNCHANGED tables
  /\ IF request.sent \in Refused \/ (request.delete /\ ~Present(request))
       THEN UNCHANGED failures
       ELSE failures < MaxFailures /\ failures' = failures + 1
  /\ IF request.delete /\ ~Present(request)
       THEN UNCHANGED <<clean, strayed, complete>>
       ELSE /\ clean' = FALSE /\ complete' = FALSE
            /\ strayed' = (strayed \/ request.delete)

Execute ==
  /\ netd # 0 /\ request # None /\ answer = Empty
  /\ Applies \/ Fails
  /\ UNCHANGED <<file, netd, deaths, request, pc, proxyVars, loaderVars, crashes, attempts>>

(* The reply reaches ioemnetd, if it still runs.                           *)
Answer ==
  /\ netd # 0 /\ answer # Empty
  /\ request' = None /\ answer' = Empty
  /\ IF pc = "wait" THEN pc' = "check" /\ reply' = answer
                    ELSE UNCHANGED <<pc, reply>>
  /\ UNCHANGED <<file, netd, deaths, tables, failures, proxyVars, line, type, retryCount,
                 logged, crashes, historyVars>>

-----------------------------------------------------------------------------
(* Deaths and restarts.                                                    *)

(* A caller gets an empty result; what netd was at work on is or is not in *)
(* the kernel, as Execute has or has not happened.                         *)
NetdDies ==
  /\ netd # 0 /\ deaths < MaxDeaths
  /\ netd' = 0 /\ deaths' = deaths + 1
  /\ request' = None /\ answer' = Empty
  /\ IF pc = "wait"
       THEN /\ pc' = "check" /\ reply' = Empty
            /\ clean' = FALSE /\ complete' = FALSE
       ELSE UNCHANGED <<pc, reply, clean, complete>>
  /\ UNCHANGED <<file, tables, failures, proxyVars, line, type, retryCount, logged, crashes,
                 attempts, strayed>>

NetdStarts ==
  /\ netd = 0
  /\ netd' = deaths + 1
  /\ UNCHANGED <<file, deaths, request, answer, tables, failures, pc, proxyVars, loaderVars,
                 crashes, historyVars>>

Crash ==
  /\ pc # "dead" /\ crashes < MaxCrashes
  /\ pc' = "dead" /\ crashes' = crashes + 1
  /\ UNCHANGED <<file, netdVars, proxyVars, loaderVars, historyVars>>

(* init waits 5 s before it restarts a service, and so longer than netd    *)
(* takes to end what the dead process had asked for.                       *)
Restart ==
  /\ pc = "dead" /\ request = None
  /\ pc' = "get_service"
  /\ mNetd' = 0 /\ oemNetd' = 0
  /\ line' = 1 /\ type' = 0 /\ retryCount' = 0 /\ reply' = Empty /\ logged' = {}
  /\ attempts' = [i \in Lines |-> 0]
  /\ clean' = FALSE
  /\ UNCHANGED <<file, netdVars, crashes, strayed, complete>>

FirewallNext ==
  Loader \/ Execute \/ Answer \/ NetdDies \/ NetdStarts \/ Crash \/ Restart

FirewallSpec == FirewallInit /\ [][FirewallNext]_fwVars

(* Threads run, netd works off what it is asked, init restarts what died.  *)
FirewallFairSpec ==
  /\ FirewallSpec
  /\ WF_fwVars(Loader) /\ WF_fwVars(Execute) /\ WF_fwVars(Answer)
  /\ WF_fwVars(NetdStarts) /\ WF_fwVars(Restart)

-----------------------------------------------------------------------------
(* The table a line belongs to: that of the last header before it.         *)
IsHeader(i) == file[i].rule = NoRule
IsAdd(i)    == ~IsHeader(i) /\ ~file[i].delete

TableOf(i) ==
  LET headers == {j \in 1 .. i - 1 : IsHeader(j)}
      last    == CHOOSE j \in headers : \A k \in headers : k <= j
  IN  IF headers = {} THEN "filter" ELSE CHOOSE w \in Words : w \in file[last].words

Loaded(i) == Sent(file[i]) \in ToSet(tables[TableOf(i)])

(* What the file asks for, and a table that has just that, in the file's   *)
(* order.                                                                  *)
AddsTo(t) == {i \in Lines : IsAdd(i) /\ TableOf(i) = t}
Wanted(i) == [rule |-> file[i].rule, lost |-> 0]

LoadedAsWritten(t) ==
  /\ ToSet(tables[t]) = {Wanted(i) : i \in AddsTo(t)}
  /\ \A p, q \in DOMAIN tables[t] : p < q =>
       \E i, j \in AddsTo(t) : i < j /\ tables[t][p] = Wanted(i) /\ tables[t][q] = Wanted(j)

(* The types, and the little that ties the two processes together: a call  *)
(* is pending when ioemnetd waits.                                         *)
FirewallTypeOK ==
  /\ file \in Files
  /\ netd \in 0 .. MaxDeaths + 1 /\ deaths \in 0 .. MaxDeaths
  /\ mNetd \in 0 .. MaxDeaths + 1 /\ oemNetd \in 0 .. MaxDeaths + 1
  /\ answer \in Replies /\ reply \in Replies
  /\ pc \in {"get_service", "get_oem", "open", "read", "call", "wait", "check",
             "done", "dead"}
  /\ line \in 1 .. Len(file) + 1 /\ type \in 0 .. 2 /\ retryCount \in 0 .. 4
  /\ logged \subseteq Lines \cup {0}
  /\ pc = "wait" => request # None /\ request.line = line
  /\ request = None => answer = Empty

(* A file that deletes each rule before it adds it can be loaded again and *)
(* again: whatever earlier runs of ioemnetd left behind, interrupted by a  *)
(* crash or by netd's death at any point, a run in which no call fails     *)
(* leaves in each table the file's rules, once each, in the file's order.  *)
(* (Except after a delete that failed for another reason than that the     *)
(* rule was not there: its failure is ignored, and the rule is doubled.)   *)
CleanRunLoadsFile ==
  pc = "done" /\ clean /\ ~strayed => \A t \in Words : LoadedAsWritten(t)

(* ... and never is a rule in a table twice, in the middle of a run either,*)
(* although a rule whose reply was lost may or may not have been executed. *)
NoDuplicates ==
  ~strayed => \A t \in Words : \A i, j \in DOMAIN tables[t] :
                 tables[t][i] = tables[t][j] => i = j

(* Loading the file again takes each rule away for a moment.  After a      *)
(* first clean load every crash can leave one rule missing, which the next *)
(* run puts back: no more rules are missing than there were crashes.       *)
GapBound ==
  complete => Cardinality({i \in Lines : IsAdd(i) /\ ~Loaded(i)}) <= crashes

(* "log the failed loading" (binder_client.cpp:178): a rule the loader has *)
(* left behind is in the kernel or in the log.  (A call to an instance of  *)
(* netd that is gone counts as success.)                                   *)
LoadedOrLogged ==
  deaths = 0 /\ pc \in {"read", "call", "wait", "check", "done"} =>
    \A i \in 1 .. line - 1 : IsAdd(i) => Loaded(i) \/ i \in logged

(* "On failure retry at most three times" (binder_client.cpp:158), "log    *)
(* the failed loading" (:178): a rule the loader has left behind is in the *)
(* kernel, or has been sent at least three times and is in the log.  With  *)
(* the repository's own reply a refused rule is sent once and not logged;  *)
(* whatever the reply, it is never sent a third time.                      *)
RetriedAndLogged ==
  deaths = 0 /\ pc \in {"read", "call", "wait", "check", "done"} =>
    \A i \in 1 .. line - 1 :
      IsAdd(i) => Loaded(i) \/ (attempts[i] >= 3 /\ i \in logged)

(* "Found nat type, setting type to 1" (binder_client.cpp:145), and so for *)
(* the others: it is headers that set the type, so that each rule is sent  *)
(* to the table of the header it stands under.                             *)
RuleReachesItsTable == request # None => request.table = TableOf(request.line)

(* Whatever dies, and however often a rule is refused, the loader comes to *)
(* the end of a file without empty lines.                                  *)
LoaderFinishes ==
  (\A i \in Lines : TextLen(file[i]) > 1) => <>[](pc = "done")
=============================================================================
