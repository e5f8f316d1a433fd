--------------------------- MODULE FirewallProofs ---------------------------
(***************************************************************************)
(* Proofs about Firewall: for any rule files, any replies of netd, any     *)
(* refused rules and any number of deaths, crashes and failures, each run  *)
(* of the loader sends a rule at most twice; and what the kernel's tables  *)
(* hold when a file is loaded again and again.                             *)
(*                                                                         *)
(* AtMostTwice is not inductive: that the second failure is the last one   *)
(* follows from the value retryCount has then.  RetryInv relates it to the *)
(* number of attempts, at each step of the loop.                           *)
(*                                                                         *)
(* The second part is about files that delete each rule just before they   *)
(* add it (Reloadable).  ReloadInv says what makes that work: a rule about *)
(* to be added is not in its table (Absences); what a clean run has added  *)
(* stands behind what earlier runs have left, and in order (Settled); and  *)
(* the loader is at one rule at a time, so that a crash can leave no other *)
(* missing (Gaps).                                                         *)
(***************************************************************************)
EXTENDS Firewall, FiniteSetTheorems, WellFoundedInduction, TLAPS

(* The two increments of retryCount add up to two attempts: a rule is sent *)
(* at most twice, a delete once, and a rule is logged after the second.    *)
AtMostTwice ==
  \A i \in Lines :
    /\ attempts[i] <= (IF file[i].delete THEN 1 ELSE 2)
    /\ i \in logged => attempts[i] = 2

RetryInv ==
  /\ attempts \in [Lines -> Nat]
  /\ \A i \in Lines : i > line => attempts[i] = 0
  /\ \A i \in Lines : i \in logged => i < line
  /\ pc \in {"get_service", "get_oem", "open"} =>
       line = 1 /\ logged = {} /\ \A i \in Lines : attempts[i] = 0
  /\ pc = "read" /\ line \in Lines => attempts[line] = 0
  /\ pc \in {"call", "wait", "check"} =>
       /\ line \in Lines /\ retryCount \in {0, 2}
       /\ retryCount = 2 => ~file[line].delete
       /\ 2 * attempts[line] = retryCount + (IF pc = "call" THEN 0 ELSE 2)

(* Without the word "ERROR" in it a failure goes unheard: no rule is       *)
(* logged, and none is sent again.                                         *)
NeverHeard == \A i \in Lines : i \notin logged /\ attempts[i] <= 1

UnheardInv ==
  ~SaysError(FailureReply) =>
    /\ NeverHeard
    /\ ~SaysError(answer) /\ ~SaysError(reply)
    /\ pc = "call" => retryCount = 0

FirewallInv == FirewallTypeOK /\ AtMostTwice /\ RetryInv /\ UnheardInv

(* The length of the file is a number.                                     *)
LEMMA FileLength == ASSUME file \in Files PROVE Len(file) \in Nat
BY FilesAssumption

(* A fresh process has sent nothing.                                       *)
LEMMA FirewallInitInv == FirewallInit => FirewallInv
<1> SUFFICES ASSUME FirewallInit PROVE FirewallInv OBVIOUS
<1> USE DEF FirewallInit, Lines, None, Empty
<1>1. Len(file) \in Nat
  BY FileLength
<1>2. FirewallTypeOK
  <2>1. /\ netd \in 0 .. MaxDeaths + 1 /\ deaths \in 0 .. MaxDeaths
        /\ mNetd \in 0 .. MaxDeaths + 1 /\ oemNetd \in 0 .. MaxDeaths + 1
    BY BoundsAssumption
  <2>2. line \in 1 .. Len(file) + 1 /\ type \in 0 .. 2 /\ retryCount \in 0 .. 4
    BY <1>1
  <2> QED BY <2>1, <2>2 DEF FirewallTypeOK, Replies
<1>3. AtMostTwice
  BY DEF AtMostTwice
<1>4. RetryInv
  BY DEF RetryInv
<1>5. UnheardInv
  BY DEF UnheardInv, NeverHeard, SaysError
<1> QED BY <1>2, <1>3, <1>4, <1>5 DEF FirewallInv

(* Every step of either process keeps the types.                           *)
LEMMA FirewallTypeStep ==
  ASSUME FirewallInv, [FirewallNext]_fwVars PROVE FirewallTypeOK'
<1>1. Len(file) \in Nat
  BY FileLength DEF FirewallInv, FirewallTypeOK
<1> USE <1>1, BoundsAssumption DEF FirewallInv, FirewallTypeOK, Replies, Empty, None, Lines
<1>2. CASE GetService
  BY <1>2 DEF GetService, netdVars, loaderVars
<1>3. CASE GetOemNetd
  BY <1>3 DEF GetOemNetd, netdVars, loaderVars
<1>4. CASE Open
  BY <1>4 DEF Open, netdVars, proxyVars
<1>5. CASE OpenFails
  BY <1>5 DEF OpenFails, netdVars, proxyVars
<1>6. CASE ReadHeader
  <2>1. TypeOf(file[line].words) \in 0 .. 2
    BY DEF TypeOf
  <2> QED BY <1>6, <2>1 DEF ReadHeader, netdVars, proxyVars
<1>7. CASE ReadRule
  BY <1>7 DEF ReadRule, netdVars, proxyVars
<1>8. CASE ReadShort
  BY <1>8 DEF ReadShort, netdVars, proxyVars, loaderVars
<1>9. CASE EndOfFile
  BY <1>9 DEF EndOfFile, netdVars, proxyVars, loaderVars
<1>10. CASE Call
  <2>1. line \in Lines
    BY <1>10 DEF Call, RetryInv
  <2>2. CASE netd # 0 /\ oemNetd = netd
    BY <1>10, <2>1, <2>2 DEF Call, proxyVars
  <2>3. CASE ~(netd # 0 /\ oemNetd = netd)
    BY <1>10, <2>3 DEF Call, proxyVars
  <2> QED BY <2>2, <2>3
<1>11. CASE Check
  <2>1. line \in Lines /\ retryCount \in {0, 2}
    BY <1>11 DEF Check, RetryInv
  <2> QED BY <1>11, <2>1 DEF Check, netdVars, proxyVars
<1>12. CASE Execute
  BY <1>12 DEF Execute, Applies, Fails, proxyVars, loaderVars
<1>13. CASE Answer
  BY <1>13 DEF Answer, proxyVars
<1>14. CASE NetdDies
  BY <1>14 DEF NetdDies, proxyVars
<1>15. CASE NetdStarts
  BY <1>15 DEF NetdStarts, proxyVars, loaderVars
<1>16. CASE Crash
  BY <1>16 DEF Crash, netdVars, proxyVars, loaderVars
<1>17. CASE Restart
  BY <1>17 DEF Restart, netdVars
<1>18. CASE UNCHANGED fwVars
  BY <1>18 DEF fwVars, netdVars, proxyVars, loaderVars
<1> QED
  BY <1>2, <1>3, <1>4, <1>5, <1>6, <1>7, <1>8, <1>9, <1>10, <1>11, <1>12, <1>13,
     <1>14, <1>15, <1>16, <1>17, <1>18 DEF FirewallNext, Loader

(* Only Call, Check and Restart touch what AtMostTwice and RetryInv speak  *)
(* of in the middle of a file; a crash leaves the counts as they are.      *)
LEMMA FirewallRetryStep ==
  ASSUME FirewallInv, [FirewallNext]_fwVars PROVE (AtMostTwice /\ RetryInv)'
<1>1. Len(file) \in Nat /\ line \in 1 .. Len(file) + 1
  BY FileLength DEF FirewallInv, FirewallTypeOK
<1> USE <1>1 DEF FirewallInv, AtMostTwice, RetryInv, Lines
<1>2. CASE GetService
  BY <1>2 DEF GetService, netdVars, loaderVars, historyVars
<1>3. CASE GetOemNetd
  BY <1>3 DEF GetOemNetd, netdVars, loaderVars, historyVars
<1>4. CASE Open
  BY <1>4 DEF Open, netdVars, proxyVars
<1>5. CASE OpenFails
  BY <1>5 DEF OpenFails, netdVars, proxyVars, historyVars
<1>6. CASE ReadHeader
  BY <1>6 DEF ReadHeader, netdVars, proxyVars, historyVars
<1>7. CASE ReadRule
  BY <1>7 DEF ReadRule, netdVars, proxyVars, historyVars
<1>8. CASE ReadShort
  BY <1>8 DEF ReadShort, netdVars, proxyVars, loaderVars, historyVars
<1>9. CASE EndOfFile
  BY <1>9 DEF EndOfFile, netdVars, proxyVars, loaderVars
<1>10. CASE Call
  <2>1. /\ attempts' = [attempts EXCEPT ![line] = @ + 1] /\ pc' \in {"wait", "check"}
        /\ UNCHANGED <<file, line, retryCount, logged>>
    BY <1>10 DEF Call, proxyVars
  <2>2. /\ line \in Lines /\ retryCount \in {0, 2}
        /\ retryCount = 2 => ~file[line].delete
        /\ 2 * attempts[line] = retryCount
    BY <1>10 DEF Call
  <2>3. attempts'[line] = attempts[line] + 1
        /\ \A i \in Lines : i # line => attempts'[i] = attempts[i]
    BY <2>1, <2>2
  <2>4. AtMostTwice'
    BY <2>1, <2>2, <2>3
  <2>5. RetryInv'
    BY <2>1, <2>2, <2>3, SMTT(40)
  <2> QED BY <2>4, <2>5
<1>11. CASE Check
  <2>1. /\ line \in Lines /\ retryCount \in {0, 2}
        /\ retryCount = 2 => ~file[line].delete
        /\ 2 * attempts[line] = retryCount + 2
    BY <1>11 DEF Check
  <2>2. UNCHANGED <<file, attempts>>
    BY <1>11 DEF Check, historyVars
  <2>3. CASE ~file[line].delete /\ SaysError(reply) /\ retryCount = 0
    <3>1. logged' = logged /\ retryCount' = 2 /\ pc' = "call" /\ line' = line
      BY <1>11, <2>3 DEF Check
    <3> QED BY <2>1, <2>2, <2>3, <3>1
  <2>4. CASE ~file[line].delete /\ SaysError(reply) /\ retryCount = 2
    <3>1. logged' = logged \cup {line} /\ pc' = "read" /\ line' = line + 1
      BY <1>11, <2>4 DEF Check
    <3> QED BY <2>1, <2>2, <2>4, <3>1
  <2>5. CASE ~(~file[line].delete /\ SaysError(reply))
    <3>1. logged' = logged /\ pc' = "read" /\ line' = line + 1
      BY <1>11, <2>5 DEF Check
    <3> QED BY <2>1, <2>2, <3>1
  <2> QED BY <2>1, <2>3, <2>4, <2>5
<1>12. CASE Execute
  BY <1>12 DEF Execute, Applies, Fails, proxyVars, loaderVars
<1>13. CASE Answer
  BY <1>13 DEF Answer, proxyVars, historyVars
<1>14. CASE NetdDies
  BY <1>14 DEF NetdDies, proxyVars
<1>15. CASE NetdStarts
  BY <1>15 DEF NetdStarts, proxyVars, loaderVars, historyVars
<1>16. CASE Crash
  BY <1>16 DEF Crash, netdVars, proxyVars, loaderVars, historyVars
<1>17. CASE Restart
  BY <1>17 DEF Restart, netdVars
<1>18. CASE UNCHANGED fwVars
  BY <1>18 DEF fwVars, netdVars, proxyVars, loaderVars, historyVars
<1> QED
  BY <1>2, <1>3, <1>4, <1>5, <1>6, <1>7, <1>8, <1>9, <1>10, <1>11, <1>12, <1>13,
     <1>14, <1>15, <1>16, <1>17, <1>18 DEF FirewallNext, Loader

(* netd's replies are the success, the failure, and the empty one.         *)
LEMMA FirewallUnheardStep ==
  ASSUME FirewallInv, [FirewallNext]_fwVars, ~SaysError(FailureReply) PROVE UnheardInv'
<1>0. /\ NeverHeard /\ ~SaysError(answer) /\ ~SaysError(reply)
      /\ pc = "call" => retryCount = 0
  BY DEF FirewallInv, UnheardInv
<1>1. /\ attempts \in [Lines -> Nat]
      /\ pc = "call" => line \in Lines /\ 2 * attempts[line] = retryCount
      /\ line \in Nat /\ Len(file) \in Nat
  BY FileLength DEF FirewallInv, RetryInv, FirewallTypeOK
<1>2. ~SaysError(Empty) /\ ~SaysError("iptables_rules_set_successfully")
  BY DEF SaysError, Empty
<1> USE <1>0, <1>1, <1>2 DEF UnheardInv, NeverHeard, Lines
<1>3. CASE GetService \/ GetOemNetd
  BY <1>3 DEF GetService, GetOemNetd, netdVars, loaderVars, historyVars
<1>4. CASE Open \/ OpenFails
  BY <1>4 DEF Open, OpenFails, netdVars, historyVars
<1>5. CASE ReadHeader \/ ReadRule
  BY <1>5 DEF ReadHeader, ReadRule, netdVars, historyVars
<1>6. CASE ReadShort \/ EndOfFile
  BY <1>6 DEF ReadShort, EndOfFile, netdVars, loaderVars, historyVars
<1>7. CASE Call
  <2>1. /\ attempts' = [attempts EXCEPT ![line] = @ + 1] /\ pc' \in {"wait", "check"}
        /\ UNCHANGED <<file, logged, answer>> /\ reply' \in {reply, Empty}
    BY <1>7 DEF Call
  <2>2. attempts[line] = 0 BY <1>7 DEF Call
  <2> QED BY <2>1, <2>2
<1>8. CASE Check
  BY <1>8 DEF Check, netdVars, historyVars
<1>9. CASE Execute
  BY <1>9 DEF Execute, Applies, Fails, loaderVars
<1>10. CASE Answer
  BY <1>10 DEF Answer, historyVars
<1>11. CASE NetdDies
  BY <1>11 DEF NetdDies
<1>12. CASE NetdStarts \/ Crash
  BY <1>12 DEF NetdStarts, Crash, netdVars, loaderVars, historyVars
<1>13. CASE Restart
  BY <1>13 DEF Restart, netdVars
<1>14. CASE UNCHANGED fwVars
  BY <1>14 DEF fwVars, netdVars, loaderVars, historyVars
<1> QED BY <1>3, <1>4, <1>5, <1>6, <1>7, <1>8, <1>9, <1>10, <1>11, <1>12, <1>13, <1>14
  DEF FirewallNext, Loader

(* What the loader does about failures is inductive too.                   *)
LEMMA FirewallInvStep == ASSUME FirewallInv, [FirewallNext]_fwVars PROVE FirewallInv'
<1>1. CASE SaysError(FailureReply)
  BY <1>1, FirewallTypeStep, FirewallRetryStep DEF FirewallInv, UnheardInv
<1>2. CASE ~SaysError(FailureReply)
  BY <1>2, FirewallTypeStep, FirewallRetryStep, FirewallUnheardStep DEF FirewallInv
<1> QED BY <1>1, <1>2

(* The inductive invariant of both processes.                              *)
THEOREM FirewallInvariance == FirewallSpec => []FirewallInv
<1>1. FirewallInv /\ [FirewallNext]_fwVars => FirewallInv'
  BY FirewallInvStep
<1> QED BY FirewallInitInv, <1>1, PTL DEF FirewallSpec

(* Every variable keeps its type, and a call is pending whenever the       *)
(* loader waits for one.                                                   *)
THEOREM FirewallTypeCorrect == FirewallSpec => []FirewallTypeOK
<1>1. FirewallInv => FirewallTypeOK
  BY DEF FirewallInv
<1> QED BY FirewallInvariance, <1>1, PTL

(* A rule is sent at most twice and a delete once, and a rule is logged    *)
(* only after its second failure.                                          *)
THEOREM AttemptsCorrect == FirewallSpec => []AtMostTwice
<1>1. FirewallInv => AtMostTwice
  BY DEF FirewallInv
<1> QED BY FirewallInvariance, <1>1, PTL

-----------------------------------------------------------------------------
(* Loading the file again and again.                                       *)

IsDelete(i) == ~IsHeader(i) /\ file[i].delete

(* A file made to be loaded again: a header names one table, rules name    *)
(* none and end in "\r\n", each rule is deleted just before it is added,   *)
(* and no rule is added twice to a table.  It may end with an empty line.  *)
Reloadable ==
  \A i \in Lines :
    /\ IsHeader(i) => \/ \E w \in Words : file[i].words = {w}
                      \/ i = Len(file) /\ file[i].words = {} /\ TextLen(file[i]) = 1
    /\ ~IsHeader(i) => file[i].words = {} /\ file[i].ending = 2
    /\ IsDelete(i) => i < Len(file) /\ IsAdd(i + 1) /\ Sent(file[i]) = Sent(file[i + 1])
    /\ IsAdd(i) => i > 1 /\ IsDelete(i - 1)
    /\ IsAdd(i) => \A j \in Lines :
         IsAdd(j) /\ TableOf(i) = TableOf(j) /\ Sent(file[i]) = Sent(file[j]) => i = j

Success   == "iptables_rules_set_successfully"
Loading   == {"read", "call", "wait", "check"}
Connected == netd # 0 /\ oemNetd = netd

(* netd's instances have growing numbers: a proxy that has lost its        *)
(* instance never leads to one again.                                      *)
Instances ==
  /\ crashes \in Nat
  /\ netd \in {0, deaths + 1} /\ (deaths = 0 => netd = 1)
  /\ mNetd <= deaths + 1 /\ oemNetd <= deaths + 1
  /\ netd = 0 => mNetd <= deaths /\ oemNetd <= deaths
  /\ deaths = 0 /\ pc \in Loading \cup {"open"} => Connected

(* The request is for a rule of the file, in the rule's own table; while   *)
(* ioemnetd runs, it is the rule of its line.                              *)
Request(i) == [line |-> i, table |-> TableOf(i), sent |-> Sent(file[i]), delete |-> file[i].delete]

Requests ==
  /\ request # None => \E i \in Lines : ~IsHeader(i) /\ request = Request(i)
  /\ pc = "wait" => request = Request(line) /\ Connected
  /\ pc \notin {"wait", "dead"} => request = None
  /\ pc \in {"call", "wait", "check"} => line \in Lines /\ ~IsHeader(line)
  /\ pc \in Loading => TableName(type) = TableOf(line)

(* The tables have nothing but rules that the file adds to them.           *)
Contents ==
  /\ tables \in [Words -> Seq({Sent(file[i]) : i \in Lines})]
  /\ \A t \in Words : \A p \in DOMAIN tables[t] :
       \E i \in AddsTo(t) : tables[t][p] = Sent(file[i])
  /\ NoDuplicates

(* What is known of the call in progress: netd's reply.                    *)
Outcome == IF pc = "wait" THEN answer ELSE IF pc = "check" THEN reply ELSE Empty

(* A rule about to be added is not in its table: its delete has been       *)
(* executed since it was last added.                                       *)
Absent(i) == Sent(file[i]) \notin ToSet(tables[TableOf(i)])

Absences ==
  ~strayed =>
    /\ Connected /\ pc \in Loading /\ line \in Lines =>
         /\ IsAdd(line) /\ Outcome # Success => Absent(line)
         /\ IsDelete(line) /\ Outcome # Empty => Absent(line)
    /\ request # None /\ answer = Empty /\ ~request.delete => Absent(request.line)

(* What a reply says of the rule.                                          *)
Outcomes ==
  /\ pc = "check" /\ (clean \/ complete \/ Connected \/ deaths = 0) => reply # Empty
  /\ pc \in {"wait", "check"} /\ IsAdd(line) /\ Outcome # Empty =>
       /\ Outcome # FailureReply \/ clean \/ complete => Loaded(line)
       /\ clean \/ complete => Outcome = Success

(* A clean run so far: the rules it has added are there, in order, behind  *)
(* those of earlier runs.                                                  *)
Added(i) == i < line \/ (i = line /\ Outcome # Empty)

InOrder(t) ==
  \A i, j \in AddsTo(t) : \A p, q \in DOMAIN tables[t] :
    /\ p < q /\ Added(i)
    /\ tables[t][p] = Sent(file[i]) /\ tables[t][q] = Sent(file[j])
    => Added(j) /\ i < j

Tidy ==
  /\ \A i \in Lines : IsAdd(i) /\ Added(i) => Loaded(i)
  /\ \A t \in Words : InOrder(t)

Settled ==
  /\ pc \in {"get_service", "get_oem", "open"} => ~clean
  /\ pc = "done" /\ clean => line \notin Lines
  /\ clean /\ ~strayed /\ pc \in Loading \cup {"done"} => Tidy

(* The rules that are missing, and the one that may be for the moment.     *)
Missing  == {i \in Lines : IsAdd(i) /\ ~Loaded(i)}
GapOf(i) == IF IsDelete(i) THEN {i + 1} ELSE IF IsAdd(i) THEN {i} ELSE {}
Gap      == IF pc \in Loading /\ line \in Lines THEN GapOf(line) ELSE {}
Pending  == IF request # None THEN GapOf(request.line) ELSE {}

(* A run that is not done has come after a crash, and still has its one    *)
(* rule to miss.                                                           *)
Gone    == IF pc = "dead" THEN Missing \cup Pending ELSE Missing \ Gap
Allowed == IF pc = "done" THEN crashes ELSE crashes - 1

Gaps == complete => ~strayed /\ Cardinality(Gone) <= Allowed

LoadInv ==
  /\ Requests /\ Contents /\ Absences /\ Outcomes /\ Settled /\ Gaps
  /\ FailureReply = "ERROR" => LoadedOrLogged

ReloadInv == FirewallInv /\ Instances /\ (Reloadable => LoadInv)

-----------------------------------------------------------------------------
(* The file.                                                               *)

(* The file stays as it is, and what is said of its lines.                 *)
LEMMA FileSame ==
  ASSUME file' = file
  PROVE  /\ Lines' = Lines
         /\ \A i : /\ IsHeader(i)' = IsHeader(i) /\ IsAdd(i)' = IsAdd(i)
                   /\ IsDelete(i)' = IsDelete(i) /\ TableOf(i)' = TableOf(i)
         /\ \A t : AddsTo(t)' = AddsTo(t)
<1>1. Lines' = Lines
  BY DEF Lines
<1>2. \A i : IsHeader(i)' = IsHeader(i)
  BY DEF IsHeader
<1>3. \A i : IsAdd(i)' = IsAdd(i) /\ IsDelete(i)' = IsDelete(i)
  BY DEF IsHeader, IsAdd, IsDelete
<1>4. \A i : TableOf(i)' = TableOf(i)
  BY DEF TableOf, IsHeader
<1>5. \A t : AddsTo(t)' = AddsTo(t)
  BY <1>1, <1>3, <1>4 DEF AddsTo
<1> QED BY <1>1, <1>2, <1>3, <1>4, <1>5

LEMMA LineType ==
  ASSUME file \in Files, NEW i \in Lines
  PROVE  /\ Len(file) \in Nat /\ i \in Nat /\ file[i].words \subseteq Words
         /\ file[i].chars \in Nat /\ file[i].ending \in 0 .. 2 /\ file[i].delete \in BOOLEAN
<1>1. file \in Seq(FileLine) /\ Len(file) \in Nat
  BY FilesAssumption
<1>2. file[i] \in FileLine
  BY <1>1 DEF Lines
<1> QED BY <1>1, <1>2 DEF FileLine, Lines

(* Every non-empty set of naturals has a least element.                    *)
LEMMA Least ==
  ASSUME NEW T \in SUBSET Nat, T # {}
  PROVE  \E m \in T : \A y \in T : m <= y
<1>1. IsWellFoundedOn(OpToRel(<, Nat), Nat)
  BY NatLessThanWellFounded
<1>2. PICK m \in T : \A y \in T : ~(<<y, m>> \in OpToRel(<, Nat))
  BY <1>1, WFMin
<1>3. \A y \in T : ~(y < m)
  BY <1>2 DEF OpToRel
<1> QED BY <1>3

(* Every line belongs to a table.                                          *)
LEMMA TableOfType ==
  ASSUME file \in Files, Reloadable, NEW i \in Lines
  PROVE  TableOf(i) \in Words
<1> DEFINE headers == {j \in 1 .. i - 1 : IsHeader(j)}
           last    == CHOOSE j \in headers : \A k \in headers : k <= j
<1>1. i \in Nat /\ Len(file) \in Nat /\ i <= Len(file)
  BY LineType DEF Lines
<1>2. CASE headers = {}
  BY <1>2 DEF TableOf, Words
<1>3. CASE headers # {}
  <2> DEFINE T == {i - j : j \in headers}
  <2>1. T \in SUBSET Nat /\ T # {}
    BY <1>1, <1>3
  <2>2. PICK m \in T : \A y \in T : m <= y
    <3> HIDE DEF T
    <3> QED BY <2>1, Least
  <2>3. PICK j \in headers : m = i - j
    BY <2>2
  <2>4. \A k \in headers : k <= j
    <3> SUFFICES ASSUME NEW k \in headers PROVE k <= j OBVIOUS
    <3>1. i - k \in T /\ k \in Int /\ j \in Int
      BY <1>1
    <3>2. i - j <= i - k
      BY <2>2, <2>3, <3>1
    <3> QED BY <1>1, <3>1, <3>2
  <2>5. last \in headers
    <3> HIDE DEF headers
    <3> QED BY <2>3, <2>4
  <2>6. last \in Lines /\ last # Len(file) /\ IsHeader(last)
    <3> HIDE DEF last
    <3> QED BY <1>1, <2>5 DEF Lines
  <2>7. TableOf(i) = CHOOSE w \in Words : w \in file[last].words
    BY <1>3 DEF TableOf
  <2> HIDE DEF last, headers
  <2>8. \E w \in Words : file[last].words = {w}
    BY <2>6 DEF Reloadable
  <2> QED BY <2>7, <2>8
<1> QED BY <1>2, <1>3

(* The table of the next line: another one if this line is a header.       *)
LEMMA NextTable ==
  ASSUME file \in Files, NEW i \in Lines
  PROVE  /\ ~IsHeader(i) => TableOf(i + 1) = TableOf(i)
         /\ \A w \in Words : IsHeader(i) /\ file[i].words = {w} => TableOf(i + 1) = w
<1>1. i \in Nat /\ i > 0
  BY LineType DEF Lines
<1>2. ASSUME ~IsHeader(i) PROVE TableOf(i + 1) = TableOf(i)
  <2> DEFINE Of(headers) ==
               LET last == CHOOSE j \in headers : \A k \in headers : k <= j
               IN  IF headers = {} THEN "filter" ELSE CHOOSE w \in Words : w \in file[last].words
  <2>1. {j \in 1 .. (i + 1) - 1 : IsHeader(j)} = {j \in 1 .. i - 1 : IsHeader(j)}
    BY <1>1, <1>2
  <2>2. /\ TableOf(i) = Of({j \in 1 .. i - 1 : IsHeader(j)})
        /\ TableOf(i + 1) = Of({j \in 1 .. (i + 1) - 1 : IsHeader(j)})
    BY DEF TableOf
  <2> HIDE DEF Of
  <2> QED BY <2>1, <2>2
<1>3. ASSUME NEW w \in Words, IsHeader(i), file[i].words = {w} PROVE TableOf(i + 1) = w
  <2> DEFINE headers == {j \in 1 .. (i + 1) - 1 : IsHeader(j)}
             last    == CHOOSE j \in headers : \A k \in headers : k <= j
  <2>1. i \in headers /\ \A k \in headers : k <= i /\ k \in Nat
    BY <1>1, <1>3
  <2>2. TableOf(i + 1) = IF headers = {} THEN "filter" ELSE CHOOSE v \in Words : v \in file[last].words
    BY DEF TableOf
  <2> HIDE DEF headers
  <2>3. last = i
    <3>1. last \in headers /\ \A k \in headers : k <= last
      BY <2>1
    <3> HIDE DEF last
    <3>2. i <= last /\ last <= i /\ last \in Nat
      BY <2>1, <3>1
    <3> QED BY <1>1, <3>2
  <2> QED BY <1>3, <2>1, <2>2, <2>3
<1> QED BY <1>2, <1>3

-----------------------------------------------------------------------------
(* A sequence that loses an element.                                       *)
LEMMA RemoveFirstIs ==
  ASSUME NEW S, NEW s \in Seq(S), NEW e, e \in ToSet(s)
  PROVE  /\ RemoveFirst(s, e) \in Seq(S)
         /\ Len(RemoveFirst(s, e)) = Len(s) - 1
         /\ \E k \in 1 .. Len(s) :
              /\ s[k] = e
              /\ \A p \in 1 .. Len(s) - 1 :
                   RemoveFirst(s, e)[p] = IF p < k THEN s[p] ELSE s[p + 1]
<1> DEFINE I == {i \in 1 .. Len(s) : s[i] = e}
           k == Min(I)
<1>1. Len(s) \in Nat
  OBVIOUS
<1>2. I # {}
  BY DEF ToSet
<1>3. k \in I
  <2>1. PICK m \in I : \A y \in I : m <= y
    <3>1. I \in SUBSET Nat OBVIOUS
    <3> HIDE DEF I
    <3> QED BY <1>2, <3>1, Least
  <2> HIDE DEF I
  <2> QED BY <2>1 DEF Min
<1>4. RemoveFirst(s, e) = SubSeq(s, 1, k - 1) \o SubSeq(s, k + 1, Len(s))
  BY <1>2 DEF RemoveFirst, RemoveAt, SelectInSeq
<1>5. k \in 1 .. Len(s) /\ s[k] = e
  BY <1>3
<1> HIDE DEF k, I
<1> DEFINE a == SubSeq(s, 1, k - 1)
           b == SubSeq(s, k + 1, Len(s))
<1>6. a \in Seq(S) /\ Len(a) = k - 1 /\ \A p \in 1 .. k - 1 : a[p] = s[p]
  BY <1>1, <1>5
<1>7. b \in Seq(S) /\ Len(b) = Len(s) - k /\ \A p \in 1 .. Len(s) - k : b[p] = s[p + k]
  BY <1>1, <1>5
<1> HIDE DEF a, b
<1>8. a \o b \in Seq(S) /\ Len(a \o b) = Len(s) - 1
  <2>1. a \o b \in Seq(S) /\ Len(a \o b) = Len(a) + Len(b)
    BY <1>6, <1>7, SMTT(30)
  <2> QED BY <1>1, <1>5, <1>6, <1>7, <2>1
<1>9. \A p \in 1 .. Len(s) - 1 : (a \o b)[p] = IF p < k THEN s[p] ELSE s[p + 1]
  <2> TAKE p \in 1 .. Len(s) - 1
  <2>1. CASE p < k
    BY <1>1, <1>5, <1>6, <1>7, <2>1
  <2>2. CASE ~ p < k
    <3>1. p \in 1 .. Len(a) + Len(b) /\ ~ p <= Len(a) /\ p - Len(a) \in 1 .. Len(s) - k
      BY <1>1, <1>5, <1>6, <1>7, <2>2
    <3>2. (a \o b)[p] = b[p - Len(a)]
      BY <1>6, <1>7, <3>1
    <3>3. b[p - Len(a)] = s[p - Len(a) + k] /\ p - Len(a) + k = p + 1
      BY <1>1, <1>5, <1>6, <1>7, <3>1
    <3> QED BY <2>2, <3>2, <3>3
  <2> QED BY <2>1, <2>2
<1> QED BY <1>4, <1>5, <1>8, <1>9 DEF a, b

(* What the others keep: their presence and their order.                   *)
LEMMA RemoveFirstKeeps ==
  ASSUME NEW S, NEW s \in Seq(S), NEW e, e \in ToSet(s)
  PROVE  /\ RemoveFirst(s, e) \in Seq(S)
         /\ \A x \in ToSet(s) : x # e => x \in ToSet(RemoveFirst(s, e))
         /\ \A p \in DOMAIN RemoveFirst(s, e) : \E u \in DOMAIN s : RemoveFirst(s, e)[p] = s[u]
         /\ \A p, q \in DOMAIN RemoveFirst(s, e) : p < q =>
              \E u, v \in DOMAIN s :
                u < v /\ RemoveFirst(s, e)[p] = s[u] /\ RemoveFirst(s, e)[q] = s[v]
         /\ (\A u, v \in DOMAIN s : s[u] = s[v] => u = v) =>
              /\ e \notin ToSet(RemoveFirst(s, e))
              /\ \A p, q \in DOMAIN RemoveFirst(s, e) :
                   RemoveFirst(s, e)[p] = RemoveFirst(s, e)[q] => p = q
<1> DEFINE r == RemoveFirst(s, e)
           from(k, p) == IF p < k THEN p ELSE p + 1
<1>1. PICK k \in 1 .. Len(s) :
        s[k] = e /\ \A p \in 1 .. Len(s) - 1 : r[p] = IF p < k THEN s[p] ELSE s[p + 1]
  BY RemoveFirstIs
<1>2. r \in Seq(S) /\ Len(r) = Len(s) - 1
  BY RemoveFirstIs
<1> HIDE DEF r
<1>3. /\ Len(s) \in Nat /\ DOMAIN s = 1 .. Len(s) /\ DOMAIN r = 1 .. Len(s) - 1
  BY <1>2
<1>4. \A p \in DOMAIN r : from(k, p) \in DOMAIN s /\ from(k, p) # k /\ r[p] = s[from(k, p)]
  BY <1>1, <1>3
<1>5. \A p, q \in DOMAIN r : p < q => from(k, p) < from(k, q)
  BY <1>3
<1>6. \A x \in ToSet(s) : x # e => x \in ToSet(r)
  <2> TAKE x \in ToSet(s)
  <2> HAVE x # e
  <2>1. PICK u \in 1 .. Len(s) : s[u] = x
    BY <1>3 DEF ToSet
  <2>2. u # k
    BY <1>1, <2>1
  <2>3. CASE u < k
    <3>1. u \in 1 .. Len(s) - 1 /\ r[u] = s[u]
      BY <1>1, <1>3, <2>1, <2>3
    <3> QED BY <1>3, <2>1, <3>1 DEF ToSet
  <2>4. CASE u > k
    <3>1. u - 1 \in 1 .. Len(s) - 1 /\ ~ u - 1 < k /\ (u - 1) + 1 = u
      BY <1>3, <2>1, <2>4
    <3>2. r[u - 1] = s[u]
      BY <1>1, <3>1
    <3> QED BY <1>3, <2>1, <3>1, <3>2 DEF ToSet
  <2> QED BY <2>1, <2>2, <2>3, <2>4
<1>7. \A p \in DOMAIN r : \E u \in DOMAIN s : r[p] = s[u]
  BY <1>4
<1>8. \A p, q \in DOMAIN r : p < q => \E u, v \in DOMAIN s : u < v /\ r[p] = s[u] /\ r[q] = s[v]
  BY <1>4, <1>5
<1>9. ASSUME \A u, v \in DOMAIN s : s[u] = s[v] => u = v
      PROVE  e \notin ToSet(r) /\ \A p, q \in DOMAIN r : r[p] = r[q] => p = q
  <2>1. e \notin ToSet(r)
    <3> SUFFICES ASSUME NEW p \in DOMAIN r, r[p] = e PROVE FALSE
      BY DEF ToSet
    <3> QED BY <1>1, <1>3, <1>4, <1>9
  <2>2. ASSUME NEW p \in DOMAIN r, NEW q \in DOMAIN r, r[p] = r[q] PROVE p = q
    <3>1. from(k, p) = from(k, q)
      BY <1>4, <1>9, <2>2
    <3> QED BY <1>3, <3>1
  <2> QED BY <2>1, <2>2
<1> QED BY <1>2, <1>6, <1>7, <1>8, <1>9 DEF r

-----------------------------------------------------------------------------
(* The steps.                                                              *)
LEMMA ReloadInitInv == FirewallInit => ReloadInv
<1> SUFFICES ASSUME FirewallInit PROVE ReloadInv OBVIOUS
<1>1. FirewallInv
  BY FirewallInitInv
<1> USE DEF FirewallInit, Empty
<1>2. Instances
  BY DEF Instances, Loading
<1>3. Requests
  BY DEF Requests, Loading, None
<1>4. Contents
  <2>1. \A t \in Words : tables[t] = <<>> /\ DOMAIN tables[t] = {}
    OBVIOUS
  <2>2. tables \in [Words -> Seq({Sent(file[i]) : i \in Lines})]
    OBVIOUS
  <2> QED BY <2>1, <2>2 DEF Contents, NoDuplicates
<1>5. Absences /\ Outcomes /\ Settled /\ Gaps /\ LoadedOrLogged
  BY DEF Absences, Outcomes, Outcome, Settled, Gaps, LoadedOrLogged, Loading, Empty, None
<1> QED BY <1>1, <1>2, <1>3, <1>4, <1>5 DEF ReloadInv, LoadInv

LEMMA FileKept == ASSUME [FirewallNext]_fwVars PROVE file' = file
BY DEF FirewallNext, Loader, GetService, GetOemNetd, Open, OpenFails, ReadHeader, ReadRule, ReadShort,
       EndOfFile, Call, Check, Execute, Answer, NetdDies, NetdStarts, Crash, Restart, fwVars

LEMMA InstancesStep == ASSUME FirewallInv, Instances, [FirewallNext]_fwVars PROVE Instances'
<1> USE BoundsAssumption DEF FirewallInv, FirewallTypeOK, Instances, Loading, Connected
<1>1. CASE GetService
  BY <1>1 DEF GetService, netdVars, loaderVars, historyVars
<1>2. CASE GetOemNetd
  BY <1>2 DEF GetOemNetd, netdVars, loaderVars, historyVars
<1>3. CASE Open \/ OpenFails
  BY <1>3 DEF Open, OpenFails, netdVars, proxyVars
<1>4. CASE ReadHeader \/ ReadRule
  BY <1>4 DEF ReadHeader, ReadRule, netdVars, proxyVars
<1>5. CASE ReadShort \/ EndOfFile
  BY <1>5 DEF ReadShort, EndOfFile, netdVars, proxyVars
<1>6. CASE Call
  BY <1>6 DEF Call, proxyVars, None
<1>7. CASE Check
  BY <1>7 DEF Check, netdVars, proxyVars
<1>8. CASE Execute
  BY <1>8 DEF Execute, proxyVars
<1>9. CASE Answer
  BY <1>9 DEF Answer, proxyVars
<1>10. CASE NetdDies
  BY <1>10 DEF NetdDies, proxyVars
<1>11. CASE NetdStarts
  BY <1>11 DEF NetdStarts, proxyVars
<1>12. CASE Crash
  BY <1>12 DEF Crash, netdVars, proxyVars
<1>13. CASE Restart
  BY <1>13 DEF Restart, netdVars
<1>14. CASE UNCHANGED fwVars
  BY <1>14 DEF fwVars, netdVars, proxyVars
<1> QED
  BY <1>1, <1>2, <1>3, <1>4, <1>5, <1>6, <1>7, <1>8, <1>9, <1>10, <1>11, <1>12, <1>13, <1>14
  DEF FirewallNext, Loader

(* What the proofs of the other steps start from.                          *)
LEMMA LineFacts ==
  ASSUME FirewallInv, Reloadable, NEW i \in Lines
  PROVE  /\ i \in Nat /\ Len(file) \in Nat /\ TableOf(i) \in Words
         /\ file[i].delete \in BOOLEAN
         /\ ~IsHeader(i) => (IsAdd(i) /\ ~IsDelete(i)) \/ (IsDelete(i) /\ ~IsAdd(i))
         /\ IsHeader(i) => ~IsAdd(i) /\ ~IsDelete(i)
         /\ ~IsHeader(i) => Request(i).delete = IsDelete(i)
         /\ IsDelete(i) => /\ i + 1 \in Lines /\ IsAdd(i + 1)
                           /\ TableOf(i + 1) = TableOf(i) /\ Sent(file[i]) = Sent(file[i + 1])
<1>1. file \in Files
  BY DEF FirewallInv, FirewallTypeOK
<1>2. i \in Nat /\ Len(file) \in Nat /\ file[i].delete \in BOOLEAN /\ TableOf(i) \in Words
  BY <1>1, LineType, TableOfType
<1>3. IsDelete(i) => /\ i + 1 \in Lines /\ IsAdd(i + 1) /\ Sent(file[i]) = Sent(file[i + 1])
  BY <1>2 DEF Reloadable, Lines
<1>4. IsDelete(i) => TableOf(i + 1) = TableOf(i)
  BY <1>1, NextTable DEF IsDelete
<1> QED BY <1>2, <1>3, <1>4 DEF IsAdd, IsDelete, Request

(* A request is one for the line it names.                                 *)
LEMMA RequestIs ==
  ASSUME FirewallInv, Reloadable, Requests, request # None
  PROVE  /\ request.line \in Lines /\ ~IsHeader(request.line)
         /\ request = Request(request.line) /\ request.table = TableOf(request.line)
         /\ request.table \in Words /\ request.sent = Sent(file[request.line])
         /\ request.delete = IsDelete(request.line)
         /\ pc = "wait" => request.line = line
<1>1. PICK i \in Lines : ~IsHeader(i) /\ request = Request(i)
  BY DEF Requests
<1>2. request.line = i /\ request.table = TableOf(i) /\ request.sent = Sent(file[i])
  BY <1>1 DEF Request
<1> QED BY <1>1, <1>2, LineFacts DEF Requests, Request

(* The requests: ReadHeader follows the table of the lines.                *)
LEMMA RequestsStep ==
  ASSUME FirewallInv, Instances, Reloadable, Requests, [FirewallNext]_fwVars
  PROVE  Requests'
<1>1. file' = file /\ file \in Files /\ Len(file) \in Nat
  BY FileKept, FileLength DEF FirewallInv, FirewallTypeOK
<1>2. /\ Lines' = Lines
      /\ \A i : TableOf(i)' = TableOf(i) /\ IsHeader(i)' = IsHeader(i)
  BY <1>1, FileSame
<1>3. \A i : Request(i)' = Request(i)
  BY <1>1, <1>2 DEF Request
<1> USE <1>1, <1>2, <1>3 DEF Requests, Loading, Connected
<1>4. CASE GetService \/ GetOemNetd
  BY <1>4 DEF GetService, GetOemNetd, netdVars, loaderVars
<1>5. CASE Open
  <2>1. TableName(0) = TableOf(1)
    BY DEF TableName, TableOf
  <2> QED BY <1>5, <2>1 DEF Open, netdVars, proxyVars
<1>6. CASE OpenFails
  BY <1>6 DEF OpenFails, netdVars, proxyVars
<1>7. CASE ReadHeader
  <2>1. line \in Lines /\ file[line].words # {} /\ line' = line + 1
        /\ type' = TypeOf(file[line].words) /\ UNCHANGED <<pc, request, netd, oemNetd>>
    BY <1>7 DEF ReadHeader, netdVars, proxyVars
  <2>2. PICK w \in Words : file[line].words = {w} /\ IsHeader(line)
    BY <2>1 DEF Reloadable
  <2>3. TableOf(line') = w
    BY <2>1, <2>2, NextTable
  <2>4. TableName(type') = w
    BY <2>1, <2>2 DEF TableName, TypeOf, Words
  <2> QED BY <1>7, <2>1, <2>3, <2>4 DEF ReadHeader
<1>8. CASE ReadRule
  <2>1. line \in Lines /\ file[line].words = {} /\ TextLen(file[line]) > 1
    BY <1>8 DEF ReadRule
  <2>2. ~IsHeader(line)
    <3> SUFFICES ASSUME IsHeader(line) PROVE FALSE OBVIOUS
    <3>1. TextLen(file[line]) = 1
      BY <2>1 DEF Reloadable
    <3> QED BY <2>1, <3>1
  <2> QED BY <1>8, <2>1, <2>2 DEF ReadRule, netdVars, proxyVars
<1>9. CASE ReadShort \/ EndOfFile
  BY <1>9 DEF ReadShort, EndOfFile, netdVars, proxyVars, loaderVars
<1>10. CASE Call
  BY <1>10 DEF Call, proxyVars, Request
<1>11. CASE Check
  <2>1. /\ pc = "check" /\ line \in Lines /\ ~IsHeader(line) /\ request = None
        /\ TableName(type) = TableOf(line) /\ UNCHANGED <<request, type, netd, oemNetd>>
        /\ (pc' = "call" /\ line' = line) \/ (pc' = "read" /\ line' = line + 1)
    BY <1>11 DEF Check, netdVars, proxyVars
  <2>2. TableOf(line + 1) = TableOf(line)
    BY <2>1, NextTable
  <2> QED BY <2>1, <2>2
<1>12. CASE Execute
  BY <1>12 DEF Execute, proxyVars, loaderVars
<1>13. CASE Answer
  BY <1>13 DEF Answer, proxyVars
<1>14. CASE NetdDies
  BY <1>14 DEF NetdDies, proxyVars
<1>15. CASE NetdStarts
  BY <1>15 DEF NetdStarts, proxyVars, loaderVars, Instances
<1>16. CASE Crash
  BY <1>16 DEF Crash, netdVars, proxyVars, loaderVars
<1>17. CASE Restart
  BY <1>17 DEF Restart, netdVars
<1>18. CASE UNCHANGED fwVars
  BY <1>18 DEF fwVars, netdVars, proxyVars, loaderVars
<1> QED
  BY <1>4, <1>5, <1>6, <1>7, <1>8, <1>9, <1>10, <1>11, <1>12, <1>13, <1>14, <1>15, <1>16, <1>17, <1>18
  DEF FirewallNext, Loader

(* What netd does to the tables: nothing, or it puts a rule behind the     *)
(* others of its table, or takes it away.                                  *)
LEMMA TablesStep ==
  ASSUME FirewallInv, Reloadable, Requests, Contents, [FirewallNext]_fwVars
  PROVE  \/ tables' = tables /\ ~(Execute /\ Applies)
         \/ /\ Execute /\ Applies
            /\ request # None /\ answer = Empty /\ answer' = Success
            /\ tables' = [tables EXCEPT ![TableOf(request.line)] =
                            IF IsDelete(request.line) THEN RemoveFirst(@, Sent(file[request.line]))
                                                      ELSE Append(@, Sent(file[request.line]))]
            /\ IsDelete(request.line) => ~Absent(request.line)
            /\ UNCHANGED <<file, netd, deaths, request, pc, proxyVars, loaderVars, crashes,
                           failures, clean, strayed, complete>>
<1>1. CASE Execute /\ Applies
  <2>1. request # None
    BY <1>1 DEF Execute
  <2>2. /\ request.table = TableOf(request.line) /\ request.sent = Sent(file[request.line])
        /\ request.delete = IsDelete(request.line)
    BY <2>1, RequestIs
  <2> QED BY <1>1, <2>1, <2>2 DEF Execute, Applies, Present, Absent, Success
<1>2. CASE Execute /\ Fails /\ ~(Execute /\ Applies)
  BY <1>2 DEF Fails
<1>3. CASE ~Execute
  BY <1>3 DEF FirewallNext, Loader, GetService, GetOemNetd, Open, OpenFails, ReadHeader, ReadRule,
              ReadShort, EndOfFile, Call, Check, Answer, NetdDies, NetdStarts, Crash,
              Restart, fwVars, netdVars
<1> QED BY <1>1, <1>2, <1>3 DEF Execute

(* An execution, as the rules of the file see it.                          *)
LEMMA Executes ==
  ASSUME FirewallInv, Reloadable, Requests, Contents, [FirewallNext]_fwVars, Execute, Applies,
         NEW n, n = request.line
  PROVE  /\ n \in Lines /\ TableOf(n) \in Words /\ ~IsHeader(n)
         /\ tables' \in [Words -> Seq({Sent(file[i]) : i \in Lines})]
         /\ \A t \in Words : t # TableOf(n) => tables'[t] = tables[t]
         /\ IsAdd(n) => tables'[TableOf(n)] = Append(tables[TableOf(n)], Sent(file[n]))
         /\ IsDelete(n) => /\ tables'[TableOf(n)] = RemoveFirst(tables[TableOf(n)], Sent(file[n]))
                           /\ Sent(file[n]) \in ToSet(tables[TableOf(n)])
         /\ IsAdd(n) => Loaded(n)'
         /\ \A i \in Lines : IsAdd(i) /\ Loaded(i) => Loaded(i)' \/ (IsDelete(n) /\ i = n + 1)
         /\ IsDelete(n) /\ NoDuplicates /\ ~strayed => Absent(n)'
<1> DEFINE M == {Sent(file[i]) : i \in Lines}
           a == TableOf(n)
           e == Sent(file[n])
<1>1. /\ file' = file /\ Lines' = Lines
      /\ \A i : TableOf(i)' = TableOf(i) /\ IsAdd(i)' = IsAdd(i)
  BY FileKept, FileSame
<1>2. /\ request # None /\ n \in Lines /\ ~IsHeader(n) /\ a \in Words /\ e \in M
      /\ IsDelete(n) => ~IsAdd(n)
      /\ ~IsDelete(n) => IsAdd(n)
  BY TablesStep, RequestIs, LineFacts
<1>3. /\ tables \in [Words -> Seq(M)]
      /\ tables' = [tables EXCEPT ![a] = IF IsDelete(n) THEN RemoveFirst(tables[a], e)
                                                        ELSE Append(tables[a], e)]
      /\ IsDelete(n) => e \in ToSet(tables[a])
  BY <1>2, TablesStep DEF Contents, Absent
<1> HIDE DEF M, a, e
<1>4. /\ tables[a] \in Seq(M)
      /\ \A t \in Words : t # a => tables'[t] = tables[t]
      /\ ~IsDelete(n) => tables'[a] = Append(tables[a], e)
      /\ IsDelete(n) => tables'[a] = RemoveFirst(tables[a], e)
  BY <1>2, <1>3
<1>5. /\ IsDelete(n) => RemoveFirst(tables[a], e) \in Seq(M)
      /\ ~IsDelete(n) => Append(tables[a], e) \in Seq(M)
  BY <1>2, <1>3, <1>4, RemoveFirstKeeps
<1>6. tables' \in [Words -> Seq(M)]
  <2>1. CASE IsDelete(n)
    BY <1>2, <1>3, <1>5, <2>1
  <2>2. CASE ~IsDelete(n)
    BY <1>2, <1>3, <1>5, <2>2
  <2> QED BY <2>1, <2>2
<1>7. ASSUME ~IsDelete(n)
      PROVE  e \in ToSet(tables'[a]) /\ \A x \in ToSet(tables[a]) : x \in ToSet(tables'[a])
  BY <1>2, <1>4, <1>7 DEF ToSet
<1>8. ASSUME IsDelete(n)
      PROVE  \A x \in ToSet(tables[a]) : x # e => x \in ToSet(tables'[a])
  BY <1>3, <1>4, <1>8, RemoveFirstKeeps
<1>9. IsAdd(n) => Loaded(n)'
  BY <1>1, <1>2, <1>7 DEF Loaded, a, e
<1>10. ASSUME NEW i \in Lines, IsAdd(i), Loaded(i), ~Loaded(i)'
       PROVE  IsDelete(n) /\ i = n + 1
  <2>1. TableOf(i) \in Words /\ TableOf(i)' = TableOf(i)
    BY <1>1, LineFacts
  <2>2. Sent(file[i]) \in ToSet(tables[TableOf(i)]) /\ Sent(file[i]) \notin ToSet(tables'[TableOf(i)])
    BY <1>1, <1>10, <2>1 DEF Loaded
  <2>3. TableOf(i) = a
    BY <1>4, <2>1, <2>2
  <2>4. IsDelete(n) /\ Sent(file[i]) = e
    BY <1>7, <1>8, <2>2, <2>3
  <2>5. n + 1 \in Lines /\ IsAdd(n + 1) /\ TableOf(n + 1) = a /\ Sent(file[n + 1]) = e
    BY <1>2, <2>4, LineFacts DEF a, e
  <2> QED BY <1>10, <2>3, <2>4, <2>5 DEF Reloadable
<1>11. IsDelete(n) /\ NoDuplicates /\ ~strayed => Absent(n)'
  <2> SUFFICES ASSUME IsDelete(n), NoDuplicates, ~strayed PROVE Absent(n)'
    OBVIOUS
  <2>1. \A u, v \in DOMAIN tables[a] : tables[a][u] = tables[a][v] => u = v
    BY <1>2 DEF NoDuplicates
  <2>2. e \notin ToSet(tables'[a])
    BY <1>3, <1>4, <2>1, RemoveFirstKeeps
  <2> QED BY <1>1, <2>2 DEF Absent, a, e
<1> QED BY <1>2, <1>3, <1>4, <1>6, <1>9, <1>10, <1>11 DEF M, a, e

LEMMA ContentsStep ==
  ASSUME FirewallInv, Reloadable, Requests, Contents, Absences, [FirewallNext]_fwVars
  PROVE  Contents'
<1> DEFINE M == {Sent(file[i]) : i \in Lines}
           n == request.line
           a == TableOf(n)
           e == Sent(file[n])
<1>1. /\ file' = file /\ Lines' = Lines /\ \A t : AddsTo(t)' = AddsTo(t)
  BY FileKept, FileSame
<1>2. strayed => strayed'
  BY DEF FirewallNext, Loader, GetService, GetOemNetd, Open, OpenFails, ReadHeader, ReadRule, ReadShort,
         EndOfFile, Call, Check, Execute, Applies, Fails, Answer, NetdDies, NetdStarts, Crash, Restart,
         fwVars, historyVars
<1>3. CASE tables' = tables
  BY <1>1, <1>2, <1>3 DEF Contents, NoDuplicates
<1>4. CASE tables' # tables
  <2>1. Execute /\ Applies /\ request # None /\ answer = Empty /\ UNCHANGED strayed
    BY <1>4, TablesStep
  <2>2. /\ n \in Lines /\ a \in Words /\ ~IsHeader(n)
        /\ tables' \in [Words -> Seq(M)]
        /\ \A t \in Words : t # a => tables'[t] = tables[t]
        /\ IsAdd(n) => tables'[a] = Append(tables[a], e)
        /\ IsDelete(n) => tables'[a] = RemoveFirst(tables[a], e) /\ e \in ToSet(tables[a])
    BY <2>1, Executes
  <2>3. IsAdd(n) \/ IsDelete(n)
    BY <2>2, LineFacts
  <2>4. IsAdd(n) /\ ~strayed => e \notin ToSet(tables[a])
    BY <2>1, <2>2, RequestIs, LineFacts DEF Absences, Absent
  <2>5. IsAdd(n) => n \in AddsTo(a)
    BY <2>2 DEF AddsTo
  <2>6. tables \in [Words -> Seq(M)]
    BY DEF Contents
  <2> HIDE DEF M, n, a, e
  <2>7. tables[a] \in Seq(M) /\ (IsAdd(n) => e \in M)
    BY <2>2, <2>6 DEF M, e
  <2>8. \A p \in DOMAIN tables'[a] : \E i \in AddsTo(a) : tables'[a][p] = Sent(file[i])
    <3> TAKE p \in DOMAIN tables'[a]
    <3>1. \A u \in DOMAIN tables[a] : \E i \in AddsTo(a) : tables[a][u] = Sent(file[i])
      BY <2>2 DEF Contents
    <3>2. CASE IsAdd(n)
      <4>1. (p \in DOMAIN tables[a] /\ tables'[a][p] = tables[a][p]) \/ tables'[a][p] = e
        BY <2>2, <2>7, <3>2
      <4> QED BY <2>5, <3>1, <3>2, <4>1 DEF e
    <3>3. CASE IsDelete(n)
      <4>1. \E u \in DOMAIN tables[a] : tables'[a][p] = tables[a][u]
        BY <2>2, <2>7, <3>3, RemoveFirstKeeps
      <4> QED BY <3>1, <4>1
    <3> QED BY <2>3, <3>2, <3>3
  <2>9. ASSUME ~strayed
        PROVE  \A p, q \in DOMAIN tables'[a] : tables'[a][p] = tables'[a][q] => p = q
    <3>1. \A u, v \in DOMAIN tables[a] : tables[a][u] = tables[a][v] => u = v
      BY <2>2, <2>9 DEF Contents, NoDuplicates
    <3>2. CASE IsAdd(n)
      <4>1. \A u \in DOMAIN tables[a] : tables[a][u] # e
        BY <2>4, <2>9, <3>2 DEF ToSet
      <4> QED BY <2>2, <2>7, <3>1, <3>2, <4>1
    <3>3. CASE IsDelete(n)
      BY <2>2, <2>7, <3>1, <3>3, RemoveFirstKeeps
    <3> QED BY <2>3, <3>2, <3>3
  <2>10. (tables \in [Words -> Seq({Sent(file[i]) : i \in Lines})])'
    BY <1>1, <2>2 DEF M
  <2>11. (\A t \in Words : \A p \in DOMAIN tables[t] : \E i \in AddsTo(t) : tables[t][p] = Sent(file[i]))'
    <3>1. ASSUME NEW t \in Words, NEW p \in DOMAIN tables'[t]
          PROVE  \E i \in AddsTo(t) : tables'[t][p] = Sent(file[i])
      <4>1. CASE t = a
        BY <2>8, <3>1, <4>1
      <4>2. CASE t # a
        BY <2>2, <3>1, <4>2 DEF Contents
      <4> QED BY <4>1, <4>2
    <3> QED BY <1>1, <3>1
  <2>12. NoDuplicates'
    <3>1. ASSUME ~strayed, NEW t \in Words
          PROVE  \A p, q \in DOMAIN tables'[t] : tables'[t][p] = tables'[t][q] => p = q
      <4>1. CASE t = a
        BY <2>9, <3>1, <4>1
      <4>2. CASE t # a
        BY <2>2, <3>1, <4>2 DEF Contents, NoDuplicates
      <4> QED BY <4>1, <4>2
    <3> QED BY <2>1, <3>1 DEF NoDuplicates
  <2> QED BY <2>10, <2>11, <2>12 DEF Contents
<1> QED BY <1>3, <1>4

LEMMA AbsencesStep ==
  ASSUME FirewallInv, Instances, Reloadable, Requests, Contents, Absences, Outcomes,
         [FirewallNext]_fwVars
  PROVE  Absences'
<1>1. /\ file' = file /\ Lines' = Lines
      /\ \A i : /\ TableOf(i)' = TableOf(i) /\ IsAdd(i)' = IsAdd(i) /\ IsDelete(i)' = IsDelete(i)
  BY FileKept, FileSame
<1>2. tables' = tables => \A i : Absent(i)' = Absent(i)
  BY <1>1 DEF Absent
<1>3. request = None => answer = Empty
  BY DEF FirewallInv, FirewallTypeOK
<1>4. \A i \in Lines : IsAdd(i) => i - 1 \in Lines /\ IsDelete(i - 1)
  BY LineFacts DEF Reloadable, Lines
<1>5. \A i \in Lines : IsDelete(i) => ~IsAdd(i) /\ ~IsHeader(i)
  BY DEF IsAdd, IsDelete
<1> USE <1>1 DEF Absences
<1>6. CASE pc' \notin Loading /\ request' = None
  BY <1>6
<1>7. CASE GetService \/ GetOemNetd
  BY <1>6, <1>7 DEF GetService, GetOemNetd, Requests, netdVars, Loading
<1>8. CASE Open
  <2>1. line' = 1 /\ pc' = "read" /\ request' = None
    BY <1>8 DEF Open, netdVars, Requests
  <2>2. 1 \in Lines => ~IsAdd(1)
    BY <1>4 DEF Lines
  <2> QED BY <2>1, <2>2 DEF Outcome
<1>9. CASE OpenFails \/ ReadShort \/ EndOfFile
  BY <1>6, <1>9 DEF OpenFails, ReadShort, EndOfFile, Requests, netdVars, Loading
<1>10. CASE ReadHeader
  <2>1. line' = line + 1 /\ pc' = "read" /\ request' = None /\ line \in Lines /\ file[line].words # {}
    BY <1>10 DEF ReadHeader, netdVars, Requests
  <2>2. IsHeader(line) /\ line \in Nat
    BY <2>1, LineFacts DEF Reloadable
  <2>3. line + 1 \in Lines => ~IsAdd(line + 1)
    BY <1>4, <1>5, <2>1, <2>2
  <2> QED BY <2>1, <2>3 DEF Outcome
<1>11. CASE ReadRule
  <2>1. /\ pc = "read" /\ pc' = "call" /\ request' = None
        /\ UNCHANGED <<line, netd, oemNetd, tables, strayed>>
    BY <1>11 DEF ReadRule, netdVars, proxyVars, historyVars, Requests
  <2> QED BY <1>2, <2>1 DEF Outcome, Connected, Loading, Success, Empty
<1>12. CASE Call
  <2>1. /\ pc = "call" /\ line \in Lines /\ ~IsHeader(line)
        /\ UNCHANGED <<line, netd, oemNetd, tables, strayed, answer>> /\ answer = Empty
    BY <1>3, <1>12 DEF Call, Requests, proxyVars
  <2>2. CASE Connected
    <3>1. /\ pc' = "wait" /\ request'.line = line /\ request'.delete = file[line].delete
      BY <1>12, <2>2 DEF Call, Connected
    <3>2. /\ IsAdd(line) /\ ~strayed => Absent(line)
          /\ ~file[line].delete => IsAdd(line)
      BY <2>1, <2>2 DEF Outcome, Loading, Success, Empty, IsAdd
    <3> QED BY <1>2, <2>1, <3>1, <3>2 DEF Outcome
  <2>3. CASE ~Connected
    <3>1. pc' = "check" /\ request' = request /\ request = None
      BY <1>12, <2>3 DEF Call, Connected, Requests
    <3> QED BY <2>1, <2>3, <3>1 DEF Connected
  <2> QED BY <2>2, <2>3
<1>13. CASE Check
  <2>1. /\ pc = "check" /\ request' = None /\ line \in Lines /\ ~IsHeader(line)
        /\ UNCHANGED <<netd, oemNetd, tables, strayed>>
    BY <1>13 DEF Check, Requests, netdVars, proxyVars, historyVars
  <2>2. CASE pc' = "call"
    <3>1. line' = line /\ ~file[line].delete /\ reply = "ERROR"
      BY <1>13, <2>2 DEF Check, SaysError
    <3>2. Outcome # Success /\ IsAdd(line) /\ ~IsDelete(line)
      BY <2>1, <3>1 DEF Outcome, Success, IsAdd, IsDelete
    <3> QED BY <1>2, <2>1, <2>2, <3>1, <3>2 DEF Connected, Loading
  <2>3. CASE pc' = "read"
    <3>1. line' = line + 1
      BY <1>13, <2>3 DEF Check
    <3>2. SUFFICES ASSUME ~strayed, Connected, line + 1 \in Lines, IsAdd(line + 1)
                   PROVE  Absent(line + 1)
      BY <1>2, <2>1, <2>3, <3>1 DEF Connected, Outcome
    <3>3. line \in Nat /\ IsDelete(line)
      BY <1>4, <2>1, <3>2, LineFacts
    <3>4. Outcome # Empty
      BY <2>1, <3>2 DEF Outcomes, Outcome
    <3>5. Absent(line)
      BY <2>1, <3>2, <3>3, <3>4 DEF Loading
    <3> QED BY <2>1, <3>3, <3>5, LineFacts DEF Absent
  <2> QED BY <1>13, <2>2, <2>3 DEF Check
<1>14. CASE Execute /\ Applies
  <2>1. /\ request # None /\ answer' = Success /\ request' = request /\ pc' = pc
        /\ UNCHANGED <<line, strayed>>
    BY <1>14, TablesStep DEF loaderVars
  <2>2. IsDelete(request.line) /\ ~strayed => Absent(request.line)'
    <3>1. NoDuplicates
      BY DEF Contents
    <3>2. PICK n : n = request.line
      OBVIOUS
    <3>3. IsDelete(n) /\ ~strayed => Absent(n)'
      BY <1>14, <3>1, <3>2, Executes
    <3> QED BY <2>1, <3>2, <3>3
  <2>3. pc \in Loading => pc = "wait" /\ request.line = line
    BY <2>1, RequestIs DEF Requests, Loading
  <2> QED BY <2>1, <2>2, <2>3 DEF Outcome, Success, Empty
<1>15. CASE Execute /\ Fails
  <2>1. /\ request # None /\ answer' = FailureReply /\ request' = request /\ pc' = pc /\ answer = Empty
        /\ UNCHANGED <<line, tables, netd, oemNetd>>
    BY <1>15 DEF Execute, Fails, loaderVars, proxyVars
  <2>2. FailureReply # Empty
    BY ReplyAssumption
  <2>3. ~strayed' => ~strayed /\ (request.delete => ~Present(request))
    BY <1>15 DEF Fails
  <2>4. /\ request.line \in Lines /\ ~IsHeader(request.line)
        /\ request.delete = IsDelete(request.line)
        /\ ~Present(request) => Absent(request.line)
        /\ pc \in Loading => pc = "wait" /\ request.line = line
    BY <2>1, RequestIs DEF Requests, Loading, Present, Absent
  <2>5. /\ ~strayed' /\ request.delete => Absent(request.line)
        /\ ~strayed' /\ ~request.delete => Absent(request.line)
    BY <2>1, <2>3, <2>4
  <2> QED BY <1>2, <2>1, <2>2, <2>4, <2>5
<1>16. CASE Answer
  <2>1. /\ request' = None /\ request # None /\ answer # Empty
        /\ UNCHANGED <<line, tables, netd, oemNetd, strayed>>
    BY <1>3, <1>16 DEF Answer, loaderVars, proxyVars, historyVars
  <2>2. CASE pc = "wait"
    <3>1. pc' = "check" /\ Outcome' = Outcome
      BY <1>16, <2>2 DEF Answer, Outcome
    <3> QED BY <1>2, <2>1, <2>2, <3>1 DEF Connected, Loading
  <2>3. CASE pc # "wait"
    BY <1>6, <1>16, <2>1, <2>3 DEF Answer, Requests, Loading
  <2> QED BY <2>2, <2>3
<1>17. CASE NetdDies
  BY <1>17 DEF NetdDies, Connected
<1>18. CASE NetdStarts
  <2>1. ~Connected' /\ UNCHANGED <<request, answer, tables, strayed>>
    BY <1>18 DEF NetdStarts, Connected, Instances, proxyVars, historyVars, FirewallInv, FirewallTypeOK
  <2> QED BY <1>2, <2>1
<1>19. CASE Crash
  BY <1>2, <1>19 DEF Crash, netdVars, historyVars, Loading
<1>20. CASE Restart
  BY <1>6, <1>20 DEF Restart, netdVars, Loading
<1>21. CASE UNCHANGED fwVars
  <2>1. UNCHANGED <<pc, request, answer, reply, line, tables, netd, oemNetd, strayed>>
    BY <1>21 DEF fwVars, netdVars, proxyVars, loaderVars, historyVars
  <2> QED BY <1>2, <2>1 DEF Connected, Outcome
<1> QED
  BY <1>7, <1>8, <1>9, <1>10, <1>11, <1>12, <1>13, <1>14, <1>15, <1>16, <1>17, <1>18, <1>19, <1>20, <1>21
  DEF FirewallNext, Loader, Execute

LEMMA OutcomesStep ==
  ASSUME FirewallInv, Instances, Reloadable, Requests, Contents, Outcomes, [FirewallNext]_fwVars
  PROVE  Outcomes'
<1>1. /\ file' = file
      /\ \A i : TableOf(i)' = TableOf(i) /\ IsAdd(i)' = IsAdd(i)
  BY FileKept, FileSame
<1>2. tables' = tables => \A i : Loaded(i)' = Loaded(i)
  BY <1>1 DEF Loaded
<1>3. request = None => answer = Empty
  BY DEF FirewallInv, FirewallTypeOK
<1> USE <1>1 DEF Outcomes
<1>4. CASE pc' \notin {"wait", "check"}
  BY <1>4
<1>5. CASE Call
  <2>1. /\ pc = "call" /\ answer' = Empty /\ UNCHANGED <<netd, oemNetd, deaths>>
    BY <1>3, <1>5 DEF Call, Requests, proxyVars
  <2>2. CASE Connected
    BY <1>5, <2>1, <2>2 DEF Call, Connected, Outcome
  <2>3. CASE ~Connected
    <3>1. pc' = "check" /\ reply' = Empty /\ ~clean' /\ ~complete'
      BY <1>5, <2>3 DEF Call, Connected
    <3>2. ~Connected' /\ deaths' # 0
      BY <2>1, <2>3 DEF Connected, Instances, Loading
    <3> QED BY <3>1, <3>2 DEF Outcome
  <2> QED BY <2>2, <2>3
<1>6. CASE Execute /\ Applies /\ pc = "wait"
  <2>1. /\ pc' = "wait" /\ line' = line /\ answer' = Success /\ line = request.line
    BY <1>6, TablesStep, RequestIs DEF loaderVars
  <2>2. IsAdd(line) => Loaded(line)'
    <3>1. PICK n : n = request.line
      OBVIOUS
    <3>2. IsAdd(n) => Loaded(n)'
      BY <1>6, <3>1, Executes
    <3> QED BY <2>1, <3>1, <3>2
  <2> QED BY <2>1, <2>2 DEF Outcome
<1>7. CASE Execute /\ Fails /\ pc = "wait"
  <2>1. /\ pc' = "wait" /\ line' = line /\ answer' = FailureReply /\ request # None
    BY <1>7 DEF Execute, Fails, loaderVars
  <2>2. line = request.line /\ request.delete = IsDelete(line)
    BY <1>7, <2>1, RequestIs
  <2>3. IsAdd(line) => ~clean' /\ ~complete'
    BY <1>7, <2>2 DEF Fails, IsAdd, IsDelete
  <2> QED BY <2>1, <2>3 DEF Outcome
<1>8. CASE Answer /\ pc = "wait"
  <2>1. pc' = "check" /\ Outcome' = Outcome /\ reply' # Empty
        /\ UNCHANGED <<line, tables, clean, complete>>
    BY <1>8 DEF Answer, Outcome, loaderVars, historyVars
  <2> QED BY <1>2, <1>8, <2>1
<1>9. CASE Answer /\ pc # "wait"
  <2>1. pc' \notin {"wait", "check"}
    BY <1>3, <1>9 DEF Answer, Requests
  <2> QED BY <2>1
<1>10. CASE NetdDies
  <2>1. netd' = 0 /\ deaths' # 0 /\ UNCHANGED <<line, tables>>
    BY <1>10 DEF NetdDies, FirewallInv, FirewallTypeOK
  <2>2. CASE pc = "wait"
    <3>1. pc' = "check" /\ reply' = Empty /\ ~clean' /\ ~complete'
      BY <1>10, <2>2 DEF NetdDies
    <3> QED BY <2>1, <3>1 DEF Connected, Outcome
  <2>3. CASE pc # "wait"
    <3>1. UNCHANGED <<pc, reply, clean, complete>>
      BY <1>10, <2>3 DEF NetdDies
    <3> QED BY <1>2, <2>1, <2>3, <3>1 DEF Connected, Outcome
  <2> QED BY <2>2, <2>3
<1>11. CASE NetdStarts
  <2>1. /\ ~Connected' /\ deaths' # 0
        /\ UNCHANGED <<pc, answer, reply, line, tables, clean, complete>>
    BY <1>11 DEF NetdStarts, Connected, Instances, proxyVars, loaderVars, historyVars, FirewallInv,
                 FirewallTypeOK
  <2> QED BY <1>2, <2>1 DEF Outcome
<1>12. CASE UNCHANGED fwVars
  <2>1. UNCHANGED <<pc, answer, reply, line, tables, netd, oemNetd, deaths, clean, complete>>
    BY <1>12 DEF fwVars, netdVars, proxyVars, loaderVars, historyVars
  <2> QED BY <1>2, <2>1 DEF Connected, Outcome
<1>13. Execute => pc' = pc
  BY DEF Execute
<1>14. GetService \/ GetOemNetd \/ Open \/ OpenFails \/ ReadHeader \/ ReadRule \/ ReadShort
       \/ EndOfFile \/ Check \/ Crash \/ Restart => pc' \notin {"wait", "check"}
  BY DEF GetService, GetOemNetd, Open, OpenFails, ReadHeader, ReadRule, ReadShort,
         EndOfFile, Check, Crash, Restart
<1>15. Execute /\ pc # "wait" => pc \notin {"wait", "check"}
  BY DEF Execute, Requests
<1> QED
  BY <1>4, <1>5, <1>6, <1>7, <1>8, <1>9, <1>10, <1>11, <1>12, <1>13, <1>14, <1>15
  DEF FirewallNext, Loader, Execute

(* The second refusal is logged; a delete takes away a rule not yet passed.*)
LEMMA LoggedStep ==
  ASSUME FirewallInv, Instances, Reloadable, Requests, Contents, Outcomes, LoadedOrLogged,
         FailureReply = "ERROR", [FirewallNext]_fwVars
  PROVE  LoadedOrLogged'
<1>1. /\ file' = file /\ Lines' = Lines /\ Len(file) \in Nat /\ line \in 1 .. Len(file) + 1
      /\ \A i : TableOf(i)' = TableOf(i) /\ IsAdd(i)' = IsAdd(i)
  BY FileKept, FileSame, FileLength DEF FirewallInv, FirewallTypeOK
<1>2. tables' = tables => \A i : Loaded(i)' = Loaded(i)
  BY <1>1 DEF Loaded
<1> USE <1>1 DEF LoadedOrLogged
<1>3. CASE GetService \/ GetOemNetd \/ ReadShort \/ Crash \/ Restart
  BY <1>3 DEF GetService, GetOemNetd, ReadShort, Crash, Restart
<1>4. CASE Open \/ OpenFails
  <2>1. line' = 1
    BY <1>4 DEF Open, OpenFails, FirewallInv, RetryInv
  <2> QED BY <2>1
<1>5. CASE ReadHeader
  <2>1. /\ line' = line + 1 /\ line \in Lines /\ file[line].words # {} /\ pc = "read"
        /\ UNCHANGED <<pc, tables, logged, deaths>>
    BY <1>5 DEF ReadHeader, netdVars
  <2>2. ~IsAdd(line)
    BY <2>1 DEF Reloadable, IsAdd
  <2>3. \A i \in 1 .. line' - 1 : i \in 1 .. line - 1 \/ i = line
    BY <2>1
  <2> QED BY <1>2, <2>1, <2>2, <2>3
<1>6. CASE ReadRule \/ EndOfFile
  BY <1>2, <1>6 DEF ReadRule, EndOfFile, netdVars, loaderVars
<1>7. CASE Call
  BY <1>2, <1>7 DEF Call
<1>8. CASE Check
  <2>1. /\ pc = "check" /\ line \in Lines /\ ~IsHeader(line) /\ retryCount \in {0, 2}
        /\ UNCHANGED <<tables, deaths>> /\ logged \subseteq logged'
    BY <1>8 DEF Check, Requests, netdVars, FirewallInv, RetryInv
  <2>2. CASE line' = line
    BY <1>2, <2>1, <2>2
  <2>3. CASE line' = line + 1 /\ deaths = 0
    <3>1. IsAdd(line) => Loaded(line) \/ line \in logged'
      <4> SUFFICES ASSUME IsAdd(line), ~Loaded(line) PROVE line \in logged'
        OBVIOUS
      <4>1. reply = "ERROR"
        BY <2>1, <2>3 DEF Outcomes, Outcome
      <4>2. retryCount + 1 = 3
        <5>1. ~(retryCount + 1 < 3)
          BY <1>8, <2>1, <2>3, <4>1 DEF Check, SaysError, IsAdd
        <5> QED BY <2>1, <5>1
      <4> QED BY <1>8, <4>1, <4>2 DEF Check, SaysError, IsAdd
    <3>2. \A i \in 1 .. line' - 1 : i \in 1 .. line - 1 \/ i = line
      BY <2>3
    <3> QED BY <1>2, <2>1, <2>3, <3>1, <3>2
  <2>4. CASE deaths # 0
    BY <2>1, <2>4
  <2>5. line' = line \/ line' = line + 1
    BY <1>8 DEF Check
  <2> QED BY <2>2, <2>3, <2>4, <2>5
<1>9. CASE Execute /\ Applies
  <2>1. UNCHANGED <<pc, line, logged, deaths>> /\ request # None
    BY <1>9, TablesStep DEF loaderVars
  <2>2. SUFFICES ASSUME deaths = 0, pc \in {"read", "call", "wait", "check", "done"},
                        NEW i \in 1 .. line - 1, IsAdd(i)
                 PROVE  Loaded(i)' \/ i \in logged
    BY <2>1
  <2>3. PICK n : n = request.line
    OBVIOUS
  <2>4. n = line /\ i \in Lines /\ i # n + 1
    BY <2>1, <2>2, <2>3, RequestIs DEF Requests, Lines
  <2>5. Loaded(i) => Loaded(i)'
    BY <1>9, <2>2, <2>3, <2>4, Executes
  <2> QED BY <2>2, <2>5
<1>10. CASE Execute /\ Fails
  BY <1>2, <1>10 DEF Execute, Fails, loaderVars
<1>11. CASE Answer
  BY <1>2, <1>11 DEF Answer
<1>12. CASE NetdDies
  BY <1>12 DEF NetdDies, FirewallInv, FirewallTypeOK
<1>13. CASE NetdStarts
  BY <1>2, <1>13 DEF NetdStarts, loaderVars
<1>14. CASE UNCHANGED fwVars
  BY <1>2, <1>14 DEF fwVars, netdVars, loaderVars
<1> QED
  BY <1>3, <1>4, <1>5, <1>6, <1>7, <1>8, <1>9, <1>10, <1>11, <1>12, <1>13, <1>14
  DEF FirewallNext, Loader, Execute

(* netd's execution of the request of the line leaves the tables tidy.     *)
LEMMA TidyDelete ==
  ASSUME FirewallInv, Reloadable, Requests, Contents, Tidy, [FirewallNext]_fwVars,
         Execute, Applies, pc = "wait", IsDelete(line)
  PROVE  Tidy'
<1>1. /\ file' = file /\ Lines' = Lines
      /\ \A i : TableOf(i)' = TableOf(i) /\ IsAdd(i)' = IsAdd(i)
      /\ \A t : AddsTo(t)' = AddsTo(t)
  BY FileKept, FileSame
<1>2. /\ line = request.line /\ line' = line /\ pc' = "wait" /\ line \in Lines /\ ~IsAdd(line)
  BY TablesStep, RequestIs DEF loaderVars, IsAdd, IsDelete
<1>3. PICK n : n = line
  OBVIOUS
<1>4. \A i \in Lines : IsAdd(i) => (Added(i)' <=> Added(i))
  BY <1>2 DEF Added
<1>5. \A i \in Lines : IsAdd(i) /\ Loaded(i) => Loaded(i)' \/ i = n + 1
  BY <1>2, <1>3, Executes
<1>6. \A i \in Lines : IsAdd(i) /\ Added(i) => i # n + 1
  BY <1>2, <1>3, LineFacts DEF Added
<1>7. /\ \A t \in Words : t # TableOf(n) => tables'[t] = tables[t]
      /\ TableOf(n) \in Words
      /\ tables'[TableOf(n)] = RemoveFirst(tables[TableOf(n)], Sent(file[n]))
      /\ Sent(file[n]) \in ToSet(tables[TableOf(n)])
  BY <1>2, <1>3, Executes
<1>8. ASSUME NEW t \in Words PROVE InOrder(t)'
  <2> SUFFICES ASSUME NEW i \in AddsTo(t), NEW j \in AddsTo(t),
                      NEW p \in DOMAIN tables'[t], NEW q \in DOMAIN tables'[t], p < q, Added(i)',
                      tables'[t][p] = Sent(file[i]), tables'[t][q] = Sent(file[j])
               PROVE  Added(j)' /\ i < j
    BY <1>1 DEF InOrder
  <2>1. \E u, v \in DOMAIN tables[t] : u < v /\ tables'[t][p] = tables[t][u] /\ tables'[t][q] = tables[t][v]
    <3>1. CASE t = TableOf(n)
      <4> DEFINE s == tables[t]
                 e == Sent(file[n])
                 M == {Sent(file[k]) : k \in Lines}
      <4>1. s \in Seq(M) /\ e \in ToSet(s) /\ tables'[t] = RemoveFirst(s, e)
        BY <1>7, <3>1 DEF Contents
      <4> HIDE DEF s, e, M
      <4>2. \E u, v \in DOMAIN s : u < v /\ tables'[t][p] = s[u] /\ tables'[t][q] = s[v]
        BY <4>1, RemoveFirstKeeps
      <4> QED BY <4>2 DEF s
    <3>2. CASE t # TableOf(n)
      BY <1>7, <3>2
    <3> QED BY <3>1, <3>2
  <2>2. i \in Lines /\ IsAdd(i) /\ j \in Lines /\ IsAdd(j)
    BY DEF AddsTo
  <2>3. Added(j) /\ i < j
    BY <1>4, <2>1, <2>2 DEF Tidy, InOrder
  <2> QED BY <1>4, <2>2, <2>3
<1> QED BY <1>1, <1>4, <1>5, <1>6, <1>8 DEF Tidy

LEMMA TidyAdd ==
  ASSUME FirewallInv, Reloadable, Requests, Contents, Absences, Tidy, [FirewallNext]_fwVars,
         Execute, Applies, pc = "wait", IsAdd(line), ~strayed
  PROVE  Tidy'
<1>1. /\ file' = file /\ Lines' = Lines
      /\ \A i : TableOf(i)' = TableOf(i) /\ IsAdd(i)' = IsAdd(i)
      /\ \A t : AddsTo(t)' = AddsTo(t)
  BY FileKept, FileSame
<1>2. /\ line = request.line /\ line' = line /\ pc' = "wait" /\ line \in Lines /\ ~IsDelete(line)
      /\ answer = Empty /\ answer' = Success /\ request # None
  BY TablesStep, RequestIs DEF loaderVars, IsAdd, IsDelete
<1>3. PICK n : n = line
  OBVIOUS
<1>4. Absent(n)
  BY <1>2, <1>3, RequestIs DEF Absences
<1>5. \A i : Added(i)' <=> Added(i) \/ i = n
  BY <1>2, <1>3 DEF Added, Outcome, Success, Empty
<1>6. /\ \A i \in Lines : IsAdd(i) /\ Loaded(i) => Loaded(i)'
      /\ Loaded(n)'
      /\ \A t \in Words : t # TableOf(n) => tables'[t] = tables[t]
      /\ TableOf(n) \in Words /\ n \in Lines
      /\ tables'[TableOf(n)] = Append(tables[TableOf(n)], Sent(file[n]))
  BY <1>2, <1>3, Executes
<1>7. ASSUME NEW t \in Words PROVE InOrder(t)'
  <2> SUFFICES ASSUME NEW i \in AddsTo(t), NEW j \in AddsTo(t),
                      NEW p \in DOMAIN tables'[t], NEW q \in DOMAIN tables'[t], p < q, Added(i)',
                      tables'[t][p] = Sent(file[i]), tables'[t][q] = Sent(file[j])
               PROVE  Added(j)' /\ i < j
    BY <1>1 DEF InOrder
  <2>1. i \in Lines /\ IsAdd(i) /\ j \in Lines /\ IsAdd(j) /\ TableOf(i) = t /\ TableOf(j) = t
    BY DEF AddsTo
  <2>2. tables[t] \in Seq({Sent(file[k]) : k \in Lines})
    BY DEF Contents
  <2>3. CASE t # TableOf(n)
    <3>1. i # n
      BY <2>1, <2>3
    <3>2. Added(j) /\ i < j
      BY <1>5, <1>6, <2>3, <3>1 DEF Tidy, InOrder
    <3> QED BY <1>5, <3>2
  <2>4. CASE t = TableOf(n)
    <3> DEFINE s == tables[t]
               e == Sent(file[n])
    <3>1. s \in Seq({Sent(file[k]) : k \in Lines}) /\ tables'[t] = Append(s, e) /\ e \in {Sent(file[k]) : k \in Lines}
      BY <1>6, <2>2, <2>4
    <3>2. \A u \in DOMAIN s : s[u] # e
      BY <1>4, <2>4 DEF Absent, ToSet
    <3> HIDE DEF s, e
    <3>3. p \in DOMAIN s /\ tables'[t][p] = s[p]
      BY <3>1
    <3>4. i # n
      BY <3>2, <3>3 DEF e
    <3>5. CASE q \in DOMAIN s
      <4>1. tables'[t][q] = s[q]
        BY <3>1, <3>5
      <4>2. Added(j) /\ i < j
        BY <1>5, <3>3, <3>4, <3>5, <4>1 DEF Tidy, InOrder, s
      <4> QED BY <1>5, <4>2
    <3>6. CASE q \notin DOMAIN s
      <4>1. tables'[t][q] = e
        BY <3>1, <3>6
      <4>2. j = n
        BY <1>2, <1>3, <2>1, <2>4, <4>1 DEF Reloadable, e
      <4>3. i < n
        BY <1>2, <1>3, <1>5, <3>4 DEF Added
      <4> QED BY <1>5, <4>2, <4>3
    <3> QED BY <3>5, <3>6
  <2> QED BY <2>3, <2>4
<1> QED BY <1>1, <1>5, <1>6, <1>7 DEF Tidy

(* A step that leaves the tables alone, and what is added as it is.        *)
LEMMA TidySame ==
  ASSUME file' = file, tables' = tables, \A i \in Lines : IsAdd(i) => (Added(i)' <=> Added(i)), Tidy
  PROVE  Tidy'
<1>1. /\ Lines' = Lines
      /\ \A i : TableOf(i)' = TableOf(i) /\ IsAdd(i)' = IsAdd(i)
      /\ \A t : AddsTo(t)' = AddsTo(t)
  BY FileSame
<1>2. \A i : Loaded(i)' = Loaded(i)
  BY <1>1 DEF Loaded
<1>3. \A t : \A i \in AddsTo(t) : Added(i)' <=> Added(i)
  BY DEF AddsTo
<1>4. \A t \in Words : InOrder(t)'
  BY <1>1, <1>3 DEF Tidy, InOrder
<1> QED BY <1>1, <1>2, <1>4 DEF Tidy

LEMMA SettledStep ==
  ASSUME FirewallInv, Instances, Reloadable, Requests, Contents, Absences, Outcomes, Settled,
         [FirewallNext]_fwVars
  PROVE  Settled'
<1>1. /\ file' = file /\ Lines' = Lines /\ line \in Nat
      /\ \A i : IsAdd(i)' = IsAdd(i)
  BY FileKept, FileSame, FileLength DEF FirewallInv, FirewallTypeOK
<1> DEFINE Keeps == clean' /\ ~strayed' => clean /\ ~strayed /\ pc \in Loading \cup {"done"}
           Same  == tables' = tables /\ \A i \in Lines : IsAdd(i) => (Added(i)' <=> Added(i))
<1>2. ASSUME Keeps, clean' /\ ~strayed' => Same,
             pc' \in Loading \/ (pc' = "done" /\ (clean' => line' \notin Lines))
      PROVE  Settled'
  <2>1. clean' /\ ~strayed' => Tidy'
    BY <1>1, <1>2, TidySame DEF Settled
  <2> QED BY <1>1, <1>2, <2>1 DEF Settled, Loading
<1>3. CASE pc' = "dead"
  BY <1>3 DEF Settled, Loading
<1>4. CASE ~clean'
  BY <1>4 DEF Settled
<1>5. CASE GetService \/ GetOemNetd \/ OpenFails
  <2>1. ~clean'
    BY <1>5 DEF GetService, GetOemNetd, OpenFails, historyVars, Settled
  <2> QED BY <1>4, <2>1
<1>6. CASE Open
  <2>1. pc' = "read" /\ line' = 1
    BY <1>6 DEF Open
  <2>2. \A i \in Lines : ~Added(i)'
    BY <1>1, <2>1, LineFacts DEF Added, Outcome, Lines
  <2>3. Tidy'
    BY <1>1, <2>2, FileSame DEF Tidy, InOrder, AddsTo
  <2> QED BY <2>1, <2>3 DEF Settled
<1>7. CASE ReadHeader
  <2>1. /\ line' = line + 1 /\ line \in Lines /\ file[line].words # {} /\ pc = "read" /\ pc' = "read"
        /\ UNCHANGED <<tables, clean, strayed>>
    BY <1>7 DEF ReadHeader, netdVars, historyVars
  <2>2. ~IsAdd(line)
    BY <2>1 DEF Reloadable, IsAdd
  <2>3. \A i \in Lines : IsAdd(i) => (Added(i)' <=> Added(i))
    BY <1>1, <2>1, <2>2, LineFacts DEF Added, Outcome
  <2> QED BY <1>2, <2>1, <2>3 DEF Loading
<1>8. CASE ReadRule
  <2>1. /\ pc = "read" /\ pc' = "call"
        /\ UNCHANGED <<line, tables, clean, strayed>>
    BY <1>8 DEF ReadRule, netdVars, historyVars
  <2>2. Same
    BY <2>1 DEF Added, Outcome
  <2> QED BY <1>2, <2>1, <2>2 DEF Loading
<1>9. CASE EndOfFile
  <2>1. /\ pc = "read" /\ pc' = "done" /\ line \notin Lines
        /\ UNCHANGED <<line, tables, clean, strayed>>
    BY <1>9 DEF EndOfFile, netdVars, loaderVars
  <2>2. Same
    BY <2>1 DEF Added, Outcome
  <2> QED BY <1>2, <2>1, <2>2 DEF Loading
<1>10. CASE Call /\ clean'
  <2>1. /\ pc = "call" /\ pc' = "wait"
        /\ UNCHANGED <<line, tables, clean, strayed, answer>>
    BY <1>10 DEF Call
  <2>2. answer = Empty
    BY <2>1 DEF Requests, FirewallInv, FirewallTypeOK
  <2>3. Same
    BY <2>1, <2>2 DEF Added, Outcome
  <2> QED BY <1>2, <2>1, <2>3 DEF Loading
<1>11. CASE Check /\ clean'
  <2>1. /\ pc = "check" /\ line \in Lines /\ ~IsHeader(line)
        /\ UNCHANGED <<tables, clean, strayed>>
    BY <1>11 DEF Check, Requests, netdVars, historyVars
  <2>2. reply # Empty /\ Outcome = reply
    BY <1>11, <2>1 DEF Outcomes, Outcome
  <2>3. ~file[line].delete => reply = Success
    BY <1>11, <2>1, <2>2 DEF Outcomes, IsAdd
  <2>4. line' = line + 1 /\ pc' = "read"
    BY <1>11, <2>3 DEF Check, SaysError, Success
  <2>5. Same
    BY <1>1, <2>1, <2>2, <2>4, LineFacts DEF Added, Outcome
  <2> QED BY <1>2, <2>1, <2>4, <2>5 DEF Loading
<1>12. CASE Execute /\ Applies /\ pc = "wait" /\ clean' /\ ~strayed'
  <2>1. pc' = pc /\ clean /\ ~strayed /\ line \in Lines /\ ~IsHeader(line)
    <3>1. UNCHANGED <<pc, clean, strayed>>
      BY <1>12, TablesStep
    <3>2. line \in Lines /\ ~IsHeader(line)
      BY <1>12 DEF Requests
    <3> QED BY <1>12, <3>1, <3>2
  <2>2. Tidy
    BY <1>12, <2>1 DEF Settled, Loading
  <2>3. Tidy'
    BY <1>12, <2>1, <2>2, TidyAdd, TidyDelete, LineFacts
  <2> QED BY <1>12, <2>1, <2>3 DEF Settled
<1>13. CASE Execute /\ Fails /\ pc = "wait" /\ clean' /\ ~strayed'
  <2>1. /\ request.delete /\ request # None /\ pc' = pc
        /\ UNCHANGED <<line, tables, clean, strayed>>
    BY <1>13 DEF Execute, Fails, loaderVars
  <2>2. line = request.line /\ line \in Lines /\ ~IsAdd(line)
    BY <1>13, <2>1, RequestIs, LineFacts
  <2>3. Same
    BY <1>1, <2>1, <2>2, LineFacts DEF Added
  <2> QED BY <1>2, <1>13, <2>1, <2>3 DEF Loading
<1>14. CASE Answer /\ pc = "wait"
  <2>1. /\ pc' = "check" /\ Outcome' = Outcome
        /\ UNCHANGED <<line, tables, clean, strayed>>
    BY <1>14 DEF Answer, Outcome, loaderVars, historyVars
  <2>2. Same
    BY <2>1 DEF Added
  <2> QED BY <1>2, <1>14, <2>1, <2>2 DEF Loading
<1>15. CASE NetdDies /\ pc = "wait"
  BY <1>4, <1>15 DEF NetdDies
<1>16. CASE (NetdDies /\ pc # "wait") \/ NetdStarts \/ UNCHANGED fwVars
  <2>1. /\ pc # "wait" => Outcome' = Outcome
        /\ (pc = "wait" => Outcome' = Outcome)
        /\ UNCHANGED <<pc, line, tables, clean, strayed>>
    BY <1>16 DEF NetdDies, NetdStarts, fwVars, netdVars, loaderVars, historyVars, Outcome
  <2>2. Same
    BY <2>1 DEF Added
  <2>3. CASE pc \in Loading
    BY <1>2, <2>1, <2>2, <2>3
  <2>4. CASE pc \notin Loading
    <3>1. pc = "done" => Settled'
      BY <1>1, <1>2, <2>1, <2>2 DEF Settled
    <3>2. pc # "done" => Settled'
      BY <2>1, <2>4 DEF Settled
    <3> QED BY <3>1, <3>2
  <2> QED BY <2>3, <2>4
<1>17. CASE (Execute \/ Answer) /\ pc # "wait"
  <2>1. pc = "dead" /\ pc' = "dead"
    BY <1>17 DEF Execute, Answer, Requests, FirewallInv, FirewallTypeOK
  <2> QED BY <1>3, <2>1
<1>18. CASE strayed' /\ Execute
  <2>1. pc \in {"wait", "dead"} /\ pc' = pc
    BY <1>18 DEF Execute, Requests
  <2> QED BY <1>18, <2>1 DEF Settled
<1>19. ReadShort \/ Crash => pc' = "dead"
  BY DEF ReadShort, Crash
<1>20. Restart => ~clean'
  BY DEF Restart
<1> QED
  BY <1>3, <1>4, <1>5, <1>6, <1>7, <1>8, <1>9, <1>10, <1>11, <1>12, <1>13, <1>14, <1>15, <1>16,
     <1>17, <1>18, <1>19, <1>20
  DEF FirewallNext, Loader, Execute

-----------------------------------------------------------------------------
(* Counting the missing rules.                                             *)
LEMMA Fewer ==
  ASSUME file \in Files, NEW B \in SUBSET Lines, NEW A \in SUBSET B,
         NEW c \in Int, Cardinality(B) <= c
  PROVE  Cardinality(A) <= c
<1>1. IsFiniteSet(Lines)
  BY FileLength, FS_Interval DEF Lines
<1>2. IsFiniteSet(B)
  BY <1>1, FS_Subset
<1>3. IsFiniteSet(A) /\ Cardinality(A) <= Cardinality(B)
  BY <1>2, FS_Subset
<1>4. Cardinality(A) \in Nat /\ Cardinality(B) \in Nat
  BY <1>2, <1>3, FS_CardinalityType
<1> QED BY <1>3, <1>4

LEMMA OneMore ==
  ASSUME file \in Files, NEW B \in SUBSET Lines, NEW x, NEW A \in SUBSET (B \cup {x}),
         NEW c \in Int, Cardinality(B) <= c
  PROVE  Cardinality(A) <= c + 1
<1>1. IsFiniteSet(Lines)
  BY FileLength, FS_Interval DEF Lines
<1>2. IsFiniteSet(B)
  BY <1>1, FS_Subset
<1>3. Cardinality(B \cup {x}) \in {Cardinality(B), Cardinality(B) + 1}
  BY <1>2, FS_AddElement
<1>4. Cardinality(B) \in Nat
  BY <1>2, FS_CardinalityType
<1>5. IsFiniteSet(B \cup {x})
  BY <1>2, FS_AddElement
<1>6. Cardinality(A) \in Nat /\ Cardinality(A) <= Cardinality(B \cup {x})
  BY <1>5, FS_Subset, FS_CardinalityType
<1> QED BY <1>3, <1>4, <1>6

LEMMA GapsAreLines ==
  ASSUME FirewallInv, Reloadable, Requests
  PROVE  /\ Missing \in SUBSET Lines /\ Gap \in SUBSET Lines /\ Pending \in SUBSET Lines
         /\ \A i \in Lines : GapOf(i) \in SUBSET Lines
         /\ \A i \in Lines : IsHeader(i) => GapOf(i) = {}
         /\ \A i \in Lines : ~IsHeader(i) => \E x \in Lines : GapOf(i) = {x}
<1>1. \A i \in Lines : GapOf(i) \in SUBSET Lines
  BY LineFacts DEF GapOf
<1>2. \A i \in Lines : IsHeader(i) => GapOf(i) = {}
  BY LineFacts DEF GapOf
<1>3. \A i \in Lines : ~IsHeader(i) => \E x \in Lines : GapOf(i) = {x}
  BY LineFacts DEF GapOf
<1>4. Gap \in SUBSET Lines /\ Pending \in SUBSET Lines
  BY <1>1, RequestIs DEF Gap, Pending
<1> QED BY <1>1, <1>2, <1>3, <1>4 DEF Missing

LEMMA GapIsOne ==
  ASSUME FirewallInv, Reloadable, Requests
  PROVE  \E x : Gap \subseteq {x}
<1>1. CASE Gap = {}
  BY <1>1
<1>2. CASE Gap # {}
  BY <1>2, GapsAreLines DEF Gap
<1> QED BY <1>1, <1>2

(* The other rules that are missing do not become more; a crash adds the   *)
(* one that the loader was at.                                             *)
LEMMA GapsStep ==
  ASSUME FirewallInv, Instances, Reloadable, Requests, Contents, Absences, Outcomes, Settled, Gaps,
         [FirewallNext]_fwVars
  PROVE  Gaps'
<1>1. /\ file' = file /\ Lines' = Lines /\ file \in Files /\ crashes \in Nat
      /\ \A i : IsAdd(i)' = IsAdd(i) /\ TableOf(i)' = TableOf(i) /\ GapOf(i)' = GapOf(i)
  <2>1. file' = file
    BY FileKept
  <2>2. \A i : GapOf(i)' = GapOf(i)
    BY <2>1, FileSame DEF GapOf
  <2> QED BY <2>1, <2>2, FileSame DEF FirewallInv, FirewallTypeOK, Instances
<1>2. tables' = tables => Missing' = Missing
  BY <1>1 DEF Missing, Loaded
<1>3. /\ Missing \in SUBSET Lines /\ Gap \in SUBSET Lines /\ Pending \in SUBSET Lines
      /\ \A i \in Lines : IsHeader(i) => GapOf(i) = {}
      /\ \A i \in Lines : ~IsHeader(i) => \E x \in Lines : GapOf(i) = {x}
  BY GapsAreLines
<1>4. request = None => answer = Empty
  BY DEF FirewallInv, FirewallTypeOK
<1>4a. Gone \in SUBSET Lines /\ Allowed \in Int
  BY <1>1, <1>3 DEF Gone, Allowed
<1>4b. ASSUME complete, ~strayed', crashes' = crashes, pc' = pc \/ pc # "done", Gone' \subseteq Gone
       PROVE  Gaps'
  <2>1. Cardinality(Gone) <= Allowed
    BY <1>4b DEF Gaps
  <2>2. Allowed' \in Int /\ Allowed <= Allowed'
    BY <1>1, <1>4b DEF Allowed
  <2> HIDE DEF Gone, Allowed
  <2>3. Cardinality(Gone') <= Allowed
    BY <1>1, <1>4a, <1>4b, <2>1, Fewer
  <2>4. IsFiniteSet(Gone')
    <3>1. IsFiniteSet(Lines)
      BY <1>1, FileLength, FS_Interval DEF Lines
    <3> QED BY <1>4a, <1>4b, <3>1, FS_Subset
  <2>5. Cardinality(Gone') \in Nat
    BY <2>4, FS_CardinalityType
  <2>6. Cardinality(Gone') <= Allowed'
    BY <1>4a, <2>2, <2>3, <2>5
  <2> QED BY <1>4b, <2>6 DEF Gaps
<1>5. ASSUME complete, ~strayed', crashes' = crashes, pc # "dead", pc' # "dead",
             pc' = pc \/ pc # "done", Missing' \ Gap' \subseteq Missing \ Gap
      PROVE  Gaps'
  BY <1>4b, <1>5 DEF Gone
<1>6. ASSUME complete, ~strayed', crashes' = crashes, pc = "dead", pc' = "dead",
             Missing' \cup Pending' \subseteq Missing \cup Pending
      PROVE  Gaps'
  BY <1>4b, <1>6 DEF Gone
<1>7. complete => ~strayed
  BY DEF Gaps
<1>8. CASE ~complete'
  BY <1>8 DEF Gaps
<1>9. CASE GetService \/ GetOemNetd
  <2>1. /\ pc \notin Loading \cup {"done"} /\ pc' \notin Loading /\ pc # "dead" /\ pc' # "dead"
        /\ UNCHANGED <<tables, crashes, complete, strayed>>
    BY <1>9 DEF GetService, GetOemNetd, netdVars, historyVars, Loading
  <2> QED BY <1>2, <1>5, <1>7, <1>8, <2>1 DEF Gap
<1>10. CASE Open \/ OpenFails
  <2>1. /\ pc \notin Loading \cup {"done"} /\ pc # "dead" /\ pc' # "dead"
        /\ UNCHANGED <<tables, crashes, complete, strayed>>
    BY <1>10 DEF Open, OpenFails, netdVars, historyVars, Loading
  <2>2. Gap = {}
    BY <2>1 DEF Gap
  <2> QED BY <1>2, <1>5, <1>7, <1>8, <2>1, <2>2
<1>11. CASE ReadHeader
  <2>1. /\ pc = "read" /\ pc' = "read" /\ line \in Lines /\ file[line].words # {}
        /\ UNCHANGED <<tables, crashes, complete, strayed>>
    BY <1>11 DEF ReadHeader, netdVars, historyVars
  <2>2. Gap = {}
    BY <1>3, <2>1 DEF Gap, Reloadable
  <2> QED BY <1>2, <1>5, <1>7, <1>8, <2>1, <2>2
<1>12. CASE ReadRule
  <2>1. /\ pc = "read" /\ pc' = "call"
        /\ UNCHANGED <<line, tables, crashes, complete, strayed>>
    BY <1>12 DEF ReadRule, netdVars, historyVars
  <2>2. Gap' = Gap
    BY <1>1, <2>1 DEF Gap, Loading
  <2> QED BY <1>2, <1>5, <1>7, <1>8, <2>1, <2>2
<1>13. CASE EndOfFile
  <2>1. /\ pc = "read" /\ pc' = "done" /\ line \notin Lines
        /\ UNCHANGED <<line, tables, crashes, clean, strayed>>
        /\ complete' => complete \/ (clean /\ ~strayed)
    BY <1>13 DEF EndOfFile, netdVars, loaderVars
  <2>2. CASE complete
    <3>1. Gap = {}
      BY <2>1 DEF Gap
    <3> QED BY <1>2, <1>5, <1>7, <2>1, <2>2, <3>1
  <2>3. CASE clean /\ ~strayed
    <3>1. Tidy /\ \A i \in Lines : Added(i)
      <4>1. Tidy
        BY <2>1, <2>3 DEF Settled, Loading
      <4>2. line \in 1 .. Len(file) + 1 /\ Len(file) \in Nat
        BY FileLength DEF FirewallInv, FirewallTypeOK
      <4>3. \A i \in Lines : i < line
        BY <2>1, <4>2 DEF Lines
      <4> QED BY <4>1, <4>3 DEF Added
    <3>2. Missing = {}
      BY <3>1 DEF Tidy, Missing
    <3>3. Cardinality(Missing' \ Gap') = 0
      <4>1. Missing' \ Gap' = {}
        BY <1>2, <2>1, <3>2
      <4> QED BY <4>1, FS_EmptySet
    <3> QED BY <1>1, <2>1, <2>3, <3>3 DEF Gaps, Gone, Allowed
  <2> QED BY <1>8, <2>1, <2>2, <2>3
<1>14. CASE Call /\ complete'
  <2>1. /\ pc = "call" /\ pc' = "wait" /\ complete
        /\ UNCHANGED <<line, tables, crashes, strayed>>
    BY <1>14 DEF Call
  <2>2. Gap' = Gap
    BY <1>1, <2>1 DEF Gap, Loading
  <2> QED BY <1>2, <1>5, <1>7, <2>1, <2>2
<1>15. CASE Check /\ complete'
  <2>1. /\ pc = "check" /\ line \in Lines /\ ~IsHeader(line) /\ complete
        /\ UNCHANGED <<tables, crashes, strayed>>
    BY <1>15 DEF Check, Requests, netdVars, historyVars
  <2>2. reply # Empty /\ Outcome = reply
    BY <2>1 DEF Outcomes, Outcome
  <2>3. IsAdd(line) => reply = Success /\ Loaded(line)
    BY <2>1, <2>2 DEF Outcomes
  <2>4. line' = line + 1 /\ pc' = "read"
    BY <1>15, <2>1, <2>3 DEF Check, SaysError, Success, IsAdd
  <2>5. Missing \ Gap' \subseteq Missing \ Gap
    <3>1. CASE IsAdd(line)
      <4>1. Gap = {line} /\ line \notin Missing
        BY <2>1, <2>3, <3>1, LineFacts DEF Gap, GapOf, Missing, Loading
      <4> QED BY <4>1
    <3>2. CASE IsDelete(line)
      <4>1. line + 1 \in Lines /\ IsAdd(line + 1) /\ ~IsDelete(line + 1)
        BY <2>1, <3>2, LineFacts DEF IsAdd, IsDelete
      <4>2. Gap = {line + 1} /\ GapOf(line + 1) = {line + 1}
        BY <2>1, <3>2, <4>1 DEF Gap, GapOf, Loading
      <4>3. Gap' = {line + 1}
        BY <1>1, <2>4, <4>1, <4>2 DEF Gap, Loading
      <4> QED BY <4>2, <4>3
    <3> QED BY <2>1, <3>1, <3>2, LineFacts
  <2> QED BY <1>2, <1>5, <1>7, <2>1, <2>4, <2>5
<1>16. CASE Execute /\ Applies /\ complete'
  <2>1. /\ request # None /\ UNCHANGED <<pc, line, request, crashes, strayed, complete>>
    BY <1>16, TablesStep DEF loaderVars
  <2>2. PICK n : n = request.line
    OBVIOUS
  <2>3. Missing' \subseteq Missing \cup GapOf(n)
    <3>1. \A i \in Lines : IsAdd(i) /\ Loaded(i) => Loaded(i)' \/ (IsDelete(n) /\ i = n + 1)
      BY <1>16, <2>2, Executes
    <3>2. IsDelete(n) => GapOf(n) = {n + 1}
      BY DEF GapOf
    <3> QED BY <1>1, <3>1, <3>2 DEF Missing
  <2>4. pc \in {"wait", "dead"}
    BY <2>1 DEF Requests
  <2>5. CASE pc = "wait"
    <3>1. n = line /\ line \in Lines
      BY <2>1, <2>2, <2>5, RequestIs
    <3>2. Gap = GapOf(n) /\ Gap' = Gap
      BY <1>1, <2>1, <2>5, <3>1 DEF Gap, Loading
    <3> QED BY <1>5, <1>7, <1>16, <2>1, <2>3, <2>5, <3>2
  <2>6. CASE pc = "dead"
    <3>1. Pending = GapOf(n) /\ Pending' = Pending
      BY <1>1, <2>1, <2>2 DEF Pending
    <3> QED BY <1>6, <1>7, <1>16, <2>1, <2>3, <2>6, <3>1
  <2> QED BY <2>4, <2>5, <2>6
<1>17. CASE Execute /\ Fails /\ complete'
  <2>1. /\ request # None /\ UNCHANGED <<pc, line, request, crashes, strayed, complete, tables>>
    BY <1>17 DEF Execute, Fails, loaderVars
  <2>2. Gap' = Gap /\ Pending' = Pending
    BY <1>1, <2>1 DEF Gap, Pending
  <2> QED BY <1>2, <1>5, <1>6, <1>7, <1>17, <2>1, <2>2
<1>18. CASE Answer \/ (NetdDies /\ complete')
  <2>1. /\ request' = None
        /\ UNCHANGED <<line, crashes, strayed, complete, tables>>
    BY <1>18 DEF Answer, NetdDies, loaderVars, historyVars
  <2>2. /\ pc' = pc \/ (pc = "wait" /\ pc' = "check")
    BY <1>18 DEF Answer, NetdDies
  <2>3. Gap' = Gap /\ Pending' = {}
    BY <1>1, <2>1, <2>2 DEF Gap, Pending, Loading
  <2> QED BY <1>2, <1>5, <1>6, <1>7, <1>8, <2>1, <2>2, <2>3
<1>19. CASE NetdStarts \/ UNCHANGED fwVars
  <2>1. UNCHANGED <<pc, line, request, crashes, strayed, complete, tables>>
    BY <1>19 DEF NetdStarts, fwVars, netdVars, loaderVars, historyVars
  <2>2. Gap' = Gap /\ Pending' = Pending
    BY <1>1, <2>1 DEF Gap, Pending
  <2> QED BY <1>2, <1>5, <1>6, <1>7, <1>8, <2>1, <2>2
<1>20. CASE Crash
  <2>1. /\ pc # "dead" /\ pc' = "dead" /\ crashes' = crashes + 1
        /\ UNCHANGED <<line, request, strayed, complete, tables>>
    BY <1>20 DEF Crash, netdVars, loaderVars, historyVars
  <2>2. /\ Gone' = Missing \cup Pending /\ Allowed' = crashes
        /\ Gone = Missing \ Gap
    BY <1>1, <1>2, <2>1 DEF Gone, Allowed, Pending
  <2>3. SUFFICES ASSUME complete PROVE Cardinality(Missing \cup Pending) <= crashes
    BY <1>7, <1>8, <2>1, <2>2 DEF Gaps
  <2>4. Pending \subseteq Gap /\ (pc = "done" => Gap = {} /\ Pending = {})
    BY <2>1, RequestIs DEF Pending, Gap, Requests, Loading
  <2>5. CASE pc = "done"
    <3>1. Missing \cup Pending = Gone
      BY <2>2, <2>4, <2>5
    <3>2. Allowed = crashes
      BY <2>5 DEF Allowed
    <3> QED BY <2>3, <3>1, <3>2 DEF Gaps
  <2>6. CASE pc # "done"
    <3>1. Cardinality(Missing \ Gap) <= crashes - 1
      BY <2>2, <2>3, <2>6 DEF Gaps, Allowed
    <3>2. crashes - 1 \in Int /\ (crashes - 1) + 1 = crashes
      BY <1>1
    <3>3. PICK x : Missing \cup Pending \in SUBSET ((Missing \ Gap) \cup {x})
      BY <2>4, GapIsOne
    <3>4. Missing \ Gap \in SUBSET Lines
      BY <1>3
    <3>5. Cardinality(Missing \cup Pending) <= (crashes - 1) + 1
      BY <1>1, <3>1, <3>2, <3>3, <3>4, OneMore
    <3> QED BY <3>2, <3>5
  <2> QED BY <2>5, <2>6
<1>21. CASE ReadShort
  <2>1. /\ pc = "read" /\ pc' = "dead" /\ request = None /\ request' = None
        /\ line \in Lines /\ TextLen(file[line]) = 1
        /\ UNCHANGED <<crashes, strayed, complete, tables>>
    BY <1>21 DEF ReadShort, netdVars, historyVars, Requests
  <2>2. IsHeader(line)
    <3> SUFFICES ASSUME ~IsHeader(line) PROVE FALSE OBVIOUS
    <3>1. file[line].ending = 2 /\ file[line].chars \in Nat
      BY <1>1, <2>1, LineType DEF Reloadable
    <3> QED BY <2>1, <3>1 DEF TextLen
  <2>3. Gap = {} /\ Pending' = {}
    BY <1>3, <2>1, <2>2 DEF Gap, Pending
  <2>4. Gone' = Gone
    BY <1>2, <2>1, <2>3 DEF Gone
  <2> QED BY <1>4b, <1>7, <1>8, <2>1, <2>4
<1>22. CASE Restart
  <2>1. /\ pc = "dead" /\ pc' = "get_service" /\ request = None
        /\ UNCHANGED <<crashes, strayed, complete, tables>>
    BY <1>22 DEF Restart, netdVars
  <2>2. Gap' = {} /\ Pending = {}
    BY <2>1 DEF Gap, Pending, Loading
  <2>3. Gone' = Gone
    BY <1>2, <2>1, <2>2 DEF Gone
  <2> QED BY <1>4b, <1>7, <1>8, <2>1, <2>3
<1> QED
  BY <1>8, <1>9, <1>10, <1>11, <1>12, <1>13, <1>14, <1>15, <1>16, <1>17, <1>18, <1>19, <1>20,
     <1>21, <1>22
  DEF FirewallNext, Loader, Execute

-----------------------------------------------------------------------------
(* The inductive invariant of a daemon that loads its file again and again.*)
THEOREM ReloadInvariance == FirewallSpec => []ReloadInv
<1>1. ReloadInv /\ [FirewallNext]_fwVars => ReloadInv'
  <2> SUFFICES ASSUME ReloadInv, [FirewallNext]_fwVars PROVE ReloadInv'
    OBVIOUS
  <2>1. FirewallInv'
    BY FirewallInvStep DEF ReloadInv
  <2>2. Instances'
    BY InstancesStep DEF ReloadInv
  <2>3. Reloadable' => Reloadable
    BY FileKept, FileSame DEF Reloadable
  <2>4. ASSUME Reloadable PROVE LoadInv'
    <3>1. /\ FirewallInv /\ Instances /\ Requests /\ Contents /\ Absences /\ Outcomes /\ Settled /\ Gaps
          /\ FailureReply = "ERROR" => LoadedOrLogged
      BY <2>4 DEF ReloadInv, LoadInv
    <3>2. Requests' /\ Contents' /\ Absences' /\ Outcomes'
      BY <2>4, <3>1, RequestsStep, ContentsStep, AbsencesStep, OutcomesStep
    <3>3. Settled' /\ Gaps'
      BY <2>4, <3>1, SettledStep, GapsStep
    <3>4. FailureReply = "ERROR" => LoadedOrLogged'
      BY <2>4, <3>1, LoggedStep
    <3> QED BY <3>2, <3>3, <3>4 DEF LoadInv
  <2> QED BY <2>1, <2>2, <2>3, <2>4 DEF ReloadInv
<1> QED BY ReloadInitInv, <1>1, PTL DEF FirewallSpec

(* A file made to be loaded again never puts a rule into a table twice,    *)
(* wherever the daemon or netd dies.                                       *)
THEOREM NoDuplicatesCorrect == FirewallSpec => [](Reloadable => NoDuplicates)
<1>1. ReloadInv => (Reloadable => NoDuplicates)
  BY DEF ReloadInv, LoadInv, Contents
<1> QED BY ReloadInvariance, <1>1, PTL

(* What becomes of a rule that the loader leaves behind, for every reply   *)
(* netd may give to a failure.  If the reply has the word that the loader  *)
(* looks for, the rule is in its table or in the log.  If it has not, as   *)
(* that of set_iptables_rule, nothing is ever logged or sent again, and    *)
(* only as long as no call has failed is every rule in its table.          *)
THEOREM LoggedCorrect ==
  FirewallSpec =>
    [](/\ Reloadable /\ (SaysError(FailureReply) \/ (clean /\ ~strayed)) => LoadedOrLogged
       /\ ~SaysError(FailureReply) => NeverHeard)
<1>1. ASSUME ReloadInv, Reloadable, SaysError(FailureReply) PROVE LoadedOrLogged
  BY <1>1 DEF ReloadInv, LoadInv, SaysError
<1>2. ASSUME ReloadInv, Reloadable, clean, ~strayed PROVE LoadedOrLogged
  <2>1. pc \in Loading \cup {"done"} => Tidy BY <1>2 DEF ReloadInv, LoadInv, Settled
  <2>2. line \in 1 .. Len(file) + 1 /\ Len(file) \in Nat
    BY <1>2, FileLength DEF ReloadInv, FirewallInv, FirewallTypeOK
  <2>3. ASSUME pc \in Loading \cup {"done"}, NEW i \in 1 .. line - 1, IsAdd(i)
        PROVE  Loaded(i)
    <3>1. i \in Lines /\ i < line BY <2>2 DEF Lines
    <3> QED BY <2>1, <2>3, <3>1 DEF Tidy, Added
  <2> QED BY <2>3 DEF LoadedOrLogged, Loading
<1>3. ReloadInv => (~SaysError(FailureReply) => NeverHeard)
  BY DEF ReloadInv, FirewallInv, UnheardInv
<1>4. ReloadInv =>
        /\ Reloadable /\ (SaysError(FailureReply) \/ (clean /\ ~strayed)) => LoadedOrLogged
        /\ ~SaysError(FailureReply) => NeverHeard
  BY <1>1, <1>2, <1>3
<1> QED BY ReloadInvariance, <1>4, PTL

(* A run of the loader in which no call fails leaves in each table just    *)
(* the rules of the file, in its order, whatever earlier runs have left.   *)
THEOREM CleanRunCorrect == FirewallSpec => [](Reloadable => CleanRunLoadsFile)
<1>1. ReloadInv => (Reloadable => CleanRunLoadsFile)
  <2> SUFFICES ASSUME ReloadInv, Reloadable, pc = "done", clean, ~strayed, NEW t \in Words
               PROVE  LoadedAsWritten(t)
    BY DEF CleanRunLoadsFile
  <2>1. FirewallInv /\ Contents /\ Settled
    BY DEF ReloadInv, LoadInv
  <2>2. Tidy /\ line \notin Lines
    BY <2>1 DEF Settled
  <2>3. \A i \in Lines : Added(i)
    <3>1. line \in 1 .. Len(file) + 1 /\ Len(file) \in Nat
      BY <2>1, FileLength DEF FirewallInv, FirewallTypeOK
    <3>2. \A i \in Lines : i < line
      BY <2>2, <3>1 DEF Lines
    <3> QED BY <3>2 DEF Added
  <2>4. \A i \in AddsTo(t) : Wanted(i) = Sent(file[i])
    <3>1. \A i \in AddsTo(t) : file[i].ending = 2
      BY DEF AddsTo, IsAdd, Reloadable
    <3> QED BY <3>1 DEF Wanted, Sent
  <2>5. \A p \in DOMAIN tables[t] : \E i \in AddsTo(t) : tables[t][p] = Sent(file[i])
    BY <2>1 DEF Contents
  <2>6. \A i \in AddsTo(t) : Sent(file[i]) \in ToSet(tables[t])
    BY <2>2, <2>3 DEF Tidy, Loaded, AddsTo
  <2>7. ToSet(tables[t]) = {Wanted(i) : i \in AddsTo(t)}
    BY <2>4, <2>5, <2>6 DEF ToSet
  <2>8. ASSUME NEW p \in DOMAIN tables[t], NEW q \in DOMAIN tables[t], p < q
        PROVE  \E i, j \in AddsTo(t) : i < j /\ tables[t][p] = Wanted(i) /\ tables[t][q] = Wanted(j)
    <3>1. PICK i \in AddsTo(t), j \in AddsTo(t) :
            tables[t][p] = Sent(file[i]) /\ tables[t][q] = Sent(file[j])
      BY <2>5
    <3>2. i < j
      BY <2>2, <2>3, <2>8, <3>1 DEF Tidy, InOrder, AddsTo
    <3> QED BY <2>4, <3>1, <3>2
  <2> QED BY <2>7, <2>8 DEF LoadedAsWritten
<1> QED BY ReloadInvariance, <1>1, PTL

(* After a first complete load no more of its rules are missing than the   *)
(* daemon has crashed.                                                     *)
THEOREM GapCorrect == FirewallSpec => [](Reloadable => GapBound)
<1>1. ReloadInv => (Reloadable => GapBound)
  <2> SUFFICES ASSUME ReloadInv, Reloadable, complete
               PROVE  Cardinality(Missing) <= crashes
    BY DEF GapBound, Missing
  <2>1. FirewallInv /\ Requests /\ crashes \in Nat /\ file \in Files
    BY DEF ReloadInv, LoadInv, Instances, FirewallInv, FirewallTypeOK
  <2>2. Cardinality(Gone) <= Allowed
    BY DEF ReloadInv, LoadInv, Gaps
  <2>3. Missing \in SUBSET Lines /\ Gap \in SUBSET Lines /\ Pending \in SUBSET Lines
    BY <2>1, GapsAreLines
  <2>4. CASE pc \in {"done", "dead"}
    <3>1. Missing \subseteq Gone /\ Allowed \in Int /\ Allowed <= crashes
      BY <2>1, <2>4 DEF Gone, Allowed, Gap, Loading
    <3>2. Gone \in SUBSET Lines
      BY <2>3 DEF Gone
    <3>3. Cardinality(Missing) <= Allowed
      BY <2>1, <2>2, <3>1, <3>2, Fewer
    <3>4. IsFiniteSet(Missing)
      <4>1. IsFiniteSet(Lines)
        BY <2>1, FileLength, FS_Interval DEF Lines
      <4> QED BY <2>3, <4>1, FS_Subset
    <3>5. Cardinality(Missing) \in Nat
      BY <3>4, FS_CardinalityType
    <3> HIDE DEF Allowed
    <3> QED BY <2>1, <3>1, <3>3, <3>5
  <2>5. CASE pc \notin {"done", "dead"}
    <3>1. Cardinality(Missing \ Gap) <= crashes - 1
      BY <2>2, <2>5 DEF Gone, Allowed
    <3>2. PICK x : Missing \in SUBSET ((Missing \ Gap) \cup {x})
      BY <2>1, GapIsOne
    <3>3. Missing \ Gap \in SUBSET Lines /\ crashes - 1 \in Int /\ (crashes - 1) + 1 = crashes
      BY <2>1, <2>3
    <3>4. Cardinality(Missing) <= (crashes - 1) + 1
      BY <2>1, <3>1, <3>2, <3>3, OneMore
    <3> QED BY <3>3, <3>4
  <2> QED BY <2>4, <2>5
<1> QED BY ReloadInvariance, <1>1, PTL
=============================================================================
