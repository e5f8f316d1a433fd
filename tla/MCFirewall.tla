----------------------------- MODULE MCFirewall -----------------------------
(* Rule files for Firewall, small enough for TLC.                          *)
EXTENDS Firewall

CONSTANTS r1, r2, r3

Header(word) == [words |-> {word}, rule |-> NoRule, delete |-> FALSE,
                 chars |-> 7, ending |-> 2]
Add(r)    == [words |-> {}, rule |-> r, delete |-> FALSE, chars |-> 20, ending |-> 2]
Delete(r) == [Add(r) EXCEPT !.delete = TRUE]

(* Each rule is deleted before it is added; filter is the default table,   *)
(* and two rules stand in two tables each.                                 *)
RuleFile == <<Delete(r3), Add(r3),
              Header("mangle"), Delete(r1), Add(r1), Delete(r2), Add(r2),
              Header("filter"), Delete(r1), Add(r1),
              Header("nat"), Delete(r3), Add(r3)>>

JustRules == {RuleFile}

(* The same, and with an empty last line too.                              *)
BlankLine == RuleFile \o <<[Add(NoRule) EXCEPT !.chars = 0, !.ending = 1]>>
AlsoBlank == {RuleFile, BlankLine}

(* A file in which a rule has "--to-destination".                          *)
NatInRule == {<<[Add(r1) EXCEPT !.words = {"nat"}], Add(r2)>>}

RefusesR2 == {Sent(Add(r2))}
=============================================================================
