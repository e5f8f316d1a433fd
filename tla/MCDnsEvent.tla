----------------------------- MODULE MCDnsEvent -----------------------------
(* Packets for DnsEvent, small enough for TLC: texts with no address to    *)
(* one more than fit, in datagrams that hold a NUL and in others, which    *)
(* may be read as any of them.                                             *)
EXTENDS DnsEvent

MCKeys   == Range(Fields) \cup {"IPAddresses"}
MCValues == Range(Fields) \cup {"Unknown"} \cup Addresses

Here  == CHOOSE a \in China : TRUE
There == CHOOSE a \in Elsewhere : TRUE
Texts == {<<>>, <<Here>>, <<There>>, <<Here, There>>, <<Here, There, Here>>}

Ended(fields, reading) == [fields |-> fields, ended |-> TRUE, readings |-> {reading}]
Open(fields) == [fields |-> fields, ended |-> FALSE, readings |-> Texts]

MCPackets ==
  {Ended("ok", <<Here, There>>), Ended("long", <<>>), Open("ok"), Open("bad")}
=============================================================================
