---------------------------- MODULE MCOemListener ----------------------------
(* Calls for OemListener, small enough for TLC: a client registers twice,  *)
(* the second time from within onRegistered, another client once; netd     *)
(* itself registers the same listener twice, one within the other.  Each   *)
(* proxy has the name of its call.                                         *)
EXTENDS OemListener, TLC

MCCalls     == {"a1", "a2", "b1", "n1", "n2"}
MCListener  == [c \in MCCalls |-> IF c \in {"n1", "n2"} THEN "local" ELSE c]
MCListeners == {MCListener[c] : c \in MCCalls}
MCClient    == "b1" :> "B" @@ "local" :> "netd" @@ [k \in MCListeners |-> "A"]
MCNested    == "a1" :> "a2" @@ "n1" :> "n2" @@ [c \in MCCalls |-> Nobody]
=============================================================================
