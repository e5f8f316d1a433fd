----------------------------- MODULE OemListener -----------------------------
(***************************************************************************)
(* The listeners of netd's unsolicited events: OemNetdListener's map, its  *)
(* mutex, the calls that register a listener, and the death notices that   *)
(* remove one, each on a binder thread of its own.                         *)
(*                                                                         *)
(* A remote listener is a new proxy in every call, even for a binder netd  *)
(* knows already; a listener in netd's own process is the same object.  A  *)
(* call makes one death recipient, which has the call's name here.  Binder *)
(* keeps a weak pointer to it: it lives while the call or the map holds it.*)
(*                                                                         *)
(* A definition X_Y just before a definition X is X with a plausible       *)
(* mistake, Y.  No action uses one: the properties are tried against them. *)
(***************************************************************************)
EXTENDS Naturals

CONSTANTS
  Calls,       \* the calls of registerOemUnsolicitedEventListener
  Listeners,   \* the listeners they hand over, ...
  Listener,    \* ... which call which
  Clients,     \* the binders of the remote listeners, ...
  Client,      \* ... whose proxy which listener is; Netd for a local one
  Nested,      \* the call that a call's onRegistered makes, or Nobody
  Netd, Nobody

Remote == {k \in Listeners : Client[k] # Netd}

ASSUME ListenerAssumption ==
  /\ Listener \in [Calls -> Listeners] /\ Client \in [Listeners -> Clients \cup {Netd}]
  /\ Nested \in [Calls -> Calls \cup {Nobody}]
  /\ Netd \notin Clients /\ Nobody \notin Calls \cup ({"call", "died"} \X Calls)
  /\ \A c, d \in Calls : Listener[c] = Listener[d] /\ Listener[c] \in Remote => c = d
  /\ \A c, d \in Calls : Nested[c] = Nested[d] /\ Nested[c] # Nobody => c = d
  /\ \A c \in Calls : Nested[c] # Nobody => Client[Listener[Nested[c]]] = Client[Listener[c]]

ClientOf(c) == Client[Listener[c]]
Inner       == {Nested[c] : c \in Calls} \ {Nobody}

VARIABLES
  pc,                   \* of each call, where it is
  dpc,                  \* of each recipient, where its binderDied is
  mOemUnsolicitedMutex, \* who holds it: <<"call", c>>, <<"died", c>> or Nobody
  mOemUnsolicitedMap,   \* of each listener in it, the recipient; or Nobody
  alive,                \* the binders whose process lives, and netd itself
  obituaries,           \* the recipients linked to the death of their client
  sent,                 \* the clients whose death binder has reported, or ...
  notices,              \* ... is reporting, to these recipients still
  refused               \* the calls whose linkToDeath has failed

vars == <<pc, dpc, mOemUnsolicitedMutex, mOemUnsolicitedMap, alive, obituaries, sent, notices,
          refused>>
binderVars == <<alive, obituaries, sent, notices, refused>>

ListenerInit ==
  /\ pc = [c \in Calls |-> "idle"] /\ dpc = [c \in Calls |-> "none"]
  /\ mOemUnsolicitedMutex = Nobody
  /\ mOemUnsolicitedMap = [k \in Listeners |-> Nobody]
  /\ alive = Clients \cup {Netd} /\ obituaries = {} /\ sent = {} /\ notices = {} /\ refused = {}

MoveCall(c, from, to) == pc[c] = from /\ pc' = [pc EXCEPT ![c] = to]
MoveDied(c, from, to) == dpc[c] = from /\ dpc' = [dpc EXCEPT ![c] = to]

-----------------------------------------------------------------------------
(* registerOemUnsolicitedEventListener.                                    *)

(* A client calls while it lives; once begun a call goes on without it.    *)
Arrive(c) ==
  /\ c \notin Inner /\ ClientOf(c) \in alive
  /\ MoveCall(c, "idle", "lock")
  /\ UNCHANGED <<dpc, mOemUnsolicitedMutex, mOemUnsolicitedMap, binderVars>>

Lock(c) ==
  /\ MoveCall(c, "lock", "link")
  /\ mOemUnsolicitedMutex = Nobody /\ mOemUnsolicitedMutex' = <<"call", c>>
  /\ UNCHANGED <<dpc, mOemUnsolicitedMap, binderVars>>

(* A new recipient, and linkToDeath, whose result is ignored: it fails for *)
(* a local binder, and for one whose death has been reported already.      *)
LinkToDeath_OncePerClient(c) ==
  /\ MoveCall(c, "link", "insert")
  /\ IF ClientOf(c) \in sent \cup {Netd}
       THEN refused' = refused \cup {c} /\ UNCHANGED obituaries
       ELSE /\ obituaries' = IF \E k \in Listeners : Client[k] = ClientOf(c)
                                                    /\ mOemUnsolicitedMap[k] # Nobody
                             THEN obituaries ELSE obituaries \cup {c}
            /\ UNCHANGED refused
  /\ UNCHANGED <<dpc, mOemUnsolicitedMutex, mOemUnsolicitedMap, alive, sent, notices>>

LinkToDeath(c) ==
  /\ MoveCall(c, "link", "insert")
  /\ IF ClientOf(c) \in sent \cup {Netd}
       THEN refused' = refused \cup {c} /\ UNCHANGED obituaries
       ELSE obituaries' = obituaries \cup {c} /\ UNCHANGED refused
  /\ UNCHANGED <<dpc, mOemUnsolicitedMutex, mOemUnsolicitedMap, alive, sent, notices>>

(* insert keeps the entry that is there, and with it that one's recipient. *)
Insert(c) ==
  /\ MoveCall(c, "insert", "unlock")
  /\ mOemUnsolicitedMap' =
       [mOemUnsolicitedMap EXCEPT ![Listener[c]] = IF @ = Nobody THEN c ELSE @]
  /\ UNCHANGED <<dpc, mOemUnsolicitedMutex, binderVars>>

(* The end of the internal function: the call lets go of its recipient and *)
(* of the mutex.                                                           *)
Unlock_BeforeInsert(c) ==
  \/ /\ MoveCall(c, "insert", "unlock") /\ mOemUnsolicitedMutex' = Nobody
     /\ UNCHANGED <<dpc, mOemUnsolicitedMap, binderVars>>
  \/ /\ MoveCall(c, "unlock", "notify")
     /\ mOemUnsolicitedMap' =
          [mOemUnsolicitedMap EXCEPT ![Listener[c]] = IF @ = Nobody THEN c ELSE @]
     /\ UNCHANGED <<dpc, mOemUnsolicitedMutex, binderVars>>

Unlock_AfterOnRegistered(c) ==
  \/ /\ pc[c] = "unlock" /\ UNCHANGED mOemUnsolicitedMutex
     /\ pc' = IF Nested[c] = Nobody THEN [pc EXCEPT ![c] = "onRegistered"]
              ELSE [pc EXCEPT ![c] = "onRegistered", ![Nested[c]] = "lock"]
     /\ UNCHANGED <<dpc, mOemUnsolicitedMap, binderVars>>
  \/ /\ Nested[c] # Nobody => pc[Nested[c]] = "done"
     /\ MoveCall(c, "onRegistered", "done") /\ mOemUnsolicitedMutex' = Nobody
     /\ UNCHANGED <<dpc, mOemUnsolicitedMap, binderVars>>

Unlock(c) ==
  /\ MoveCall(c, "unlock", "notify")
  /\ mOemUnsolicitedMutex' = Nobody
  /\ UNCHANGED <<dpc, mOemUnsolicitedMap, binderVars>>

(* onRegistered, in which a client may call again before it returns: binder*)
(* runs that call on the same thread of netd.                              *)
OnRegistered(c) ==
  /\ \/ /\ ClientOf(c) \in alive /\ Nested[c] # Nobody
        /\ pc[c] = "notify" /\ pc' = [pc EXCEPT ![c] = "notified", ![Nested[c]] = "lock"]
     \/ MoveCall(c, "notify", "notified")
  /\ UNCHANGED <<dpc, mOemUnsolicitedMutex, mOemUnsolicitedMap, binderVars>>

Return(c) ==
  /\ Nested[c] # Nobody => pc[Nested[c]] \in {"idle", "done"}
  /\ MoveCall(c, "notified", "done")
  /\ UNCHANGED <<dpc, mOemUnsolicitedMutex, mOemUnsolicitedMap, binderVars>>

-----------------------------------------------------------------------------
(* Deaths, and what binder makes of them.                                  *)
Die(p) ==
  /\ p \in alive \cap Clients
  /\ alive' = alive \ {p}
  /\ UNCHANGED <<pc, dpc, mOemUnsolicitedMutex, mOemUnsolicitedMap, obituaries, sent, notices,
                 refused>>

Linked(p) == {c \in obituaries : ClientOf(c) = p}

(* Death is reported once; what is linked later is refused.                *)
SendObituary(p) ==
  /\ p \in Clients \ (alive \cup sent) /\ Linked(p) # {}
  /\ sent' = sent \cup {p}
  /\ notices' = notices \cup Linked(p) /\ obituaries' = obituaries \ Linked(p)
  /\ UNCHANGED <<pc, dpc, mOemUnsolicitedMutex, mOemUnsolicitedMap, alive, refused>>

(* The recipients of a death are told one after the other, by one thread;  *)
(* one that nobody holds any more is left out.                             *)
Held(c) == pc[c] \in {"insert", "unlock"} \/ mOemUnsolicitedMap[Listener[c]] = c

ReportDeath(c) ==
  /\ c \in notices
  /\ \A d \in Calls : ClientOf(d) = ClientOf(c) => dpc[d] \in {"none", "done"}
  /\ notices' = notices \ {c}
  /\ IF Held(c) THEN MoveDied(c, "none", "lock") ELSE UNCHANGED dpc
  /\ UNCHANGED <<pc, mOemUnsolicitedMutex, mOemUnsolicitedMap, alive, obituaries, sent, refused>>

(* binderDied: unregisterOemUnsolicitedEventListenerInternal.              *)
DiedLock(c) ==
  /\ MoveDied(c, "lock", "erase")
  /\ mOemUnsolicitedMutex = Nobody /\ mOemUnsolicitedMutex' = <<"died", c>>
  /\ UNCHANGED <<pc, mOemUnsolicitedMap, binderVars>>

Erase_All(c) ==
  /\ MoveDied(c, "erase", "unlock")
  /\ mOemUnsolicitedMap' = [k \in Listeners |-> Nobody]
  /\ UNCHANGED <<pc, mOemUnsolicitedMutex, binderVars>>

Erase(c) ==
  /\ MoveDied(c, "erase", "unlock")
  /\ mOemUnsolicitedMap' = [mOemUnsolicitedMap EXCEPT ![Listener[c]] = Nobody]
  /\ UNCHANGED <<pc, mOemUnsolicitedMutex, binderVars>>

DiedUnlock(c) ==
  /\ MoveDied(c, "unlock", "done")
  /\ mOemUnsolicitedMutex' = Nobody
  /\ UNCHANGED <<pc, mOemUnsolicitedMap, binderVars>>

-----------------------------------------------------------------------------
Register(c)   == Lock(c) \/ LinkToDeath(c) \/ Insert(c) \/ Unlock(c) \/ OnRegistered(c) \/ Return(c)
BinderDied(c) == DiedLock(c) \/ Erase(c) \/ DiedUnlock(c)

ListenerNext ==
  \/ \E c \in Calls : Arrive(c) \/ Register(c) \/ ReportDeath(c) \/ BinderDied(c)
  \/ \E p \in Clients : Die(p) \/ SendObituary(p)

ListenerSpec == ListenerInit /\ [][ListenerNext]_vars

(* Binder's threads run, and each of the few that wait for the mutex gets  *)
(* it; the kernel reports a death.  No client need die or call.            *)
ListenerFairSpec ==
  /\ ListenerSpec
  /\ \A c \in Calls : WF_vars(Register(c)) /\ WF_vars(ReportDeath(c)) /\ WF_vars(BinderDied(c))
  /\ \A p \in Clients : WF_vars(SendObituary(p))

-----------------------------------------------------------------------------
(* The types, and who is between lock and unlock: whoever the mutex says,  *)
(* and nobody else.                                                        *)
ListenerTypeOK ==
  /\ pc \in [Calls -> {"idle", "lock", "link", "insert", "unlock", "notify", "notified", "done"}]
  /\ dpc \in [Calls -> {"none", "lock", "erase", "unlock", "done"}]
  /\ mOemUnsolicitedMap \in [Listeners -> Calls \cup {Nobody}]
  /\ alive \subseteq Clients \cup {Netd} /\ sent \subseteq Clients
  /\ obituaries \subseteq Calls /\ notices \subseteq Calls /\ refused \subseteq Calls
  /\ \A c \in Calls :
       /\ pc[c] \in {"link", "insert", "unlock"} <=> mOemUnsolicitedMutex = <<"call", c>>
       /\ dpc[c] \in {"erase", "unlock"} <=> mOemUnsolicitedMutex = <<"died", c>>

(* Linking before inserting, both under the mutex, leaves no gap: whenever *)
(* a remote listener is in the map, its recipient is linked to a client    *)
(* that lives, or is about to remove it; only a listener whose binder was  *)
(* known to be dead when it was linked stays for good.                     *)
EntriesAreWatched ==
  \A k \in Remote : LET r == mOemUnsolicitedMap[k] IN r # Nobody =>
    \/ r \in obituaries \cup notices
    \/ dpc[r] \in {"lock", "erase"}
    \/ r \in refused /\ Client[k] \notin alive

(* A listener whose call has let go of the mutex is in the map as long as  *)
(* its client lives, whoever else calls or dies.                           *)
RegisteredIsKept ==
  \A c \in Calls : pc[c] \in {"notify", "notified", "done"} /\ ClientOf(c) \in alive =>
    mOemUnsolicitedMap[Listener[c]] # Nobody

(* onRegistered is called without the mutex: a client that calls again in  *)
(* it, or dies in it, blocks nobody; every call comes to its end.          *)
CallsReturn == \A c \in Calls : pc[c] = "lock" ~> pc[c] = "done"

(* The entries of a client that dies are removed, all of them, except one  *)
(* whose linkToDeath was refused; and none comes back.                     *)
DeadAreForgotten ==
  \A k \in Remote :
    <>(Client[k] \notin alive) =>
      <>[](mOemUnsolicitedMap[k] = Nobody \/ mOemUnsolicitedMap[k] \in refused)
=============================================================================
