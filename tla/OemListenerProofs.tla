-------------------------- MODULE OemListenerProofs --------------------------
(* Proofs about OemListener: for any calls, listeners and clients, nested  *)
(* as they may be.                                                         *)
EXTENDS OemListener, TLAPS

(* What binder tells of is dead: recipients are told, or refused, only     *)
(* after the death of their client.                                        *)
DeathInv ==
  /\ Netd \in alive /\ sent \cap alive = {}
  /\ \A c \in obituaries : ClientOf(c) # Netd
  /\ \A c \in notices : ClientOf(c) \notin alive
  /\ \A c \in Calls : dpc[c] # "none" => ClientOf(c) \notin alive
  /\ \A c \in refused : ClientOf(c) = Netd \/ ClientOf(c) \notin alive

(* A recipient that is in the map, or will be put there, is linked, or     *)
(* told, or refused.  It cannot have gone on to erase what is not inserted *)
(* yet, as its call has the mutex.                                         *)
Watched(c) == c \in obituaries \cup notices \cup refused \/ dpc[c] = "lock"

WatchInv ==
  /\ \A c \in Calls : pc[c] \in {"insert", "unlock"} => Watched(c)
  /\ \A k \in Listeners : LET r == mOemUnsolicitedMap[k] IN r # Nobody =>
       Listener[r] = k /\ (Watched(r) \/ dpc[r] = "erase")

(* What is registered is in the map already when the mutex is let go.      *)
KeptInv ==
  \A c \in Calls : pc[c] \in {"unlock", "notify", "notified", "done"} /\ ClientOf(c) \in alive =>
    mOemUnsolicitedMap[Listener[c]] # Nobody

(* A nested call begins in onRegistered, and not before.                   *)
NestedInv ==
  \A c \in Calls : Nested[c] # Nobody /\ pc[c] \notin {"notified", "done"} =>
    pc[Nested[c]] = "idle"

ListenerInv == ListenerTypeOK /\ DeathInv /\ WatchInv /\ KeptInv /\ NestedInv

-----------------------------------------------------------------------------
LEMMA InitListenerInv == ListenerInit => ListenerInv
BY ListenerAssumption
DEF ListenerInit, ListenerInv, ListenerTypeOK, DeathInv, WatchInv, KeptInv, NestedInv

LEMMA TypeStep == ListenerInv /\ [ListenerNext]_vars => ListenerTypeOK'
<1> SUFFICES ASSUME ListenerInv, [ListenerNext]_vars PROVE ListenerTypeOK'
  OBVIOUS
<1> USE ListenerAssumption
        DEF ListenerInv, ListenerTypeOK, MoveCall, MoveDied, binderVars
<1>1. ASSUME NEW c \in Calls, Arrive(c) PROVE ListenerTypeOK'
  BY <1>1 DEF Arrive
<1>2. ASSUME NEW c \in Calls, Lock(c) PROVE ListenerTypeOK'
  BY <1>2 DEF Lock
<1>3. ASSUME NEW c \in Calls, LinkToDeath(c) PROVE ListenerTypeOK'
  BY <1>3 DEF LinkToDeath
<1>4. ASSUME NEW c \in Calls, Insert(c) PROVE ListenerTypeOK'
  BY <1>4 DEF Insert
<1>5. ASSUME NEW c \in Calls, Unlock(c) PROVE ListenerTypeOK'
  BY <1>5 DEF Unlock
<1>6. ASSUME NEW c \in Calls, OnRegistered(c) PROVE ListenerTypeOK'
  BY <1>6 DEF OnRegistered, NestedInv
<1>7. ASSUME NEW c \in Calls, Return(c) PROVE ListenerTypeOK'
  BY <1>7 DEF Return
<1>8. ASSUME NEW p \in Clients, Die(p) \/ SendObituary(p) PROVE ListenerTypeOK'
  BY <1>8 DEF Die, SendObituary, Linked
<1>9. ASSUME NEW c \in Calls, ReportDeath(c) PROVE ListenerTypeOK'
  BY <1>9 DEF ReportDeath
<1>10. ASSUME NEW c \in Calls, DiedLock(c) PROVE ListenerTypeOK'
  BY <1>10 DEF DiedLock
<1>11. ASSUME NEW c \in Calls, Erase(c) PROVE ListenerTypeOK'
  BY <1>11 DEF Erase
<1>12. ASSUME NEW c \in Calls, DiedUnlock(c) PROVE ListenerTypeOK'
  BY <1>12 DEF DiedUnlock
<1>13. CASE UNCHANGED vars
  BY <1>13 DEF vars
<1> QED
  BY <1>1, <1>2, <1>3, <1>4, <1>5, <1>6, <1>7, <1>8, <1>9, <1>10, <1>11, <1>12, <1>13
  DEF ListenerNext, Register, BinderDied

LEMMA DeathStep == ListenerInv /\ [ListenerNext]_vars => DeathInv'
<1> SUFFICES ASSUME ListenerInv, [ListenerNext]_vars PROVE DeathInv'
  OBVIOUS
<1> USE ListenerAssumption
        DEF ListenerInv, ListenerTypeOK, DeathInv, ClientOf, MoveCall, MoveDied, binderVars
<1>1. ASSUME NEW c \in Calls, Arrive(c) PROVE DeathInv'
  BY <1>1 DEF Arrive
<1>2. ASSUME NEW c \in Calls, Lock(c) PROVE DeathInv'
  BY <1>2 DEF Lock
<1>3. ASSUME NEW c \in Calls, LinkToDeath(c) PROVE DeathInv'
  BY <1>3 DEF LinkToDeath
<1>4. ASSUME NEW c \in Calls, Insert(c) PROVE DeathInv'
  BY <1>4 DEF Insert
<1>5. ASSUME NEW c \in Calls, Unlock(c) PROVE DeathInv'
  BY <1>5 DEF Unlock
<1>6. ASSUME NEW c \in Calls, OnRegistered(c) PROVE DeathInv'
  BY <1>6 DEF OnRegistered
<1>7. ASSUME NEW c \in Calls, Return(c) PROVE DeathInv'
  BY <1>7 DEF Return
<1>8. ASSUME NEW p \in Clients, Die(p) PROVE DeathInv'
  BY <1>8 DEF Die
<1>9. ASSUME NEW p \in Clients, SendObituary(p) PROVE DeathInv'
  BY <1>9 DEF SendObituary, Linked
<1>10. ASSUME NEW c \in Calls, ReportDeath(c) PROVE DeathInv'
  BY <1>10 DEF ReportDeath, Held
<1>11. ASSUME NEW c \in Calls, DiedLock(c) PROVE DeathInv'
  BY <1>11 DEF DiedLock
<1>12. ASSUME NEW c \in Calls, Erase(c) PROVE DeathInv'
  BY <1>12 DEF Erase
<1>13. ASSUME NEW c \in Calls, DiedUnlock(c) PROVE DeathInv'
  BY <1>13 DEF DiedUnlock
<1>14. CASE UNCHANGED vars
  BY <1>14 DEF vars
<1> QED
  BY <1>1, <1>2, <1>3, <1>4, <1>5, <1>6, <1>7,
     <1>8, <1>9, <1>10, <1>11, <1>12, <1>13, <1>14
  DEF ListenerNext, Register, BinderDied

LEMMA WatchStep == ListenerInv /\ [ListenerNext]_vars => WatchInv'
<1> SUFFICES ASSUME ListenerInv, [ListenerNext]_vars PROVE WatchInv'
  OBVIOUS
<1> USE ListenerAssumption
        DEF ListenerInv, ListenerTypeOK, WatchInv, Watched, ClientOf, MoveCall, MoveDied, binderVars
<1>1. ASSUME NEW c \in Calls, Arrive(c) PROVE WatchInv'
  BY <1>1 DEF Arrive
<1>2. ASSUME NEW c \in Calls, Lock(c) PROVE WatchInv'
  BY <1>2 DEF Lock
<1>3. ASSUME NEW c \in Calls, LinkToDeath(c) PROVE WatchInv'
  BY <1>3 DEF LinkToDeath
<1>4. ASSUME NEW c \in Calls, Insert(c) PROVE WatchInv'
  BY <1>4 DEF Insert
<1>5. ASSUME NEW c \in Calls, Unlock(c) PROVE WatchInv'
  BY <1>5 DEF Unlock
<1>6. ASSUME NEW c \in Calls, OnRegistered(c) PROVE WatchInv'
  BY <1>6 DEF OnRegistered
<1>7. ASSUME NEW c \in Calls, Return(c) PROVE WatchInv'
  BY <1>7 DEF Return
<1>8. ASSUME NEW p \in Clients, Die(p) PROVE WatchInv'
  BY <1>8 DEF Die
<1>9. ASSUME NEW p \in Clients, SendObituary(p) PROVE WatchInv'
  BY <1>9 DEF SendObituary, Linked
<1>10. ASSUME NEW c \in Calls, ReportDeath(c) PROVE WatchInv'
  BY <1>10 DEF ReportDeath, Held
<1>11. ASSUME NEW c \in Calls, DiedLock(c) PROVE WatchInv'
  BY <1>11 DEF DiedLock
<1>12. ASSUME NEW c \in Calls, Erase(c) PROVE WatchInv'
  BY <1>12 DEF Erase
<1>13. ASSUME NEW c \in Calls, DiedUnlock(c) PROVE WatchInv'
  BY <1>13 DEF DiedUnlock
<1>14. CASE UNCHANGED vars
  BY <1>14 DEF vars
<1> QED
  BY <1>1, <1>2, <1>3, <1>4, <1>5, <1>6, <1>7,
     <1>8, <1>9, <1>10, <1>11, <1>12, <1>13, <1>14
  DEF ListenerNext, Register, BinderDied

LEMMA KeptStep == ListenerInv /\ [ListenerNext]_vars => KeptInv'
<1> SUFFICES ASSUME ListenerInv, [ListenerNext]_vars PROVE KeptInv'
  OBVIOUS
<1> USE ListenerAssumption
        DEF ListenerInv, ListenerTypeOK, DeathInv, KeptInv, WatchInv, ClientOf, MoveCall, MoveDied, binderVars
<1>1. ASSUME NEW c \in Calls, Arrive(c) PROVE KeptInv'
  BY <1>1 DEF Arrive
<1>2. ASSUME NEW c \in Calls, Lock(c) PROVE KeptInv'
  BY <1>2 DEF Lock
<1>3. ASSUME NEW c \in Calls, LinkToDeath(c) PROVE KeptInv'
  BY <1>3 DEF LinkToDeath
<1>4. ASSUME NEW c \in Calls, Insert(c) PROVE KeptInv'
  BY <1>4 DEF Insert
<1>5. ASSUME NEW c \in Calls, Unlock(c) PROVE KeptInv'
  BY <1>5 DEF Unlock
<1>6. ASSUME NEW c \in Calls, OnRegistered(c) PROVE KeptInv'
  BY <1>6 DEF OnRegistered
<1>7. ASSUME NEW c \in Calls, Return(c) PROVE KeptInv'
  BY <1>7 DEF Return
<1>8. ASSUME NEW p \in Clients, Die(p) PROVE KeptInv'
  BY <1>8 DEF Die
<1>9. ASSUME NEW p \in Clients, SendObituary(p) PROVE KeptInv'
  BY <1>9 DEF SendObituary, Linked
<1>10. ASSUME NEW c \in Calls, ReportDeath(c) PROVE KeptInv'
  BY <1>10 DEF ReportDeath, Held
<1>11. ASSUME NEW c \in Calls, DiedLock(c) PROVE KeptInv'
  BY <1>11 DEF DiedLock
<1>12. ASSUME NEW c \in Calls, Erase(c) PROVE KeptInv'
  BY <1>12 DEF Erase
<1>13. ASSUME NEW c \in Calls, DiedUnlock(c) PROVE KeptInv'
  BY <1>13 DEF DiedUnlock
<1>14. CASE UNCHANGED vars
  BY <1>14 DEF vars
<1> QED
  BY <1>1, <1>2, <1>3, <1>4, <1>5, <1>6, <1>7,
     <1>8, <1>9, <1>10, <1>11, <1>12, <1>13, <1>14
  DEF ListenerNext, Register, BinderDied

LEMMA NestedStep == ListenerInv /\ [ListenerNext]_vars => NestedInv'
<1> SUFFICES ASSUME ListenerInv, [ListenerNext]_vars PROVE NestedInv'
  OBVIOUS
<1> USE ListenerAssumption
        DEF ListenerInv, ListenerTypeOK, NestedInv, Inner, MoveCall, MoveDied, binderVars
<1>1. ASSUME NEW c \in Calls, Arrive(c) PROVE NestedInv'
  BY <1>1 DEF Arrive
<1>2. ASSUME NEW c \in Calls, Lock(c) PROVE NestedInv'
  BY <1>2 DEF Lock
<1>3. ASSUME NEW c \in Calls, LinkToDeath(c) PROVE NestedInv'
  BY <1>3 DEF LinkToDeath
<1>4. ASSUME NEW c \in Calls, Insert(c) PROVE NestedInv'
  BY <1>4 DEF Insert
<1>5. ASSUME NEW c \in Calls, Unlock(c) PROVE NestedInv'
  BY <1>5 DEF Unlock
<1>6. ASSUME NEW c \in Calls, OnRegistered(c) PROVE NestedInv'
  BY <1>6 DEF OnRegistered
<1>7. ASSUME NEW c \in Calls, Return(c) PROVE NestedInv'
  BY <1>7 DEF Return
<1>8. ASSUME NEW p \in Clients, Die(p) PROVE NestedInv'
  BY <1>8 DEF Die
<1>9. ASSUME NEW p \in Clients, SendObituary(p) PROVE NestedInv'
  BY <1>9 DEF SendObituary, Linked
<1>10. ASSUME NEW c \in Calls, ReportDeath(c) PROVE NestedInv'
  BY <1>10 DEF ReportDeath, Held
<1>11. ASSUME NEW c \in Calls, DiedLock(c) PROVE NestedInv'
  BY <1>11 DEF DiedLock
<1>12. ASSUME NEW c \in Calls, Erase(c) PROVE NestedInv'
  BY <1>12 DEF Erase
<1>13. ASSUME NEW c \in Calls, DiedUnlock(c) PROVE NestedInv'
  BY <1>13 DEF DiedUnlock
<1>14. CASE UNCHANGED vars
  BY <1>14 DEF vars
<1> QED
  BY <1>1, <1>2, <1>3, <1>4, <1>5, <1>6, <1>7,
     <1>8, <1>9, <1>10, <1>11, <1>12, <1>13, <1>14
  DEF ListenerNext, Register, BinderDied

-----------------------------------------------------------------------------
(* The inductive invariant of the listener map.                            *)
THEOREM ListenerInvariance == ListenerSpec => []ListenerInv
<1>1. ListenerInit => ListenerInv
  BY InitListenerInv
<1>2. ListenerInv /\ [ListenerNext]_vars => ListenerInv'
  BY TypeStep, DeathStep, WatchStep, KeptStep, NestedStep DEF ListenerInv
<1> QED
  BY <1>1, <1>2, PTL DEF ListenerSpec

(* Every variable keeps its type, and a thread is between lock_guard and   *)
(* the end of its block exactly when it has the mutex.                     *)
THEOREM ListenerTypeCorrect == ListenerSpec => []ListenerTypeOK
<1>1. ListenerInv => ListenerTypeOK
  BY DEF ListenerInv
<1> QED
  BY <1>1, ListenerInvariance, PTL

(* Whatever listeners are registered, together or within each other, and   *)
(* whenever their clients die: an entry of the map whose client can die is *)
(* watched, or being removed, or was refused by a binder already dead.     *)
THEOREM WatchedCorrect == ListenerSpec => []EntriesAreWatched
<1>1. ListenerInv => EntriesAreWatched
  BY ListenerAssumption
  DEF ListenerInv, ListenerTypeOK, DeathInv, WatchInv, Watched, ClientOf, Remote, EntriesAreWatched
<1> QED
  BY <1>1, ListenerInvariance, PTL

(* No death of another client and no other call takes a registered         *)
(* listener out of the map.                                                *)
THEOREM KeptCorrect == ListenerSpec => []RegisteredIsKept
<1>1. ListenerInv => RegisteredIsKept
  BY DEF ListenerInv, KeptInv, RegisteredIsKept
<1> QED
  BY <1>1, ListenerInvariance, PTL
=============================================================================
