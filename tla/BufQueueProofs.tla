--------------------------- MODULE BufQueueProofs ---------------------------
(***************************************************************************)
(* Proofs about BufQueue, for any number of producers and consumers, any   *)
(* packets, any MAX_PCK and any amount of memory.                          *)
(*                                                                         *)
(* IInv is inductive.  Each of its conjuncts has a lemma saying that Next  *)
(* preserves it, with a case per action that can disturb it: TypeStep,     *)
(* MutexStep, HandStep, OwnerStep, CountStep, ListStep.  The theorems that *)
(* follow are consequences of IInv; Refinement uses it to show that every  *)
(* step of the queue is a step of PacketFifo, or changes nothing in it.    *)
(***************************************************************************)
EXTENDS BufQueueInv, FiniteSetTheorems, WellFoundedInduction, TLAPS

USE DEF Threads, ProducerHand, ConsumerHand

Labels == ProducerLabels \cup ConsumerLabels

(* The empty queue satisfies the invariant.                                *)
LEMMA InitInv == Init => IInv
<1> SUFFICES ASSUME Init PROVE IInv OBVIOUS
<1> USE ThreadsAssumption, DataAssumption DEF Init
<1>1. TypeOK
  BY DEF TypeOK, Pointer, ProducerLabels, ConsumerLabels, OfferLabels
<1>2. MutualExclusion
  <2>1. \A t \in Threads : pc[t] \in {"recv", "empty_lock"}
    OBVIOUS
  <2>2. \A t \in Threads : ~InCritical(t)
    BY <2>1 DEF InCritical, CriticalLabels, UnlockLabels, HandLabels, PopHandLabels
  <2> QED BY <2>2 DEF MutualExclusion
<1>3. HandInv
  BY DEF HandInv, OfferLabels, HandLabels, PopHandLabels
<1>4. EveryNodeHasOneOwner
  BY DEF EveryNodeHasOneOwner, Holders, Holding, ToSet
<1>5. ListInv
  BY DEF ListInv, Settled, PushStage, PopStage
<1>6. CountInv
  <2>1. Passed = {}
    BY DEF Passed, HandLabels
  <2>2. Cardinality(Passed) = 0
    BY <2>1, FS_EmptySet
  <2>3. Cardinality(Producers) \in Nat
    BY FS_CardinalityType
  <2> QED BY <2>2, <2>3 DEF CountInv
<1> QED BY <1>1, <1>2, <1>3, <1>4, <1>5, <1>6 DEF IInv

(* Only AtomicLock and AtomicUnlock move a thread into or out of the       *)
(* critical section; every other step stays on its side of it.             *)
LEMMA MutexStep == IInv /\ Next => MutualExclusion'
<1> SUFFICES ASSUME TypeOK, MutualExclusion, Next PROVE MutualExclusion'
  BY DEF IInv
<1> USE DEF TypeOK, Goto
<1>1. ASSUME NEW t \in Threads, NEW l \in Labels, pc' = [pc EXCEPT ![t] = l],
             lock' = lock, pc[t] \in CriticalLabels <=> l \in CriticalLabels
      PROVE  MutualExclusion'
  BY <1>1 DEF MutualExclusion, InCritical
<1> HIDE DEF TypeOK
<1>2. ASSUME NEW t \in Threads, AtomicLock(t) PROVE MutualExclusion'
  <2>1. AfterLock(pc[t]) \in CriticalLabels /\ pc[t] \notin CriticalLabels
    BY <1>2 DEF AtomicLock, AfterLock, LockLabels, CriticalLabels, UnlockLabels, HandLabels, PopHandLabels
  <2> QED BY <1>2, <2>1 DEF AtomicLock, MutualExclusion, InCritical, TypeOK
<1>3. ASSUME NEW t \in Threads, AtomicUnlock(t) PROVE MutualExclusion'
  <2>1. AfterUnlock(t) \notin CriticalLabels /\ pc[t] \in CriticalLabels
    BY <1>3 DEF AtomicUnlock, AfterUnlock, CriticalLabels, UnlockLabels, HandLabels, PopHandLabels
  <2> QED BY <1>3, <2>1 DEF AtomicUnlock, MutualExclusion, InCritical, TypeOK
<1> USE <1>1 DEF Labels, ProducerLabels, ConsumerLabels, OfferLabels, CriticalLabels,
                UnlockLabels, HandLabels, PopHandLabels
<1>4. ASSUME NEW t \in Threads, ReadSize(t) PROVE MutualExclusion'
  BY <1>4 DEF ReadSize
<1>5. ASSUME NEW p \in Producers,
             Receive(p) \/ ReceiveFails(p) \/ LogSize(p) \/ Reject(p) \/ Allocate(p)
      PROVE  MutualExclusion'
  BY <1>5 DEF Receive, ReceiveFails, LogSize, Reject, Allocate
<1>6. ASSUME NEW p \in Producers, Push(p) PROVE MutualExclusion'
  BY <1>6 DEF Push, PushTest, PushPrev, PushNext, PushTail, PushFirstTail,
              PushFirstHead, PushFirstLinks, PushSize, PushLen
<1>7. ASSUME NEW c \in Consumers, Pop(c) PROVE MutualExclusion'
  BY <1>7 DEF Pop, PopTest, PopNode, PopSize, PopHead, PopPrev, PopLastTail,
              PopLastHead, PopLinks, PopLen
<1>8. ASSUME NEW c \in Consumers, Process(c) \/ Free(c) PROVE MutualExclusion'
  BY <1>8 DEF Process, Free
<1> QED BY <1>2, <1>3, <1>4, <1>5, <1>6, <1>7, <1>8 DEF Next, Work

(* The fields read through a pointer have their types because the pointer  *)
(* is to a node: HandInv for a thread's own node, PopStage for the list.   *)
LEMMA TypeStep == IInv /\ Next => TypeOK'
<1> SUFFICES ASSUME IInv, Next PROVE TypeOK'
  OBVIOUS
<1> USE DataAssumption, ThreadsAssumption DEF TypeOK, Goto, Pointer,
      ProducerLabels, ConsumerLabels, OfferLabels,
      UnlockLabels, HandLabels, PopHandLabels,
      lockVars, listVars, nodeVars, localVars
<1>0. TypeOK /\ HandInv /\ ListInv /\ CountInv /\ EveryNodeHasOneOwner
  BY DEF IInv
<1>1. ASSUME NEW t \in Threads, AtomicLock(t) PROVE TypeOK'
  <2> DEFINE l == AfterLock(pc[t])
  <2>1. pc' = [pc EXCEPT ![t] = l] /\ lock' = 1
    BY <1>1 DEF AtomicLock
  <2>2. CASE t \in Producers
    <3>1. pc[t] \in {"size_lock", "push_lock", "log_lock"}
      BY <1>0, <1>1, <2>2 DEF AtomicLock, LockLabels
    <3>2. l \in ProducerLabels BY <3>1 DEF AfterLock
    <3> HIDE DEF l, ProducerLabels, ConsumerLabels
    <3>3. /\ pc' \in [Threads -> ProducerLabels \cup ConsumerLabels]
          /\ \A p \in Producers : pc'[p] \in ProducerLabels
          /\ \A c \in Consumers : pc'[c] \in ConsumerLabels
      BY <1>0, <2>1, <2>2, <3>2
    <3> QED BY <1>0, <1>1, <2>1, <3>3 DEF AtomicLock
  <2>3. CASE t \in Consumers
    <3>1. pc[t] \in {"empty_lock", "pop_lock"}
      BY <1>0, <1>1, <2>3 DEF AtomicLock, LockLabels
    <3>2. l \in ConsumerLabels BY <3>1 DEF AfterLock
    <3> HIDE DEF l, ProducerLabels, ConsumerLabels
    <3>3. /\ pc' \in [Threads -> ProducerLabels \cup ConsumerLabels]
          /\ \A p \in Producers : pc'[p] \in ProducerLabels
          /\ \A c \in Consumers : pc'[c] \in ConsumerLabels
      BY <1>0, <2>1, <2>3, <3>2
    <3> QED BY <1>0, <1>1, <2>1, <3>3 DEF AtomicLock
  <2> QED BY <2>2, <2>3
<1>2. ASSUME NEW t \in Threads, AtomicUnlock(t) PROVE TypeOK'
  BY <1>0, <1>2 DEF AtomicUnlock, AfterUnlock
<1>3. ASSUME NEW t \in Threads, ReadSize(t) PROVE TypeOK'
  <2>1. CASE Goto(t, "size_read", "size_unlock")
    <3>1. t \in Producers BY <1>0, <2>1
    <3> QED BY <1>0, <1>3, <2>1, <3>1 DEF ReadSize
  <2>2. CASE Goto(t, "empty_read", "empty_unlock")
    <3>1. t \in Consumers BY <1>0, <2>2
    <3> QED BY <1>0, <1>3, <2>2, <3>1 DEF ReadSize
  <2> QED BY <1>3, <2>1, <2>2 DEF ReadSize
<1>4. ASSUME NEW p \in Producers,
             Receive(p) \/ ReceiveFails(p) \/ LogSize(p) \/ Reject(p)
      PROVE  TypeOK'
  <2>1. CASE Receive(p) BY <1>0, <2>1 DEF Receive
  <2>2. CASE ReceiveFails(p) BY <1>0, <2>2 DEF ReceiveFails
  <2>3. CASE LogSize(p) BY <1>0, <2>3 DEF LogSize
  <2>4. CASE Reject(p) BY <1>0, <2>4 DEF Reject
  <2> QED BY <1>4, <2>1, <2>2, <2>3, <2>4
<1>5. ASSUME NEW p \in Producers, Allocate(p) PROVE TypeOK'
  BY <1>0, <1>5 DEF Allocate
<1>6. ASSUME NEW p \in Producers, Push(p) PROVE TypeOK'
  <2>1. CASE PushTest(p) BY <1>0, <2>1 DEF PushTest
  <2>2. CASE PushPrev(p) BY <1>0, <2>2 DEF PushPrev
  <2>3. CASE PushNext(p) BY <1>0, <2>3 DEF PushNext
  <2>4. CASE PushTail(p) BY <1>0, <2>4 DEF PushTail
  <2>5. CASE PushFirstTail(p) BY <1>0, <2>5 DEF PushFirstTail
  <2>6. CASE PushFirstHead(p) BY <1>0, <2>6 DEF PushFirstHead
  <2>7. CASE PushFirstLinks(p) BY <1>0, <2>7 DEF PushFirstLinks
  <2>8. CASE PushSize(p)
    <3>1. node[p] \in Node BY <1>0, <2>8 DEF PushSize, HandInv
    <3> QED BY <1>0, <2>8, <3>1 DEF PushSize
  <2>9. CASE PushLen(p)
    <3>1. node[p] \in Node /\ data[node[p]] \in Packets
      BY <1>0, <2>9 DEF PushLen, HandInv, Last1, EveryNodeHasOneOwner, ToSet
    <3> QED BY <1>0, <2>9, <3>1 DEF PushLen, MAX_LEN
  <2> QED BY <1>6, <2>1, <2>2, <2>3, <2>4, <2>5, <2>6, <2>7, <2>8, <2>9 DEF Push
<1>7. ASSUME NEW c \in Consumers, Pop(c) PROVE TypeOK'
  <2>1. CASE PopTest(c)
    <3>1. pc' \in [Threads -> ProducerLabels \cup ConsumerLabels]
      BY <1>0, <2>1 DEF PopTest
    <3>2. \A d \in Consumers : pc'[d] \in ConsumerLabels
      BY <1>0, <2>1 DEF PopTest
    <3>3. \A p \in Producers : pc'[p] \in ProducerLabels
      BY <1>0, <2>1 DEF PopTest
    <3> HIDE DEF ProducerLabels, ConsumerLabels
    <3> QED BY <1>0, <2>1, <3>1, <3>2, <3>3 DEF PopTest
  <2>2. CASE PopNode(c) BY <1>0, <2>2 DEF PopNode
  <2>3. CASE PopSize(c)
    <3>1. order # <<>> BY <1>0, <2>3 DEF PopSize, ListInv, PopStage
    <3>2. Tail(order) \in Seq(Node) BY <1>0, <3>1
    <3>3. pc' \in [Threads -> ProducerLabels \cup ConsumerLabels]
      BY <1>0, <2>3 DEF PopSize
    <3>4. \A d \in Consumers : pc'[d] \in ConsumerLabels
      BY <1>0, <2>3 DEF PopSize
    <3>5. \A p \in Producers : pc'[p] \in ProducerLabels
      BY <1>0, <2>3 DEF PopSize
    <3>6. size' \in Int /\ order' \in Seq(Node) BY <1>0, <2>3, <3>2 DEF PopSize
    <3> HIDE DEF ProducerLabels, ConsumerLabels
    <3> QED BY <1>0, <2>3, <3>3, <3>4, <3>5, <3>6 DEF PopSize
  <2>4. CASE PopHead(c)
    <3>1. node[c] \in Node BY <1>0, <2>4 DEF PopHead, HandInv
    <3> QED BY <1>0, <2>4, <3>1 DEF PopHead
  <2>5. CASE PopPrev(c) BY <1>0, <2>5 DEF PopPrev
  <2>6. CASE PopLastTail(c) BY <1>0, <2>6 DEF PopLastTail
  <2>7. CASE PopLastHead(c) BY <1>0, <2>7 DEF PopLastHead
  <2>8. CASE PopLinks(c) BY <1>0, <2>8 DEF PopLinks
  <2>9. CASE PopLen(c)
    <3>1. node[c] \in Node /\ pc[c] = "pop_len" BY <1>0, <2>9 DEF PopLen, HandInv
    <3>2. c \in Holders BY <3>1 DEF Holders, Holding
    <3>3. data[node[c]] \in Packets
      BY <1>0, <3>2 DEF HandInv, EveryNodeHasOneOwner
    <3> QED BY <1>0, <2>9, <3>1, <3>3 DEF PopLen, MAX_LEN
  <2> QED BY <1>7, <2>1, <2>2, <2>3, <2>4, <2>5, <2>6, <2>7, <2>8, <2>9 DEF Pop
<1>8. ASSUME NEW c \in Consumers, Process(c) PROVE TypeOK'
  BY <1>0, <1>8 DEF Process
<1>9. ASSUME NEW c \in Consumers, Free(c) PROVE TypeOK'
  BY <1>0, <1>9 DEF Free
<1> QED BY <1>1, <1>2, <1>3, <1>4, <1>5, <1>6, <1>7, <1>8, <1>9 DEF Next, Work

(* What a thread has in its hands, followed from malloc to the list and    *)
(* from the list to free.                                                  *)
LEMMA HandStep == IInv /\ Next => HandInv'
<1> SUFFICES ASSUME IInv, Next PROVE HandInv'
  OBVIOUS
<1> USE DataAssumption, ThreadsAssumption DEF Goto,
      lockVars, listVars, nodeVars, localVars
<1>0. TypeOK /\ HandInv /\ MutualExclusion /\ ListInv /\ EveryNodeHasOneOwner
  BY DEF IInv
(* A step of thread t that writes no packet and no order. *)
<1>f. ASSUME NEW t \in Threads,
             \A u \in Threads \ {t} : pc'[u] = pc[u] /\ node'[u] = node[u],
             \A q \in Producers \ {t} : buf'[q] = buf[q],
             data' = data, order' = order, alloc' \subseteq alloc,
             t \in Producers => ProducerHand(t)',
             t \in Consumers => ConsumerHand(t)'
      PROVE  HandInv'
  <2> HIDE DEF TypeOK
  <2>1. ASSUME NEW q \in Producers, q # t PROVE ProducerHand(q)'
    <3>1. ProducerHand(q) BY <1>0 DEF HandInv
    <3>2. pc'[q] = pc[q] /\ node'[q] = node[q] /\ buf'[q] = buf[q]
      BY <1>f, <2>1
    <3> QED BY <1>f, <3>1, <3>2
  <2>2. ASSUME NEW c \in Consumers, c # t PROVE ConsumerHand(c)'
    <3>1. ConsumerHand(c) BY <1>0 DEF HandInv
    <3>2. pc'[c] = pc[c] /\ node'[c] = node[c] BY <1>f, <2>2
    <3> QED BY <3>1, <3>2
  <2>3. \A n \in alloc' : data'[n] \in Packets BY <1>0, <1>f DEF HandInv
  <2> HIDE DEF ProducerHand, ConsumerHand
  <2> QED BY <1>f, <2>1, <2>2, <2>3 DEF HandInv
<1>1. ASSUME NEW t \in Threads, AtomicLock(t) PROVE HandInv'
  <2>1. /\ pc' = [pc EXCEPT ![t] = AfterLock(pc[t])] /\ pc[t] \in LockLabels
        /\ node' = node /\ buf' = buf /\ data' = data /\ alloc' = alloc /\ order' = order
    BY <1>1 DEF AtomicLock
  <2>2. t \in Producers => ProducerHand(t)'
    <3>1. SUFFICES ASSUME t \in Producers PROVE ProducerHand(t)'
      OBVIOUS
    <3>2. pc[t] \in {"size_lock", "push_lock", "log_lock"} /\ ProducerHand(t)
      BY <1>0, <2>1, <3>1 DEF LockLabels, ProducerLabels, TypeOK, OfferLabels, HandLabels, HandInv
    <3>3. pc'[t] = AfterLock(pc[t]) BY <1>0, <2>1 DEF TypeOK
    <3>4. AfterLock(pc[t]) = CASE pc[t] = "size_lock" -> "size_read"
                               [] pc[t] = "push_lock" -> "push_test"
                               [] pc[t] = "log_lock" -> "log_read"
      BY <3>2 DEF AfterLock
    <3> QED BY <2>1, <3>2, <3>3, <3>4 DEF OfferLabels, HandLabels
  <2>3. t \in Consumers => ConsumerHand(t)'
    <3>1. SUFFICES ASSUME t \in Consumers PROVE ConsumerHand(t)'
      OBVIOUS
    <3>2. pc[t] \in {"empty_lock", "pop_lock"} /\ ConsumerHand(t)
      BY <1>0, <2>1, <3>1 DEF LockLabels, ConsumerLabels, TypeOK, PopHandLabels, HandInv
    <3>3. pc'[t] = AfterLock(pc[t]) BY <1>0, <2>1 DEF TypeOK
    <3>4. AfterLock(pc[t]) = CASE pc[t] = "empty_lock" -> "empty_read"
                               [] pc[t] = "pop_lock" -> "pop_test"
      BY <3>2 DEF AfterLock
    <3> QED BY <2>1, <3>2, <3>3, <3>4 DEF PopHandLabels
  <2>4. \A u \in Threads \ {t} : pc'[u] = pc[u] BY <1>0, <2>1 DEF TypeOK
  <2> HIDE DEF ProducerHand, ConsumerHand
  <2> QED BY <1>f, <2>1, <2>2, <2>3, <2>4
<1>2. ASSUME NEW t \in Threads, AtomicUnlock(t) PROVE HandInv'
  <2>1. /\ pc' = [pc EXCEPT ![t] = AfterUnlock(t)] /\ pc[t] \in UnlockLabels
        /\ node' = node /\ buf' = buf /\ data' = data /\ alloc' = alloc /\ order' = order
    BY <1>2 DEF AtomicUnlock
  <2>2. t \in Producers => ProducerHand(t)'
    <3>1. SUFFICES ASSUME t \in Producers PROVE ProducerHand(t)'
      OBVIOUS
    <3>2. pc[t] \in {"size_unlock", "push_unlock", "log_unlock"} /\ ProducerHand(t)
      BY <1>0, <2>1, <3>1 DEF UnlockLabels, ProducerLabels, TypeOK, OfferLabels, HandLabels, HandInv
    <3>3. pc'[t] = AfterUnlock(t) BY <1>0, <2>1 DEF TypeOK
    <3>4. /\ pc[t] = "size_unlock" => AfterUnlock(t) \in {"recv", "enqueue"}
          /\ pc[t] = "push_unlock" => AfterUnlock(t) = "log_lock"
          /\ pc[t] = "log_unlock" => AfterUnlock(t) = "recv"
      BY <3>2 DEF AfterUnlock
    <3> QED BY <2>1, <3>2, <3>3, <3>4 DEF OfferLabels, HandLabels
  <2>3. t \in Consumers => ConsumerHand(t)'
    <3>1. SUFFICES ASSUME t \in Consumers PROVE ConsumerHand(t)'
      OBVIOUS
    <3>2. pc[t] \in {"empty_unlock", "pop_unlock"} /\ ConsumerHand(t)
      BY <1>0, <2>1, <3>1 DEF UnlockLabels, ConsumerLabels, TypeOK, PopHandLabels, HandInv
    <3>3. pc'[t] = AfterUnlock(t) BY <1>0, <2>1 DEF TypeOK
    <3>4. /\ pc[t] = "empty_unlock" => AfterUnlock(t) \in {"empty_lock", "pop_lock"}
          /\ pc[t] = "pop_unlock" => AfterUnlock(t) = IF node[t] = NULL THEN "empty_lock" ELSE "process"
      BY <3>2 DEF AfterUnlock
    <3> QED BY <2>1, <3>2, <3>3, <3>4 DEF PopHandLabels
  <2>4. \A u \in Threads \ {t} : pc'[u] = pc[u] BY <1>0, <2>1 DEF TypeOK
  <2> HIDE DEF ProducerHand, ConsumerHand
  <2> QED BY <1>f, <2>1, <2>2, <2>3, <2>4
(* A step that moves t between two labels with the same hand. *)
<1>g. ASSUME NEW t \in Threads, NEW l,
             pc' = [pc EXCEPT ![t] = l], node' = node, data' = data,
             order' = order, alloc' = alloc, buf' = buf,
             t \in Producers => ProducerHand(t)',
             t \in Consumers => ConsumerHand(t)'
      PROVE  HandInv'
  <2>1. \A u \in Threads \ {t} : pc'[u] = pc[u] BY <1>0, <1>g DEF TypeOK
  <2> HIDE DEF ProducerHand, ConsumerHand
  <2> QED BY <1>f, <1>g, <2>1
<1>3. ASSUME NEW t \in Threads, ReadSize(t) PROVE HandInv'
  <2>1. /\ node' = node /\ buf' = buf /\ data' = data /\ alloc' = alloc /\ order' = order
        /\ \/ pc[t] = "size_read" /\ pc' = [pc EXCEPT ![t] = "size_unlock"]
           \/ pc[t] = "empty_read" /\ pc' = [pc EXCEPT ![t] = "empty_unlock"]
    BY <1>3 DEF ReadSize
  <2>2. t \in Producers => ProducerHand(t)'
    <3>1. SUFFICES ASSUME t \in Producers PROVE ProducerHand(t)' OBVIOUS
    <3>2. pc[t] = "size_read" /\ pc'[t] = "size_unlock" /\ ProducerHand(t)
      BY <1>0, <2>1, <3>1 DEF TypeOK, ProducerLabels, OfferLabels, HandLabels, HandInv
    <3> QED BY <2>1, <3>2 DEF OfferLabels, HandLabels
  <2>3. t \in Consumers => ConsumerHand(t)'
    <3>1. SUFFICES ASSUME t \in Consumers PROVE ConsumerHand(t)' OBVIOUS
    <3>2. pc[t] = "empty_read" /\ pc'[t] = "empty_unlock" /\ ConsumerHand(t)
      BY <1>0, <2>1, <3>1 DEF TypeOK, ConsumerLabels, PopHandLabels, HandInv
    <3> QED BY <2>1, <3>2 DEF PopHandLabels
  <2> HIDE DEF ProducerHand, ConsumerHand
  <2> QED BY <1>g, <2>1, <2>2, <2>3
<1>4. ASSUME NEW p \in Producers,
             Receive(p) \/ ReceiveFails(p) \/ LogSize(p) \/ Reject(p)
      PROVE  HandInv'
  <2>1. PICK l \in {"size_lock", "stopped", "log_unlock", "recv"} :
          /\ pc' = [pc EXCEPT ![p] = l] /\ node' = node /\ data' = data
          /\ order' = order /\ alloc' = alloc
          /\ \A q \in Producers \ {p} : buf'[q] = buf[q]
          /\ l = "size_lock" => buf'[p] \in Packets
    BY <1>0, <1>4 DEF Receive, ReceiveFails, LogSize, Reject, TypeOK
  <2>2. pc[p] \in {"recv", "log_read", "enqueue"}
    BY <1>4 DEF Receive, ReceiveFails, LogSize, Reject
  <2>3. node[p] = NULL
    BY <1>0, <2>2 DEF HandInv, HandLabels
  <2>4. ProducerHand(p)'
    BY <1>0, <2>1, <2>3 DEF OfferLabels, HandLabels, TypeOK
  <2>5. \A u \in Threads \ {p} : pc'[u] = pc[u] BY <1>0, <2>1 DEF TypeOK
  <2> HIDE DEF ProducerHand, ConsumerHand
  <2> QED BY <1>f, <2>1, <2>4, <2>5
<1>5. ASSUME NEW p \in Producers, Allocate(p) PROVE HandInv'
  <2>1. PICK n \in Node \ alloc :
          /\ alloc' = alloc \cup {n} /\ node' = [node EXCEPT ![p] = n]
          /\ data' = [data EXCEPT ![n] = buf[p]]
    BY <1>5 DEF Allocate
  <2>2. /\ pc[p] = "enqueue" /\ pc' = [pc EXCEPT ![p] = "push_lock"]
        /\ buf' = buf /\ order' = order
    BY <1>5 DEF Allocate
  <2>3. node'[p] = n /\ data'[n] = buf[p] /\ pc'[p] = "push_lock" /\ buf[p] \in Packets
    BY <1>0, <2>1, <2>2 DEF TypeOK, HandInv, OfferLabels
  <2>4. \A t \in Threads \ {p} : pc'[t] = pc[t] /\ node'[t] = node[t]
    BY <1>0, <2>1, <2>2 DEF TypeOK
  <2>5. \A m \in alloc : data'[m] = data[m]
    BY <1>0, <2>1 DEF TypeOK
  <2>6. ASSUME NEW q \in Producers, q # p PROVE ProducerHand(q)'
    <3>1. ProducerHand(q) BY <1>0 DEF HandInv
    <3>2. pc'[q] = pc[q] /\ node'[q] = node[q] BY <2>4, <2>6
    <3>3. pc[q] \in HandLabels => data'[node[q]] = data[node[q]]
      <4>1. SUFFICES ASSUME pc[q] \in HandLabels PROVE node[q] \in alloc
        BY <2>5
      <4>2. node[q] # NULL /\ pc[q] \notin {"push_len", "pop_size"}
        BY <3>1, <4>1 DEF HandLabels
      <4>3. q \in Holders BY <4>2 DEF Holders, Holding
      <4> QED BY <1>0, <4>3 DEF EveryNodeHasOneOwner
    <3> QED BY <2>2, <3>1, <3>2, <3>3
  <2>7. ProducerHand(p)' BY <2>2, <2>3 DEF HandLabels
  <2>8. ASSUME NEW c \in Consumers PROVE ConsumerHand(c)'
    <3>1. ConsumerHand(c) BY <1>0 DEF HandInv
    <3> QED BY <2>4, <3>1
  <2>9. \A m \in alloc' : data'[m] \in Packets
    BY <1>0, <2>1, <2>3, <2>5 DEF HandInv
  <2> HIDE DEF ProducerHand, ConsumerHand
  <2> QED BY <2>6, <2>7, <2>8, <2>9 DEF HandInv
<1>6. ASSUME NEW p \in Producers, Push(p) PROVE HandInv'
  <2>1. CASE PushSize(p)
    <3>1. /\ pc[p] = "push_size" /\ pc' = [pc EXCEPT ![p] = "push_len"]
          /\ order' = Append(order, node[p])
          /\ node' = node /\ buf' = buf /\ data' = data /\ alloc' = alloc
      BY <2>1 DEF PushSize
    <3>2. node[p] \in Node BY <1>0, <3>1 DEF HandInv, HandLabels
    <3>3. order' # <<>> /\ node[p] = Last1(order')
      <4>1. order \in Seq(Node) BY <1>0 DEF TypeOK
      <4> HIDE DEF Goto
      <4> QED BY <3>1, <3>2, <4>1 DEF Last1
    <3>4. \A t \in Threads \ {p} : pc'[t] = pc[t] BY <1>0, <3>1 DEF TypeOK
    <3>5. \A q \in Producers \ {p} : pc[q] # "push_len"
      BY <1>0, <3>1 DEF MutualExclusion, InCritical, CriticalLabels, HandLabels
    <3>6. pc'[p] = "push_len" BY <1>0, <3>1 DEF TypeOK
    <3>7. ASSUME NEW q \in Producers PROVE ProducerHand(q)'
      <4>1. ProducerHand(q) BY <1>0 DEF HandInv
      <4>2. CASE q = p BY <3>1, <3>3, <3>6, <4>1, <4>2 DEF OfferLabels, HandLabels
      <4>3. CASE q # p BY <3>1, <3>4, <3>5, <4>1, <4>3
      <4> QED BY <4>2, <4>3
    <3>8. ASSUME NEW c \in Consumers PROVE ConsumerHand(c)'
      <4>1. ConsumerHand(c) BY <1>0 DEF HandInv
      <4> QED BY <3>1, <3>4, <4>1
    <3> HIDE DEF ProducerHand, ConsumerHand
    <3> QED BY <1>0, <3>1, <3>7, <3>8 DEF HandInv
  <2>2. CASE PushLen(p)
    <3>1. /\ pc' = [pc EXCEPT ![p] = "push_unlock"] /\ node' = [node EXCEPT ![p] = NULL]
          /\ buf' = buf /\ data' = data /\ order' = order /\ alloc' = alloc
      BY <2>2 DEF PushLen
    <3>2. pc'[p] = "push_unlock" /\ node'[p] = NULL BY <1>0, <3>1 DEF TypeOK
    <3>3. \A t \in Threads \ {p} : pc'[t] = pc[t] /\ node'[t] = node[t]
      BY <1>0, <3>1 DEF TypeOK
    <3>4. ProducerHand(p)' BY <3>2 DEF OfferLabels, HandLabels
    <3> HIDE DEF ProducerHand, ConsumerHand
    <3> QED BY <1>f, <3>1, <3>3, <3>4
  <2>3. CASE ~PushSize(p) /\ ~PushLen(p)
    <3>1. PICK l \in HandLabels :
            /\ pc' = [pc EXCEPT ![p] = l] /\ node' = node /\ data' = data
            /\ order' = order /\ alloc' = alloc /\ buf' = buf
      BY <1>6, <2>3 DEF Push, PushTest, PushPrev, PushNext, PushTail, PushFirstTail,
                        PushFirstHead, PushFirstLinks, HandLabels
    <3>2. pc[p] \in HandLabels
      BY <1>6, <2>3 DEF Push, PushTest, PushPrev, PushNext, PushTail, PushFirstTail,
                        PushFirstHead, PushFirstLinks, HandLabels
    <3>3. ProducerHand(p) /\ pc'[p] = l BY <1>0, <3>1 DEF HandInv, TypeOK
    <3>4. ProducerHand(p)' BY <3>1, <3>2, <3>3 DEF OfferLabels
    <3> HIDE DEF ProducerHand, ConsumerHand
    <3> QED BY <1>g, <3>1, <3>4
  <2> QED BY <2>1, <2>2, <2>3
<1>7. ASSUME NEW c \in Consumers, Pop(c) PROVE HandInv'
  <2>1. CASE PopTest(c)
    <3>1. PICK l \in {"pop_node", "pop_unlock"} :
            /\ pc[c] = "pop_test" /\ pc' = [pc EXCEPT ![c] = l]
            /\ node' = node /\ data' = data
            /\ order' = order /\ alloc' = alloc /\ buf' = buf
      BY <2>1 DEF PopTest
    <3>2. ConsumerHand(c)' BY <1>0, <3>1 DEF HandInv, TypeOK, PopHandLabels
    <3> HIDE DEF ProducerHand, ConsumerHand
    <3> QED BY <1>g, <3>1, <3>2
  <2>2. CASE PopNode(c)
    <3>1. pc[c] = "pop_node" /\ order # <<>>
      BY <1>0, <2>2 DEF PopNode, ListInv, PopStage
    <3>2. \A t \in Threads : pc[t] \notin PushingLabels \cup PoppingLabels
      BY <1>0, <3>1 DEF MutualExclusion, InCritical, CriticalLabels, PushingLabels,
                        PoppingLabels, UnlockLabels, HandLabels, PopHandLabels
    <3>3. head = order[1] BY <1>0, <3>1, <3>2 DEF ListInv, Settled
    <3>4. head \in Node BY <1>0, <3>1, <3>3 DEF TypeOK
    <3>5. /\ pc' = [pc EXCEPT ![c] = "pop_size"] /\ node' = [node EXCEPT ![c] = head]
          /\ buf' = buf /\ data' = data /\ order' = order /\ alloc' = alloc
      BY <2>2 DEF PopNode
    <3>6. \A t \in Threads \ {c} : pc'[t] = pc[t] /\ node'[t] = node[t]
      BY <1>0, <3>5 DEF TypeOK
    <3>7. ConsumerHand(c)' BY <1>0, <3>4, <3>5 DEF TypeOK
    <3> HIDE DEF ProducerHand, ConsumerHand
    <3> QED BY <1>f, <3>5, <3>6, <3>7
  <2>3. CASE PopSize(c)
    <3>1. /\ pc[c] = "pop_size" /\ node' = node /\ buf' = buf /\ data' = data /\ alloc' = alloc
          /\ \/ pc' = [pc EXCEPT ![c] = "pop_head"]
             \/ pc' = [pc EXCEPT ![c] = "pop_last_tail"]
      BY <2>3 DEF PopSize
    <3>2. \A p \in Producers : pc[p] # "push_len"
      BY <1>0, <3>1 DEF MutualExclusion, InCritical, CriticalLabels, HandLabels, PopHandLabels
    <3>3. \A t \in Threads \ {c} : pc'[t] = pc[t] BY <1>0, <3>1 DEF TypeOK
    <3>4. ASSUME NEW q \in Producers PROVE ProducerHand(q)'
      <4>1. ProducerHand(q) BY <1>0 DEF HandInv
      <4>2. pc'[q] = pc[q] BY <3>3, ThreadsAssumption
      <4> QED BY <3>1, <3>2, <4>1, <4>2
    <3>5. ASSUME NEW d \in Consumers PROVE ConsumerHand(d)'
      <4>1. ConsumerHand(d) BY <1>0 DEF HandInv
      <4>2. CASE d = c
        <5>1. pc'[c] \in {"pop_head", "pop_last_tail"} BY <1>0, <3>1 DEF TypeOK
        <5> QED BY <3>1, <4>1, <4>2, <5>1 DEF PopHandLabels
      <4>3. CASE d # c BY <3>1, <3>3, <4>1, <4>3
      <4> QED BY <4>2, <4>3
    <3> HIDE DEF ProducerHand, ConsumerHand
    <3> QED BY <1>0, <3>1, <3>4, <3>5 DEF HandInv
  <2>4. CASE ~PopTest(c) /\ ~PopNode(c) /\ ~PopSize(c)
    <3>1. PICK l \in PopHandLabels \cup {"pop_unlock"} :
            /\ pc' = [pc EXCEPT ![c] = l] /\ node' = node /\ data' = data
            /\ order' = order /\ alloc' = alloc /\ buf' = buf
      BY <1>7, <2>4 DEF Pop, PopHead, PopPrev, PopLastTail, PopLastHead, PopLinks,
                        PopLen, PopHandLabels
    <3>2. pc[c] \in PopHandLabels
      BY <1>7, <2>4 DEF Pop, PopHead, PopPrev, PopLastTail, PopLastHead, PopLinks,
                        PopLen, PopHandLabels
    <3>3. node[c] \in Node BY <1>0, <3>2 DEF HandInv
    <3>4. pc'[c] = l BY <1>0, <3>1 DEF TypeOK
    <3>5. ConsumerHand(c)' BY <3>1, <3>3, <3>4
    <3> HIDE DEF ProducerHand, ConsumerHand
    <3> QED BY <1>g, <3>1, <3>5
  <2> QED BY <2>1, <2>2, <2>3, <2>4
<1>8. ASSUME NEW c \in Consumers, Process(c) PROVE HandInv'
  <2>1. /\ pc[c] = "process" /\ pc' = [pc EXCEPT ![c] = "free"]
        /\ node' = node /\ data' = data
        /\ order' = order /\ alloc' = alloc /\ buf' = buf
    BY <1>8 DEF Process
  <2>2. node[c] \in Node BY <1>0, <2>1 DEF HandInv, PopHandLabels
  <2>3. ConsumerHand(c)' BY <1>0, <2>1, <2>2 DEF TypeOK, PopHandLabels
  <2> HIDE DEF ProducerHand, ConsumerHand
  <2> QED BY <1>g, <2>1, <2>3
<1>9. ASSUME NEW c \in Consumers, Free(c) PROVE HandInv'
  <2>1. /\ pc' = [pc EXCEPT ![c] = "empty_lock"] /\ node' = [node EXCEPT ![c] = NULL]
        /\ alloc' = alloc \ {node[c]} /\ buf' = buf /\ data' = data /\ order' = order
    BY <1>9 DEF Free
  <2>2. \A t \in Threads \ {c} : pc'[t] = pc[t] /\ node'[t] = node[t]
    BY <1>0, <2>1 DEF TypeOK
  <2>3. ConsumerHand(c)' BY <1>0, <2>1 DEF TypeOK, PopHandLabels
  <2> HIDE DEF ProducerHand, ConsumerHand
  <2> QED BY <1>f, <2>1, <2>2, <2>3
<1> QED BY <1>1, <1>2, <1>3, <1>4, <1>5, <1>6, <1>7, <1>8, <1>9 DEF Next, Work

(* A node changes owner at malloc, at ++size, at --size and at free.       *)
LEMMA OwnerStep == IInv /\ Next => EveryNodeHasOneOwner'
<1> SUFFICES ASSUME IInv, Next PROVE EveryNodeHasOneOwner'
  OBVIOUS
<1> USE DataAssumption, ThreadsAssumption
<1>0. TypeOK /\ HandInv /\ MutualExclusion /\ ListInv /\ EveryNodeHasOneOwner
  BY DEF IInv
<1>1. ASSUME alloc' = alloc, order' = order,
             \A t \in Threads : Holding(t)' <=> Holding(t),
             \A t \in Threads : Holding(t) => node'[t] = node[t]
      PROVE  EveryNodeHasOneOwner'
  BY <1>0, <1>1 DEF EveryNodeHasOneOwner, Holders
<1> USE <1>0 DEF Holding, Goto, lockVars, listVars, nodeVars, localVars
<1>2. ASSUME NEW t \in Threads, AtomicLock(t) \/ AtomicUnlock(t) \/ ReadSize(t)
      PROVE  EveryNodeHasOneOwner'
  BY <1>1, <1>2 DEF AtomicLock, AfterLock, LockLabels, AtomicUnlock, AfterUnlock,
                    UnlockLabels, ReadSize, TypeOK
<1>3. ASSUME NEW p \in Producers,
             Receive(p) \/ ReceiveFails(p) \/ LogSize(p) \/ Reject(p)
      PROVE  EveryNodeHasOneOwner'
  BY <1>1, <1>3 DEF Receive, ReceiveFails, LogSize, Reject, TypeOK
<1>4. ASSUME NEW p \in Producers, Allocate(p) PROVE EveryNodeHasOneOwner'
  <2>1. PICK n \in Node \ alloc : alloc' = alloc \cup {n} /\ node' = [node EXCEPT ![p] = n]
    BY <1>4 DEF Allocate
  <2>2. ~Holding(p) BY <1>4 DEF Allocate, HandInv, HandLabels
  <2>3. order' = order /\ pc' = [pc EXCEPT ![p] = "push_lock"] BY <1>4 DEF Allocate
  <2>4. Holding(p)' /\ node'[p] = n BY <2>1, <2>3 DEF TypeOK
  <2>5. \A t \in Threads \ {p} : (Holding(t)' <=> Holding(t)) /\ node'[t] = node[t]
    BY <2>1, <2>3 DEF TypeOK
  <2>6. Holders' = Holders \cup {p} /\ p \notin Holders
    BY <2>2, <2>4, <2>5 DEF Holders
  <2>7. \A t \in Holders : node[t] # n BY <2>1 DEF EveryNodeHasOneOwner
  <2>8. n \notin ToSet(order) BY <2>1 DEF EveryNodeHasOneOwner
  <2> HIDE DEF Holding
  <2>9. Holders \subseteq Threads BY DEF Holders
  <2> QED BY <2>1, <2>3, <2>4, <2>5, <2>6, <2>7, <2>8, <2>9 DEF EveryNodeHasOneOwner
<1>5. ASSUME NEW p \in Producers, Push(p), ~PushSize(p) PROVE EveryNodeHasOneOwner'
  BY <1>1, <1>5 DEF Push, PushTest, PushPrev, PushNext, PushTail, PushFirstTail,
              PushFirstHead, PushFirstLinks, PushLen, TypeOK
<1>6. ASSUME NEW p \in Producers, PushSize(p) PROVE EveryNodeHasOneOwner'
  <2>1. /\ pc[p] = "push_size" /\ order' = Append(order, node[p])
        /\ alloc' = alloc /\ node' = node /\ pc' = [pc EXCEPT ![p] = "push_len"]
    BY <1>6 DEF PushSize
  <2>2. node[p] \in Node /\ Holding(p) BY <2>1 DEF HandInv, HandLabels
  <2>3. Holders' = Holders \ {p} /\ p \in Holders
    BY <2>1, <2>2 DEF Holders, TypeOK
  <2>4. order \in Seq(Node) BY DEF TypeOK
  <2>5. ToSet(order') = ToSet(order) \cup {node[p]}
    BY <2>1, <2>2, <2>4, SMTT(30) DEF ToSet
  <2>6. node[p] \notin ToSet(order) BY <2>3 DEF EveryNodeHasOneOwner
  <2>7. \A i, j \in DOMAIN order' : order'[i] = order'[j] => i = j
    BY <2>1, <2>2, <2>4, <2>6 DEF EveryNodeHasOneOwner, ToSet
  <2> QED BY <2>1, <2>3, <2>5, <2>7 DEF EveryNodeHasOneOwner
<1>7. ASSUME NEW c \in Consumers, Pop(c), ~PopSize(c) PROVE EveryNodeHasOneOwner'
  <2>1. CASE PopNode(c)
    <3>1. ~Holding(c) BY <2>1 DEF PopNode, HandInv, PopHandLabels
    <3>2. ~Holding(c)' BY <2>1 DEF PopNode, TypeOK
    <3>3. \A t \in Threads \ {c} : (Holding(t)' <=> Holding(t)) /\ node'[t] = node[t]
      BY <2>1 DEF PopNode, TypeOK
    <3> QED BY <1>1, <2>1, <3>1, <3>2, <3>3 DEF PopNode
  <2>2. CASE ~PopNode(c)
    BY <1>1, <1>7, <2>2 DEF Pop, PopTest, PopHead, PopPrev, PopLastTail,
                            PopLastHead, PopLinks, PopLen, TypeOK
  <2> QED BY <2>1, <2>2
<1>8. ASSUME NEW c \in Consumers, PopSize(c) PROVE EveryNodeHasOneOwner'
  <2>1. /\ pc[c] = "pop_size" /\ order' = Tail(order)
        /\ alloc' = alloc /\ node' = node
        /\ \/ pc' = [pc EXCEPT ![c] = "pop_head"]
           \/ pc' = [pc EXCEPT ![c] = "pop_last_tail"]
    BY <1>8 DEF PopSize
  <2>2. order # <<>> /\ node[c] = order[1]
    <3>1. order # <<>> /\ node[c] = head BY <2>1 DEF ListInv, PopStage
    <3>2. \A t \in Threads : pc[t] \notin PushingLabels \cup PoppingLabels
      BY <2>1 DEF MutualExclusion, InCritical, CriticalLabels, PushingLabels,
                  PoppingLabels, UnlockLabels, HandLabels, PopHandLabels
    <3> QED BY <3>1, <3>2 DEF ListInv, Settled
  <2>3. order \in Seq(Node) BY DEF TypeOK
  <2>4. node[c] \in Node /\ ~Holding(c) BY <2>1, <2>2, <2>3
  <2>5. Holders' = Holders \cup {c} /\ c \notin Holders
    BY <2>1, <2>4 DEF Holders, TypeOK
  <2>6. /\ DOMAIN order' = 1 .. Len(order) - 1
        /\ \A i \in DOMAIN order' : order'[i] = order[i + 1]
    BY <2>1, <2>2, <2>3
  <2>7. ToSet(order) = ToSet(order') \cup {node[c]}
    <3>1. ASSUME NEW i \in DOMAIN order
          PROVE  order[i] \in ToSet(order') \cup {node[c]}
      <4>1. CASE i = 1 BY <2>2, <4>1
      <4>2. CASE i # 1
        <5>1. i - 1 \in DOMAIN order' /\ order'[i - 1] = order[i]
          BY <2>3, <2>6, <3>1, <4>2
        <5> QED BY <5>1 DEF ToSet
      <4> QED BY <4>1, <4>2
    <3>2. ToSet(order) \subseteq ToSet(order') \cup {node[c]}
      BY <3>1 DEF ToSet
    <3>3. ASSUME NEW i \in DOMAIN order' PROVE order'[i] \in ToSet(order)
      <4>1. i + 1 \in DOMAIN order /\ order'[i] = order[i + 1]
        BY <2>3, <2>6, <3>3
      <4> QED BY <4>1 DEF ToSet
    <3>4. node[c] \in ToSet(order)
      <4>1. 1 \in DOMAIN order BY <2>2, <2>3
      <4> QED BY <2>2, <4>1 DEF ToSet
    <3>5. ToSet(order') \subseteq ToSet(order) BY <3>3 DEF ToSet
    <3> QED BY <3>2, <3>4, <3>5
  <2>8. \A i, j \in DOMAIN order' : order'[i] = order'[j] => i = j
    BY <2>3, <2>6 DEF EveryNodeHasOneOwner
  <2>9. node[c] \notin ToSet(order')
    BY <2>2, <2>3, <2>6 DEF EveryNodeHasOneOwner, ToSet
  <2>10. \A t \in Holders : node[t] # node[c]
    BY <2>7 DEF EveryNodeHasOneOwner
  <2>11. Holders \subseteq Threads BY DEF Holders
  <2> HIDE DEF Holding
  <2> QED BY <2>1, <2>5, <2>7, <2>8, <2>9, <2>10, <2>11 DEF EveryNodeHasOneOwner
<1>9. ASSUME NEW c \in Consumers, Process(c) PROVE EveryNodeHasOneOwner'
  BY <1>1, <1>9 DEF Process, TypeOK
<1>10. ASSUME NEW c \in Consumers, Free(c) PROVE EveryNodeHasOneOwner'
  <2>1. /\ pc[c] = "free" /\ order' = order /\ alloc' = alloc \ {node[c]}
        /\ node' = [node EXCEPT ![c] = NULL] /\ pc' = [pc EXCEPT ![c] = "empty_lock"]
    BY <1>10 DEF Free
  <2>2. node[c] \in Node BY <2>1 DEF HandInv, PopHandLabels
  <2>3. c \in Holders /\ Holders' = Holders \ {c}
    BY <2>1, <2>2 DEF Holders, TypeOK
  <2>4. \A t \in Threads \ {c} : node'[t] = node[t] BY <2>1 DEF TypeOK
  <2>5. Holders \subseteq Threads BY DEF Holders
  <2> HIDE DEF Holding
  <2> QED BY <2>1, <2>3, <2>4, <2>5 DEF EveryNodeHasOneOwner
<1> QED BY <1>2, <1>3, <1>4, <1>5, <1>6, <1>7, <1>8, <1>9, <1>10 DEF Next, Work

(* Counting the producers that have passed the size test.                  *)
LEMMA PassedCardinality ==
  /\ IsFiniteSet(Passed)
  /\ Cardinality(Passed) \in Nat
  /\ Cardinality(Producers) \in Nat
  /\ \A p \in Producers : p \notin Passed =>
       /\ Cardinality(Passed \cup {p}) = Cardinality(Passed) + 1
       /\ Cardinality(Passed) + 1 <= Cardinality(Producers)
  /\ \A p \in Passed : Cardinality(Passed \ {p}) = Cardinality(Passed) - 1
<1>1. Passed \subseteq Producers BY DEF Passed
<1>2. IsFiniteSet(Passed) BY <1>1, FS_Subset, ThreadsAssumption
<1>3. Cardinality(Passed) \in Nat /\ Cardinality(Producers) \in Nat
  BY <1>2, FS_CardinalityType, ThreadsAssumption
<1>4. ASSUME NEW p \in Producers, p \notin Passed
      PROVE  /\ Cardinality(Passed \cup {p}) = Cardinality(Passed) + 1
             /\ Cardinality(Passed) + 1 <= Cardinality(Producers)
  <2>1. Cardinality(Passed \cup {p}) = Cardinality(Passed) + 1
    BY <1>2, <1>4, FS_AddElement
  <2>2. Passed \cup {p} \subseteq Producers BY <1>1
  <2>3. Cardinality(Passed \cup {p}) <= Cardinality(Producers)
    BY <2>2, FS_Subset, ThreadsAssumption
  <2> QED BY <2>1, <2>3
<1>5. ASSUME NEW p \in Passed
      PROVE  Cardinality(Passed \ {p}) = Cardinality(Passed) - 1
  BY <1>2, <1>5, FS_RemoveElement
<1> QED BY <1>2, <1>3, <1>4, <1>5

(* A producer that passes the test found size <= MAX_PCK and adds one to   *)
(* Passed; when it pushes, size takes over its share.                      *)
LEMMA CountStep == IInv /\ Next => CountInv'
<1> SUFFICES ASSUME IInv, Next PROVE CountInv'
  OBVIOUS
<1> USE DataAssumption, ThreadsAssumption
<1>0. TypeOK /\ HandInv /\ ListInv /\ CountInv
  BY DEF IInv
<1>1. ASSUME size' = size, order' = order, Passed' = Passed
      PROVE  CountInv'
  BY <1>0, <1>1 DEF CountInv
<1>2. ASSUME size' = size, order' = order, NEW p \in Producers, Passed' = Passed \ {p}
      PROVE  CountInv'
  <2>1. CASE p \notin Passed BY <1>1, <1>2, <2>1
  <2>2. CASE p \in Passed
    <3>1. Cardinality(Passed') = Cardinality(Passed) - 1
      BY <1>2, <2>2, PassedCardinality
    <3> QED BY <1>0, <1>2, <3>1, PassedCardinality DEF CountInv, TypeOK
  <2> QED BY <2>1, <2>2
<1> USE <1>0 DEF Passed, HandLabels, Goto, lockVars, listVars, nodeVars, localVars, TypeOK
<1>3. ASSUME NEW t \in Threads, AtomicLock(t) PROVE CountInv'
  BY <1>1, <1>3 DEF AtomicLock, AfterLock, LockLabels
<1>4. ASSUME NEW t \in Threads, AtomicUnlock(t) PROVE CountInv'
  BY <1>1, <1>4 DEF AtomicUnlock, AfterUnlock, UnlockLabels
<1>5. ASSUME NEW t \in Threads, ReadSize(t) PROVE CountInv'
  <2>1. CASE pc[t] = "size_read" /\ size <= MAX_PCK
    <3>1. t \in Producers BY <2>1 DEF ConsumerLabels, PopHandLabels
    <3>2. t \notin Passed BY <2>1
    <3>3. Passed' = Passed \cup {t} BY <1>5, <2>1, <3>1 DEF ReadSize
    <3>4. size' = size /\ order' = order BY <1>5 DEF ReadSize
    <3> HIDE DEF Passed
    <3>5. /\ Cardinality(Passed') = Cardinality(Passed) + 1
          /\ Cardinality(Passed) + 1 <= Cardinality(Producers)
      BY <3>1, <3>2, <3>3, PassedCardinality
    <3> QED BY <2>1, <3>4, <3>5, PassedCardinality DEF CountInv
  <2>2. CASE pc[t] = "size_read" /\ size > MAX_PCK
    BY <1>1, <1>5, <2>2 DEF ReadSize
  <2>3. CASE pc[t] = "empty_read"
    BY <1>1, <1>5, <2>3 DEF ReadSize
  <2> QED BY <1>5, <2>1, <2>2, <2>3 DEF ReadSize
<1>6. ASSUME NEW p \in Producers,
             Receive(p) \/ ReceiveFails(p) \/ LogSize(p) \/ Allocate(p)
      PROVE  CountInv'
  BY <1>1, <1>6 DEF Receive, ReceiveFails, LogSize, Allocate
<1>7. ASSUME NEW p \in Producers, Reject(p) PROVE CountInv'
  <2>1. /\ pc[p] = "enqueue" /\ pc' = [pc EXCEPT ![p] = "recv"] /\ seen' = seen
        /\ size' = size /\ order' = order
    BY <1>7 DEF Reject
  <2>2. \A q \in Producers \ {p} : q \in Passed' <=> q \in Passed BY <2>1
  <2>3. p \notin Passed' BY <2>1
  <2>4. Passed' \subseteq Producers /\ Passed \subseteq Producers OBVIOUS
  <2> HIDE DEF Passed, TypeOK
  <2>5. Passed' = Passed \ {p} BY <2>2, <2>3, <2>4
  <2> QED BY <1>2, <2>1, <2>5
<1>8. ASSUME NEW p \in Producers, Push(p), ~PushSize(p) PROVE CountInv'
  BY <1>1, <1>8 DEF Push, PushTest, PushPrev, PushNext, PushTail, PushFirstTail,
              PushFirstHead, PushFirstLinks, PushLen
<1>9. ASSUME NEW p \in Producers, PushSize(p) PROVE CountInv'
  <2>1. p \in Passed /\ Passed' = Passed \ {p}
    <3>1. /\ pc[p] = "push_size" /\ pc' = [pc EXCEPT ![p] = "push_len"] /\ seen' = seen
      BY <1>9 DEF PushSize
    <3>2. p \in Passed /\ p \notin Passed' BY <3>1
    <3>3. \A q \in Producers \ {p} : q \in Passed' <=> q \in Passed BY <3>1
    <3> QED BY <3>2, <3>3
  <2>2. node[p] \in Node BY <1>9 DEF PushSize, HandInv
  <2>3. size' = size + 1 /\ Len(order') = Len(order) + 1
    BY <1>9, <2>2 DEF PushSize
  <2>4. Cardinality(Passed') = Cardinality(Passed) - 1
    BY <2>1, PassedCardinality
  <2> HIDE DEF Passed
  <2> QED BY <2>3, <2>4, PassedCardinality DEF CountInv
<1>10. ASSUME NEW c \in Consumers, Pop(c), ~PopSize(c) PROVE CountInv'
  BY <1>1, <1>10 DEF Pop, PopTest, PopNode, PopHead, PopPrev, PopLastTail,
                     PopLastHead, PopLinks, PopLen
<1>11. ASSUME NEW c \in Consumers, PopSize(c) PROVE CountInv'
  <2>1. order # <<>> BY <1>11 DEF PopSize, ListInv, PopStage
  <2>2. size' = size - 1 /\ Len(order') = Len(order) - 1
    BY <1>11, <2>1 DEF PopSize
  <2>3. Passed' = Passed BY <1>11 DEF PopSize
  <2> HIDE DEF Passed
  <2> QED BY <2>2, <2>3, PassedCardinality DEF CountInv
<1>12. ASSUME NEW c \in Consumers, Process(c) \/ Free(c) PROVE CountInv'
  BY <1>1, <1>12 DEF Process, Free
<1> QED BY <1>3, <1>4, <1>5, <1>6, <1>7, <1>8, <1>9, <1>10, <1>11, <1>12
        DEF Next, Work

(* Outside the critical section a step leaves the list alone (<1>1).       *)
(* Inside it, no other thread is inside (<1>2), and the step moves the     *)
(* list from one stage of LIST_RPUSH or LIST_LPOP to the next.             *)
LEMMA ListStep == IInv /\ Next => ListInv'
<1> SUFFICES ASSUME IInv, Next PROVE ListInv'
  OBVIOUS
<1> USE DataAssumption, ThreadsAssumption
<1>0. TypeOK /\ HandInv /\ MutualExclusion /\ ListInv /\ EveryNodeHasOneOwner /\ CountInv
  BY DEF IInv
<1> DEFINE Outside == Labels \ (PushingLabels \cup PoppingLabels \cup
                 {"push_prev", "push_next", "push_first_tail", "pop_node", "pop_size"})
<1>a. order \in Seq(Node) /\ Len(order) \in Nat BY <1>0 DEF TypeOK
<1>b. \A i \in 1 .. Len(order) : order[i] \in alloc /\ order[i] \in Node
  BY <1>0, <1>a DEF EveryNodeHasOneOwner, ToSet
<1>c. \A i, j \in 1 .. Len(order) : order[i] = order[j] => i = j
  BY <1>0, <1>a DEF EveryNodeHasOneOwner
<1>d. \A t \in Holders : \A i \in 1 .. Len(order) : node[t] # order[i]
  BY <1>0, <1>a DEF EveryNodeHasOneOwner, ToSet
<1>e. \A t \in Holders : node[t] \in alloc
  BY <1>0 DEF EveryNodeHasOneOwner
<1> USE DEF listVars
(* A step outside the list operations. *)
<1>1. ASSUME NEW t \in Threads, NEW l \in Outside, pc[t] \in Outside,
             pc' = [pc EXCEPT ![t] = l], listVars' = listVars, order' = order,
             \A n \in alloc : prev'[n] = prev[n] /\ next'[n] = next[n],
             \A u \in Threads \ {t} : node'[u] = node[u]
      PROVE  ListInv'
  <2>0. Linked(order) => Linked(order)'
    <3>1. order' = order BY <1>1
    <3>2. \A i \in 1 .. Len(order) :
            prev'[order[i]] = prev[order[i]] /\ next'[order[i]] = next[order[i]]
      BY <1>1, <1>b
    <3> QED BY <1>a, <3>1, <3>2 DEF Linked
  <2>1. (\A u \in Threads : pc'[u] \notin PushingLabels \cup PoppingLabels) => Settled(order)'
    <3>1. SUFFICES ASSUME \A u \in Threads : pc'[u] \notin PushingLabels \cup PoppingLabels
                   PROVE  Settled(order)'
      OBVIOUS
    <3>2. \A u \in Threads : pc[u] \notin PushingLabels \cup PoppingLabels
      BY <1>0, <1>1, <3>1 DEF TypeOK
    <3>3. Settled(order) BY <1>0, <3>2 DEF ListInv
    <3>4. head' = head /\ tail' = tail /\ order' = order BY <1>1
    <3>5. \A i \in 1 .. Len(order) :
            prev'[order[i]] = prev[order[i]] /\ next'[order[i]] = next[order[i]]
      BY <1>1, <1>b
    <3> QED BY <1>a, <3>3, <3>4, <3>5 DEF Settled, Linked
  <2>2. ASSUME NEW p \in Producers PROVE PushStage(p)'
    <3>1. CASE p = t BY <1>0, <1>1, <3>1 DEF PushStage, TypeOK, PushingLabels
    <3>2. CASE p # t
      <4>1. pc'[p] = pc[p] /\ node'[p] = node[p] BY <1>0, <1>1, <3>2 DEF TypeOK
      <4>2. PushStage(p) BY <1>0 DEF ListInv
      <4>3. CASE pc[p] \in {"push_next", "push_tail", "push_size"}
        <5>1. node[p] \in alloc
          BY <1>0, <1>e, <4>3 DEF HandInv, HandLabels, Holders, Holding
        <5>2. pc[p] = "push_next" => PushStage(p)'
          BY <1>1, <4>1, <4>2, <5>1 DEF PushStage
        <5>3. pc[p] = "push_tail" => PushStage(p)'
          <6>1. SUFFICES ASSUME pc[p] = "push_tail" PROVE PushStage(p)'
            OBVIOUS
          <6>2. /\ order # <<>> /\ prev[node[p]] = tail /\ next[node[p]] = NULL
                /\ head = order[1] /\ tail = order[Len(order)] /\ prev[head] = NULL
                /\ Linked(order) /\ next[tail] = node[p]
            BY <4>2, <6>1 DEF PushStage, Last1
          <6>3. /\ head \in alloc /\ tail \in alloc
            BY <1>a, <1>b, <6>2
          <6>4. /\ head' = head /\ tail' = tail /\ order' = order
                /\ prev'[node[p]] = prev[node[p]] /\ next'[node[p]] = next[node[p]]
                /\ prev'[head] = prev[head] /\ next'[tail] = next[tail]
            BY <1>1, <5>1, <6>3
          <6> QED BY <2>0, <4>1, <6>1, <6>2, <6>4 DEF PushStage, Last1
        <5>4. pc[p] = "push_size" => PushStage(p)'
          BY <1>1, <1>a, <1>b, <4>1, <4>2, <5>1 DEF PushStage, Linked, Last1
        <5> QED BY <4>3, <5>2, <5>3, <5>4
      <4>4. CASE pc[p] \notin {"push_next", "push_tail", "push_size"}
        BY <1>1, <4>1, <4>2, <4>4 DEF PushStage
      <4> QED BY <4>3, <4>4
    <3> QED BY <3>1, <3>2
  <2>3. ASSUME NEW c \in Consumers PROVE PopStage(c)'
    <3>1. CASE c = t BY <1>0, <1>1, <3>1 DEF PopStage, TypeOK, PoppingLabels
    <3>2. CASE c # t
      <4>1. pc'[c] = pc[c] /\ node'[c] = node[c] BY <1>0, <1>1, <3>2 DEF TypeOK
      <4>2. PopStage(c) BY <1>0 DEF ListInv
      <4>3. CASE pc[c] \in {"pop_head", "pop_prev"}
        <5>1. node[c] \in alloc
          BY <1>0, <1>e, <4>3 DEF HandInv, PopHandLabels, Holders, Holding
        <5>2. pc[c] = "pop_head" => PopStage(c)'
          <6>1. SUFFICES ASSUME pc[c] = "pop_head" PROVE PopStage(c)'
            OBVIOUS
          <6>2. /\ order # <<>> /\ node[c] = head /\ next[node[c]] = order[1]
                /\ tail = order[Len(order)] /\ next[tail] = NULL /\ Linked(order)
            BY <4>2, <6>1 DEF PopStage, Last1
          <6>3. tail \in alloc
            BY <1>a, <1>b, <6>2
          <6>4. /\ head' = head /\ tail' = tail /\ order' = order
                /\ next'[tail] = next[tail] /\ next'[node[c]] = next[node[c]]
            BY <1>1, <5>1, <6>3
          <6> QED BY <2>0, <4>1, <6>1, <6>2, <6>4 DEF PopStage, Last1
        <5>3. pc[c] = "pop_prev" => PopStage(c)'
          <6>1. SUFFICES ASSUME pc[c] = "pop_prev" PROVE PopStage(c)'
            OBVIOUS
          <6>2. /\ order # <<>> /\ head = order[1] /\ tail = order[Len(order)]
                /\ next[tail] = NULL /\ Linked(order)
            BY <4>2, <6>1 DEF PopStage, Last1
          <6>3. tail \in alloc
            BY <1>a, <1>b, <6>2
          <6>4. /\ head' = head /\ tail' = tail /\ order' = order
                /\ next'[tail] = next[tail]
            BY <1>1, <6>3
          <6> QED BY <2>0, <4>1, <6>1, <6>2, <6>4 DEF PopStage, Last1
        <5> QED BY <4>3, <5>2, <5>3
      <4>4. CASE pc[c] \notin {"pop_head", "pop_prev"}
        BY <1>1, <4>1, <4>2, <4>4 DEF PopStage
      <4> QED BY <4>3, <4>4
    <3> QED BY <3>1, <3>2
  <2> QED BY <2>1, <2>2, <2>3 DEF ListInv
(* A step of a thread that holds the lock: no other is inside. *)
<1>2. ASSUME NEW t \in Threads, pc[t] \in CriticalLabels, NEW l \in Labels,
             pc' = [pc EXCEPT ![t] = l],
             l \notin PushingLabels \cup PoppingLabels => Settled(order)',
             t \in Producers => PushStage(t)', t \in Consumers => PopStage(t)'
      PROVE  ListInv'
  <2>1. \A u \in Threads \ {t} : pc'[u] \notin CriticalLabels
    BY <1>0, <1>2 DEF MutualExclusion, InCritical, TypeOK
  <2>2. \A u \in Threads \ {t} : PushStage(u)' /\ PopStage(u)'
    BY <2>1 DEF PushStage, PopStage, CriticalLabels, HandLabels, PopHandLabels
  <2>3. pc'[t] = l BY <1>0, <1>2 DEF TypeOK
  <2> QED BY <1>2, <2>2, <2>3 DEF ListInv
<1>3. ASSUME NEW t \in Threads, pc[t] \in CriticalLabels,
             pc[t] \notin PushingLabels \cup PoppingLabels
      PROVE  Settled(order)
  <2>1. \A u \in Threads : pc[u] \notin PushingLabels \cup PoppingLabels
    BY <1>0, <1>3 DEF MutualExclusion, InCritical, CriticalLabels, HandLabels,
                      PopHandLabels, PushingLabels, PoppingLabels
  <2> QED BY <1>0, <2>1 DEF ListInv
<1> USE DEF Goto, lockVars, nodeVars, localVars
<1>4. ASSUME NEW t \in Threads, AtomicLock(t) PROVE ListInv'
  <2>1. AfterLock(pc[t]) \in Outside /\ pc[t] \in Outside
    BY <1>4 DEF AtomicLock, AfterLock, LockLabels, Labels, ProducerLabels,
      ConsumerLabels, OfferLabels, HandLabels, PopHandLabels, PushingLabels, PoppingLabels
  <2> HIDE DEF Outside
  <2> QED BY <1>1, <1>4, <2>1 DEF AtomicLock
<1>5. ASSUME NEW t \in Threads, AtomicUnlock(t) PROVE ListInv'
  <2>1. AfterUnlock(t) \in Outside /\ pc[t] \in Outside
    BY <1>5 DEF AtomicUnlock, AfterUnlock, UnlockLabels, Labels, ProducerLabels,
      ConsumerLabels, OfferLabels, HandLabels, PopHandLabels, PushingLabels, PoppingLabels
  <2> HIDE DEF Outside
  <2> QED BY <1>1, <1>5, <2>1 DEF AtomicUnlock
<1>6. /\ {"recv", "stopped", "size_lock", "size_read", "size_unlock", "enqueue",
          "log_read", "log_unlock", "push_lock", "push_test", "push_len",
          "push_unlock"} \subseteq Outside
      /\ {"empty_lock", "empty_read", "empty_unlock", "pop_test", "pop_links",
          "pop_len", "pop_unlock", "process", "free"} \subseteq Outside
  BY DEF Labels, ProducerLabels, ConsumerLabels, OfferLabels, HandLabels,
         PopHandLabels, PushingLabels, PoppingLabels
<1> HIDE DEF Outside
<1>7. ASSUME NEW t \in Threads, ReadSize(t) PROVE ListInv'
  BY <1>1, <1>6, <1>7 DEF ReadSize
<1>8. ASSUME NEW p \in Producers,
             Receive(p) \/ ReceiveFails(p) \/ LogSize(p) \/ Reject(p)
      PROVE  ListInv'
  <2>1. CASE Receive(p) BY <1>1, <1>6, <2>1 DEF Receive
  <2>2. CASE ReceiveFails(p) BY <1>1, <1>6, <2>2 DEF ReceiveFails
  <2>3. CASE LogSize(p) BY <1>1, <1>6, <2>3 DEF LogSize
  <2>4. CASE Reject(p) BY <1>1, <1>6, <2>4 DEF Reject
  <2> QED BY <1>8, <2>1, <2>2, <2>3, <2>4
<1>9. ASSUME NEW p \in Producers, Allocate(p) PROVE ListInv'
  <2>1. \A n \in alloc : prev'[n] = prev[n] /\ next'[n] = next[n]
    BY <1>0, <1>9 DEF Allocate, TypeOK
  <2>2. \A u \in Threads \ {p} : node'[u] = node[u]
    BY <1>0, <1>9 DEF Allocate, TypeOK
  <2>3. /\ pc[p] = "enqueue" /\ pc' = [pc EXCEPT ![p] = "push_lock"]
        /\ listVars' = listVars /\ order' = order
    BY <1>9 DEF Allocate
  <2>4. "enqueue" \in Outside /\ "push_lock" \in Outside BY <1>6
  <2> HIDE DEF listVars
  <2> QED BY <1>1, <2>1, <2>2, <2>3, <2>4
<1>10. ASSUME NEW c \in Consumers, Process(c) \/ Free(c) PROVE ListInv'
  <2>1. \A u \in Threads \ {c} : node'[u] = node[u]
    BY <1>0, <1>10 DEF Process, Free, TypeOK
  <2> QED BY <1>1, <1>6, <1>10, <2>1 DEF Process, Free
<1>11. ASSUME NEW p \in Producers, Push(p) PROVE ListInv'
  <2>0. pc[p] \in CriticalLabels
    BY <1>11 DEF Push, PushTest, PushPrev, PushNext, PushTail, PushFirstTail,
       PushFirstHead, PushFirstLinks, PushSize, PushLen, CriticalLabels, HandLabels
  <2>a. PushStage(p) BY <1>0 DEF ListInv
  <2>b. pc[p] \in HandLabels => node[p] \in Node /\ p \in Holders
    BY <1>0 DEF HandInv, HandLabels, Holders, Holding
  <2>c. {"push_prev", "push_next", "push_tail", "push_first_tail",
         "push_first_head", "push_first_links", "push_size", "push_len",
         "push_unlock"} \subseteq Labels
    BY DEF Labels, ProducerLabels, OfferLabels, HandLabels
  <2> USE DEF HandLabels, PushingLabels, PoppingLabels
  <2>1. CASE PushTest(p)
    <3>1. Settled(order) BY <1>3, <2>0, <2>1 DEF PushTest
    <3>2. Settled(order)' BY <2>1, <3>1 DEF PushTest, Settled, Linked
    <3>3. PushStage(p)'
      BY <1>0, <1>a, <1>b, <2>1, <3>1 DEF PushTest, Settled, PushStage, TypeOK
    <3> QED BY <1>2, <2>0, <2>1, <2>c, <3>2, <3>3 DEF PushTest
  <2>2. CASE PushPrev(p)
    <3>1. Settled(order) BY <1>3, <2>0, <2>2 DEF PushPrev
    <3>2. Settled(order)'
      BY <1>0, <1>a, <1>b, <1>d, <2>2, <2>b, <3>1 DEF PushPrev, Settled, Linked, TypeOK
    <3>3. PushStage(p)' BY <1>0, <2>2, <2>a, <2>b DEF PushPrev, PushStage, TypeOK
    <3> QED BY <1>2, <2>0, <2>2, <2>c, <3>2, <3>3 DEF PushPrev
  <2>3. CASE PushNext(p)
    <3>1. Settled(order) /\ order # <<>>
      BY <1>3, <2>0, <2>3, <2>a DEF PushNext, PushStage
    <3>2. tail = Last1(order) /\ tail \in Node /\ tail # node[p]
      BY <1>a, <1>b, <1>d, <2>3, <2>b, <3>1 DEF PushNext, Settled, Last1
    <3>3. next'[tail] = node[p] /\ \A n \in Node \ {tail} : next'[n] = next[n]
      BY <1>0, <2>3, <3>2 DEF PushNext, TypeOK
    <3>4. Linked(order)'
      BY <1>a, <1>b, <1>c, <2>3, <3>1, <3>2, <3>3 DEF PushNext, Settled, Linked, Last1
    <3>5. PushStage(p)'
      BY <1>0, <2>3, <2>a, <2>b, <3>1, <3>2, <3>3, <3>4
      DEF PushNext, PushStage, Settled, Last1, TypeOK
    <3> QED BY <1>2, <2>0, <2>3, <2>c, <3>5 DEF PushNext
  <2>4. CASE PushTail(p)
    <3>1. PushStage(p)'
      BY <1>0, <2>4, <2>a, <2>b DEF PushTail, PushStage, Last1, Linked, TypeOK
    <3> QED BY <1>2, <2>0, <2>4, <2>c, <3>1 DEF PushTail
  <2>5. CASE PushFirstTail(p)
    <3>1. Settled(order) BY <1>3, <2>0, <2>5 DEF PushFirstTail
    <3>2. PushStage(p)'
      BY <1>0, <2>5, <2>a, <2>b, <3>1 DEF PushFirstTail, PushStage, Settled, TypeOK
    <3> QED BY <1>2, <2>0, <2>5, <2>c, <3>2 DEF PushFirstTail
  <2>6. CASE PushFirstHead(p)
    <3>1. PushStage(p)'
      BY <1>0, <2>6, <2>a, <2>b DEF PushFirstHead, PushStage, TypeOK
    <3> QED BY <1>2, <2>0, <2>6, <2>c, <3>1 DEF PushFirstHead
  <2>7. CASE PushFirstLinks(p)
    <3>1. PushStage(p)'
      BY <1>0, <2>7, <2>a, <2>b DEF PushFirstLinks, PushStage, TypeOK
    <3> QED BY <1>2, <2>0, <2>7, <2>c, <3>1 DEF PushFirstLinks
  <2>8. CASE PushSize(p)
    <3>1. /\ Len(order') = Len(order) + 1 /\ order'[Len(order) + 1] = node[p]
          /\ \A i \in 1 .. Len(order) : order'[i] = order[i]
          /\ order' # <<>>
      BY <1>a, <2>8, <2>b DEF PushSize
    <3>2. Settled(order)'
      BY <1>a, <2>8, <2>a, <3>1 DEF PushSize, PushStage, Settled, Linked, Last1
    <3>3. PushStage(p)' BY <1>0, <2>8 DEF PushSize, PushStage, TypeOK
    <3> QED BY <1>2, <2>0, <2>8, <2>c, <3>2, <3>3 DEF PushSize
  <2>9. CASE PushLen(p)
    <3>1. Settled(order) BY <1>3, <2>0, <2>9 DEF PushLen
    <3>2. Settled(order)' BY <2>9, <3>1 DEF PushLen, Settled, Linked
    <3>3. PushStage(p)' BY <1>0, <2>9 DEF PushLen, PushStage, TypeOK
    <3> QED BY <1>2, <2>0, <2>9, <2>c, <3>2, <3>3 DEF PushLen
  <2> QED BY <1>11, <2>1, <2>2, <2>3, <2>4, <2>5, <2>6, <2>7, <2>8, <2>9 DEF Push
<1>12. ASSUME NEW c \in Consumers, Pop(c) PROVE ListInv'
  <2>0. pc[c] \in CriticalLabels
    BY <1>12 DEF Pop, PopTest, PopNode, PopSize, PopHead, PopPrev, PopLastTail,
       PopLastHead, PopLinks, PopLen, CriticalLabels, PopHandLabels
  <2>a. PopStage(c) BY <1>0 DEF ListInv
  <2>b. pc[c] \in PopHandLabels => node[c] \in Node /\ c \in Holders
    BY <1>0 DEF HandInv, PopHandLabels, Holders, Holding
  <2>c. {"pop_node", "pop_size", "pop_head", "pop_prev", "pop_last_tail",
         "pop_last_head", "pop_links", "pop_len", "pop_unlock"} \subseteq Labels
    BY DEF Labels, ConsumerLabels, PopHandLabels
  <2> USE DEF PopHandLabels, PushingLabels, PoppingLabels
  <2>1. CASE PopTest(c)
    <3>1. Settled(order) BY <1>3, <2>0, <2>1 DEF PopTest
    <3>2. Settled(order)' BY <2>1, <3>1 DEF PopTest, Settled, Linked
    <3>3. PopStage(c)' BY <1>0, <2>1 DEF PopTest, PopStage, CountInv, TypeOK
    <3> QED BY <1>2, <2>0, <2>1, <2>c, <3>2, <3>3 DEF PopTest
  <2>2. CASE PopNode(c)
    <3>1. Settled(order) BY <1>3, <2>0, <2>2 DEF PopNode
    <3>2. Settled(order)' BY <2>2, <3>1 DEF PopNode, Settled, Linked
    <3>3. PopStage(c)' BY <1>0, <2>2, <2>a DEF PopNode, PopStage, TypeOK
    <3> QED BY <1>2, <2>0, <2>2, <2>c, <3>2, <3>3 DEF PopNode
  <2>3. CASE PopSize(c)
    <3>1. Settled(order) /\ order # <<>> /\ node[c] = head
      BY <1>3, <2>0, <2>3, <2>a DEF PopSize, PopStage
    <3>2. /\ Len(order') = Len(order) - 1
          /\ \A i \in 1 .. Len(order) - 1 : order'[i] = order[i + 1]
          /\ order' \in Seq(Node)
      BY <1>a, <2>3, <3>1 DEF PopSize
    <3>3. size = Len(order) BY <1>0 DEF CountInv
    <3>4. CASE size - 1 # 0
      <4>1. pc'[c] = "pop_head" /\ order' # <<>>
        BY <1>0, <1>a, <2>3, <3>2, <3>3, <3>4 DEF PopSize, TypeOK
      <4>2. next[node[c]] = order'[1] /\ order'[1] = order[2]
        BY <1>a, <3>1, <3>2, <3>3, <3>4 DEF Settled, Linked
      <4>3. tail = Last1(order') /\ next[tail] = NULL
        BY <1>a, <3>1, <3>2, <3>3, <3>4 DEF Settled, Last1
      <4>4. Linked(order)'
        BY <1>a, <2>3, <3>1, <3>2 DEF PopSize, Settled, Linked
      <4>5. node' = node /\ head' = head /\ next' = next /\ tail' = tail
        BY <2>3 DEF PopSize
      <4>6. PopStage(c)'
        BY <3>1, <4>1, <4>2, <4>3, <4>4, <4>5 DEF PopStage
      <4> QED BY <1>2, <2>0, <2>3, <2>c, <3>4, <4>6 DEF PopSize
    <3>5. CASE size - 1 = 0
      <4>1. pc'[c] = "pop_last_tail" /\ order' = <<>>
        BY <1>0, <1>a, <2>3, <3>2, <3>3, <3>5 DEF PopSize, TypeOK
      <4>2. PopStage(c)' BY <4>1 DEF PopStage
      <4> QED BY <1>2, <2>0, <2>3, <2>c, <3>5, <4>2 DEF PopSize
    <3> QED BY <3>4, <3>5
  <2>4. CASE PopHead(c)
    <3>1. PopStage(c)' BY <1>0, <2>4, <2>a DEF PopHead, PopStage, Linked, Last1, TypeOK
    <3> QED BY <1>2, <2>0, <2>4, <2>c, <3>1 DEF PopHead
  <2>5. CASE PopPrev(c)
    <3>1. order # <<>> /\ head = order[1] /\ head \in Node
      BY <1>a, <1>b, <2>5, <2>a DEF PopPrev, PopStage
    <3>2. prev'[head] = NULL /\ \A n \in Node \ {head} : prev'[n] = prev[n]
      BY <1>0, <2>5, <3>1 DEF PopPrev, TypeOK
    <3>3. Linked(order)'
      BY <1>a, <1>b, <1>c, <2>5, <2>a, <3>1, <3>2 DEF PopPrev, PopStage, Linked
    <3>4. Settled(order)'
      BY <2>5, <2>a, <3>1, <3>2, <3>3 DEF PopPrev, PopStage, Settled, Last1
    <3>5. PopStage(c)' BY <1>0, <2>5 DEF PopPrev, PopStage, TypeOK
    <3> QED BY <1>2, <2>0, <2>5, <2>c, <3>4, <3>5 DEF PopPrev
  <2>6. CASE PopLastTail(c)
    <3>1. PopStage(c)' BY <1>0, <2>6, <2>a DEF PopLastTail, PopStage, TypeOK
    <3> QED BY <1>2, <2>0, <2>6, <2>c, <3>1 DEF PopLastTail
  <2>7. CASE PopLastHead(c)
    <3>1. Settled(order)' BY <2>7, <2>a DEF PopLastHead, PopStage, Settled
    <3>2. PopStage(c)' BY <1>0, <2>7 DEF PopLastHead, PopStage, TypeOK
    <3> QED BY <1>2, <2>0, <2>7, <2>c, <3>1, <3>2 DEF PopLastHead
  <2>8. CASE PopLinks(c)
    <3>1. Settled(order) BY <1>3, <2>0, <2>8 DEF PopLinks
    <3>2. \A i \in 1 .. Len(order) :
            prev'[order[i]] = prev[order[i]] /\ next'[order[i]] = next[order[i]]
      BY <1>0, <1>b, <1>d, <2>8, <2>b DEF PopLinks, TypeOK
    <3>3. Settled(order)' BY <1>a, <2>8, <3>1, <3>2 DEF PopLinks, Settled, Linked
    <3>4. PopStage(c)' BY <1>0, <2>8 DEF PopLinks, PopStage, TypeOK
    <3> QED BY <1>2, <2>0, <2>8, <2>c, <3>3, <3>4 DEF PopLinks
  <2>9. CASE PopLen(c)
    <3>1. Settled(order) BY <1>3, <2>0, <2>9 DEF PopLen
    <3>2. Settled(order)' BY <2>9, <3>1 DEF PopLen, Settled, Linked
    <3>3. PopStage(c)' BY <1>0, <2>9 DEF PopLen, PopStage, TypeOK
    <3> QED BY <1>2, <2>0, <2>9, <2>c, <3>2, <3>3 DEF PopLen
  <2> QED BY <1>12, <2>1, <2>2, <2>3, <2>4, <2>5, <2>6, <2>7, <2>8, <2>9 DEF Pop
<1> QED BY <1>4, <1>5, <1>7, <1>8, <1>9, <1>10, <1>11, <1>12 DEF Next, Work

(* Every step preserves the invariant.                                     *)
LEMMA Inductive == IInv /\ [Next]_vars => IInv'
<1>1. ASSUME IInv, Next PROVE IInv'
  BY <1>1, TypeStep, MutexStep, HandStep, OwnerStep, ListStep, CountStep DEF IInv
<1>2. ASSUME IInv, UNCHANGED vars PROVE IInv'
  BY <1>2 DEF vars, lockVars, listVars, nodeVars, localVars, IInv, TypeOK,
     MutualExclusion, InCritical, HandInv, EveryNodeHasOneOwner, Holders, Holding,
     ListInv, PushStage, PopStage, Settled, Linked, Last1, CountInv, Passed
<1> QED BY <1>1, <1>2

(* The inductive invariant holds in every reachable state.                 *)
THEOREM Invariance == Spec => []IInv
<1> QED BY InitInv, Inductive, PTL DEF Spec

(* Every variable keeps its C type, whatever the threads do.               *)
THEOREM TypeCorrect == Spec => []TypeOK
<1>1. IInv => TypeOK BY DEF IInv
<1> QED BY <1>1, Invariance, PTL

(* The compare-and-swap lock lets one thread at a time between LOCK() and  *)
(* UNLOCK() (queue.c:16-44).                                               *)
THEOREM MutexCorrect == Spec => []MutualExclusion
<1>1. IInv => MutualExclusion BY DEF IInv
<1> QED BY <1>1, Invariance, PTL

(* Every node that BufferInQueue has malloc'ed and main_loop has not freed *)
(* is in the queue once or in the hands of one thread.                     *)
THEOREM OwnerCorrect == Spec => []EveryNodeHasOneOwner
<1>1. IInv => EveryNodeHasOneOwner BY DEF IInv
<1> QED BY <1>1, Invariance, PTL

(* Whenever the lock is free the linked list is the queue, in both         *)
(* directions, and list->size counts it.                                   *)
THEOREM ListCorrect == Spec => []ListIsTheQueue
<1>1. ASSUME IInv PROVE ListIsTheQueue
  <2>1. SUFFICES ASSUME lock = 0 PROVE Settled(order) /\ size = Len(order)
    BY DEF ListIsTheQueue
  <2>2. \A t \in Threads : pc[t] \notin CriticalLabels
    BY <1>1, <2>1 DEF IInv, MutualExclusion, InCritical
  <2>3. \A t \in Threads : pc[t] \notin PushingLabels \cup PoppingLabels
    BY <2>2 DEF CriticalLabels, HandLabels, PopHandLabels, PushingLabels, PoppingLabels
  <2> QED BY <1>1, <2>3 DEF IInv, ListInv, CountInv
<1> QED BY <1>1, Invariance, PTL

(* The size test under its own acquisition of the lock lets each producer  *)
(* take the queue one past MAX_PCK, and no further.                        *)
THEOREM BoundCorrect == Spec => []QueueBound
<1>1. ASSUME IInv PROVE QueueBound
  BY <1>1, PassedCardinality, DataAssumption DEF IInv, CountInv, QueueBound, TypeOK
<1> QED BY <1>1, Invariance, PTL

(* A thread's pointers are to nodes that it or the queue owns.             *)
LEMMA SafeAccess == IInv => NoDanglingAccess
<1> SUFFICES ASSUME IInv PROVE NoDanglingAccess OBVIOUS
<1> USE DataAssumption, ThreadsAssumption DEF IInv
<1>1. \A t \in Holders : node[t] \in alloc BY DEF EveryNodeHasOneOwner
<1>2. order # <<>> => order[1] \in alloc /\ Last1(order) \in alloc
  <2>1. order \in Seq(Node) BY DEF TypeOK
  <2> QED BY <2>1 DEF EveryNodeHasOneOwner, ToSet, Last1
<1>3. ASSUME NEW p \in Producers PROVE Dereferences(p) \subseteq alloc
  <2>1. pc[p] \in HandLabels => node[p] \in alloc
    BY <1>1 DEF HandInv, HandLabels, Holders, Holding
  <2>2. pc[p] = "push_len" => node[p] \in alloc
    BY <1>2 DEF HandInv, HandLabels
  <2>3. pc[p] = "push_next" => tail \in alloc
    <3>1. SUFFICES ASSUME pc[p] = "push_next" PROVE tail \in alloc OBVIOUS
    <3>2. \A t \in Threads : pc[t] \notin PushingLabels \cup PoppingLabels
      BY <3>1 DEF MutualExclusion, InCritical, CriticalLabels, UnlockLabels,
           HandLabels, PopHandLabels, PushingLabels, PoppingLabels
    <3> QED BY <1>2, <3>1, <3>2 DEF ListInv, PushStage, Settled, Last1
  <2>4. pc[p] \in ProducerLabels BY DEF TypeOK
  <2> QED BY <2>1, <2>2, <2>3, <2>4
      DEF Dereferences, HandLabels, ProducerLabels, OfferLabels
<1>4. ASSUME NEW c \in Consumers PROVE Dereferences(c) \subseteq alloc
  <2>1. pc[c] \in PopHandLabels => node[c] \in alloc
    BY <1>1 DEF HandInv, PopHandLabels, Holders, Holding
  <2>2. pc[c] = "pop_prev" => head \in alloc
    BY <1>2 DEF ListInv, PopStage
  <2>3. pc[c] \in ConsumerLabels BY DEF TypeOK
  <2> QED BY <2>1, <2>2, <2>3 DEF Dereferences, PopHandLabels, ConsumerLabels
<1> QED BY <1>3, <1>4 DEF NoDanglingAccess

(* No step of LIST_RPUSH, LIST_LPOP or main_loop reads, writes or frees    *)
(* through a pointer that is not to a malloc'ed node.                      *)
THEOREM AccessCorrect == Spec => []NoDanglingAccess
<1> QED BY SafeAccess, Invariance, PTL

(* The refinement of PacketFifo: initial states, then steps.               *)
LEMMA RefinesInit == Init => Fifo!Init
<1> SUFFICES ASSUME Init PROVE Fifo!Init OBVIOUS
<1>1. \A p \in Producers : pc[p] \notin OfferLabels
  BY DEF Init, OfferLabels, HandLabels
<1>2. \A c \in Consumers : ~Holding(c) BY DEF Init, Holding
<1>3. Queue = <<>> BY DEF Init, Queue
<1> QED BY <1>1, <1>2, <1>3 DEF Fifo!Init, Offered, Taken

(* Receive offers, the full queue and the refused packet drop, ++size puts,*)
(* --size takes, free finishes; every other step changes none of Queue,    *)
(* Offered and Taken (<1>h).                                               *)
LEMMA RefinesStep == IInv /\ [Next]_vars => [Fifo!Next]_(Fifo!vars)
<1> SUFFICES ASSUME IInv, [Next]_vars PROVE [Fifo!Next]_(Fifo!vars)
  OBVIOUS
<1> USE DataAssumption, ThreadsAssumption
<1>0. TypeOK /\ HandInv /\ ListInv /\ EveryNodeHasOneOwner /\ CountInv /\ MutualExclusion
  BY DEF IInv
<1>a. order \in Seq(Node) BY <1>0 DEF TypeOK
<1>b. \A i \in DOMAIN order : order[i] \in alloc
  BY <1>0 DEF EveryNodeHasOneOwner, ToSet
<1>c. \A t \in Threads : Holding(t) => node[t] \in alloc
  BY <1>0 DEF EveryNodeHasOneOwner, Holders
(* The queue of packets changes only when order does. *)
<1>d. (order' = order /\ \A n \in alloc : data'[n] = data[n]) => Queue' = Queue
  BY <1>b DEF Queue
<1>e. ASSUME \A c \in Consumers : Holding(c)' <=> Holding(c),
             \A c \in Consumers : Holding(c) => data'[node'[c]] = data[node[c]]
      PROVE  Taken' = Taken
  BY <1>e DEF Taken
<1>f. ASSUME \A p \in Producers : pc'[p] \in OfferLabels <=> pc[p] \in OfferLabels,
             \A p \in Producers : pc[p] \in OfferLabels => buf'[p] = buf[p]
      PROVE  Offered' = Offered
  BY <1>f DEF Offered
<1>g. ASSUME Queue' = Queue, Offered' = Offered, Taken' = Taken
      PROVE  [Fifo!Next]_(Fifo!vars)
  BY <1>g DEF Fifo!vars
<1>h. ASSUME NEW t \in Threads, order' = order, data' = data, buf' = buf,
             NEW l \in Labels, pc' = [pc EXCEPT ![t] = l],
             l \in OfferLabels <=> pc[t] \in OfferLabels,
             \A u \in Threads : Holding(u)' <=> Holding(u),
             \A u \in Threads : Holding(u) => node'[u] = node[u]
      PROVE  [Fifo!Next]_(Fifo!vars)
  <2>1. \A p \in Producers : pc'[p] \in OfferLabels <=> pc[p] \in OfferLabels
    BY <1>0, <1>h DEF TypeOK
  <2> QED BY <1>d, <1>e, <1>f, <1>g, <1>h, <2>1
<1> USE DEF Goto, lockVars, listVars, nodeVars, localVars
<1>1. ASSUME NEW t \in Threads, AtomicLock(t) PROVE [Fifo!Next]_(Fifo!vars)
  <2>1. AfterLock(pc[t]) \in Labels /\ (AfterLock(pc[t]) \in OfferLabels <=> pc[t] \in OfferLabels)
    BY <1>1 DEF AtomicLock, AfterLock, LockLabels, Labels, ProducerLabels,
      ConsumerLabels, OfferLabels, HandLabels, PopHandLabels
  <2>2. \A u \in Threads : Holding(u)' <=> Holding(u)
    BY <1>0, <1>1 DEF AtomicLock, AfterLock, LockLabels, Holding, TypeOK
  <2> QED BY <1>h, <1>1, <2>1, <2>2 DEF AtomicLock
<1>2. ASSUME NEW t \in Threads, AtomicUnlock(t) PROVE [Fifo!Next]_(Fifo!vars)
  <2>1. \A u \in Threads : Holding(u)' <=> Holding(u)
    BY <1>0, <1>2 DEF AtomicUnlock, AfterUnlock, UnlockLabels, Holding, TypeOK
  <2>2. AfterUnlock(t) \in Labels
    BY <1>2 DEF AtomicUnlock, AfterUnlock, UnlockLabels, Labels, ProducerLabels,
      ConsumerLabels, OfferLabels, HandLabels, PopHandLabels
  <2>3. CASE pc[t] = "size_unlock" /\ seen[t] > MAX_PCK
    <3>1. t \in Producers /\ AfterUnlock(t) = "recv"
      BY <1>0, <2>3 DEF TypeOK, ConsumerLabels, PopHandLabels, AfterUnlock
    <3>2. Offered[t] # NoPacket
      BY <1>0, <2>3, <3>1 DEF Offered, HandInv, OfferLabels
    <3>3. Offered' = [Offered EXCEPT ![t] = NoPacket]
      BY <1>0, <1>2, <3>1 DEF AtomicUnlock, Offered, TypeOK, OfferLabels, HandLabels
    <3>4. Queue' = Queue /\ Taken' = Taken
      BY <1>2, <1>d, <1>e, <2>1 DEF AtomicUnlock
    <3> QED BY <3>1, <3>2, <3>3, <3>4 DEF Fifo!Next, Fifo!Drop
  <2>4. CASE ~(pc[t] = "size_unlock" /\ seen[t] > MAX_PCK)
    <3>1. AfterUnlock(t) \in OfferLabels <=> pc[t] \in OfferLabels
      BY <1>2, <2>4 DEF AtomicUnlock, AfterUnlock, UnlockLabels, OfferLabels, HandLabels
    <3> QED BY <1>h, <1>2, <2>1, <2>2, <3>1 DEF AtomicUnlock
  <2> QED BY <2>3, <2>4
<1>l. /\ {"recv", "stopped", "size_lock", "size_read", "size_unlock", "enqueue",
          "log_read", "log_unlock", "push_len", "push_unlock"} \subseteq Labels
      /\ {"empty_read", "empty_unlock", "pop_test", "pop_node", "pop_size",
          "pop_unlock", "process", "free", "empty_lock"} \subseteq Labels
      /\ HandLabels \cup PopHandLabels \subseteq Labels
  BY DEF Labels, ProducerLabels, ConsumerLabels, OfferLabels, HandLabels, PopHandLabels
<1> USE DEF OfferLabels, HandLabels
<1>3. ASSUME NEW t \in Threads, ReadSize(t) PROVE [Fifo!Next]_(Fifo!vars)
  BY <1>0, <1>h, <1>l, <1>3 DEF ReadSize, Holding, TypeOK
<1>4. ASSUME NEW p \in Producers, Receive(p) PROVE [Fifo!Next]_(Fifo!vars)
  <2>1. PICK pkt \in Packets : buf' = [buf EXCEPT ![p] = pkt]
    BY <1>4 DEF Receive
  <2>2. Offered[p] = NoPacket BY <1>4 DEF Receive, Offered
  <2>3. Offered' = [Offered EXCEPT ![p] = pkt]
    BY <1>0, <1>4, <2>1 DEF Receive, Offered, TypeOK
  <2>4. Queue' = Queue /\ Taken' = Taken
    BY <1>0, <1>4, <1>d, <1>e DEF Receive, Holding, TypeOK
  <2> QED BY <2>2, <2>3, <2>4 DEF Fifo!Next, Fifo!Offer
<1>5. ASSUME NEW p \in Producers, ReceiveFails(p) \/ LogSize(p)
      PROVE  [Fifo!Next]_(Fifo!vars)
  BY <1>0, <1>h, <1>l, <1>5 DEF ReceiveFails, LogSize, Holding, TypeOK
<1>6. ASSUME NEW p \in Producers, Reject(p) PROVE [Fifo!Next]_(Fifo!vars)
  <2>1. Offered[p] # NoPacket BY <1>0, <1>6 DEF Reject, Offered, HandInv
  <2>2. Offered' = [Offered EXCEPT ![p] = NoPacket]
    BY <1>0, <1>6 DEF Reject, Offered, TypeOK
  <2>3. Queue' = Queue /\ Taken' = Taken
    BY <1>0, <1>6, <1>d, <1>e DEF Reject, Holding, TypeOK
  <2> QED BY <2>1, <2>2, <2>3 DEF Fifo!Next, Fifo!Drop
<1>7. ASSUME NEW p \in Producers, Allocate(p) PROVE [Fifo!Next]_(Fifo!vars)
  <2>1. \A n \in alloc : data'[n] = data[n]
    BY <1>0, <1>7 DEF Allocate, TypeOK
  <2>2. Queue' = Queue BY <1>7, <1>d, <2>1 DEF Allocate
  <2>3. \A c \in Consumers : (Holding(c)' <=> Holding(c)) /\ node'[c] = node[c]
    BY <1>0, <1>7 DEF Allocate, Holding, TypeOK
  <2>4. Taken' = Taken BY <1>c, <1>e, <2>1, <2>3
  <2>5. Offered' = Offered
    BY <1>0, <1>7, <1>f DEF Allocate, TypeOK
  <2> QED BY <1>g, <2>2, <2>4, <2>5
<1>8. ASSUME NEW p \in Producers, Push(p), ~PushSize(p) PROVE [Fifo!Next]_(Fifo!vars)
  BY <1>0, <1>h, <1>l, <1>8 DEF Push, PushTest, PushPrev, PushNext, PushTail,
     PushFirstTail, PushFirstHead, PushFirstLinks, PushLen, Holding, TypeOK
<1>9. ASSUME NEW p \in Producers, PushSize(p) PROVE [Fifo!Next]_(Fifo!vars)
  <2>1. /\ pc[p] = "push_size" /\ order' = Append(order, node[p])
        /\ size' = size + 1 /\ data' = data /\ node' = node /\ buf' = buf
        /\ pc' = [pc EXCEPT ![p] = "push_len"]
    BY <1>9 DEF PushSize
  <2>2. /\ node[p] \in Node /\ data[node[p]] = buf[p] /\ buf[p] \in Packets
    BY <1>0, <2>1 DEF HandInv
  <2>3. Offered[p] = buf[p] /\ Offered[p] # NoPacket
    BY <2>1, <2>2 DEF Offered
  <2>4. Offered' = [Offered EXCEPT ![p] = NoPacket]
    BY <1>0, <2>1 DEF Offered, TypeOK
  <2>5. Taken' = Taken BY <1>0, <1>e, <2>1 DEF Holding, TypeOK
  <2>6. Queue' = Append(Queue, Offered[p])
    <3>1. /\ DOMAIN order = 1 .. Len(order) /\ DOMAIN order' = 1 .. Len(order) + 1
          /\ Len(order) \in Nat
          /\ order'[Len(order) + 1] = node[p]
          /\ \A i \in 1 .. Len(order) : order'[i] = order[i]
      BY <1>a, <2>1, <2>2
    <3>2. Queue \in Seq(Packets \cup {NoPacket}) /\ Len(Queue) = Len(order)
      BY <1>0, <1>a, <3>1 DEF Queue, TypeOK
    <3> QED BY <2>1, <2>2, <2>3, <3>1, <3>2 DEF Queue
  <2>7. Len(Queue) < MAX_PCK + Cardinality(Producers)
    <3>1. Len(Queue) = Len(order)
      BY <1>a DEF Queue
    <3>2. p \in Passed BY <2>1 DEF Passed
    <3>3. Cardinality(Passed \ {p}) \in Nat
      BY PassedCardinality, FS_RemoveElement, FS_CardinalityType
    <3>4. Cardinality(Passed) >= 1 BY <3>2, <3>3, PassedCardinality
    <3> QED BY <1>0, <1>a, <3>1, <3>4, PassedCardinality DEF CountInv
  <2> QED BY <2>3, <2>4, <2>5, <2>6, <2>7 DEF Fifo!Next, Fifo!Put
<1>10. ASSUME NEW c \in Consumers, Pop(c), ~PopSize(c) PROVE [Fifo!Next]_(Fifo!vars)
  <2>1. /\ order' = order /\ data' = data /\ buf' = buf
        /\ \A u \in Threads : Holding(u)' <=> Holding(u)
        /\ \A u \in Threads : Holding(u) => node'[u] = node[u]
    BY <1>0, <1>10 DEF Pop, PopTest, PopNode, PopHead, PopPrev, PopLastTail,
       PopLastHead, PopLinks, PopLen, Holding, TypeOK, HandInv, PopHandLabels
  <2>2. PICK l \in {"pop_node", "pop_unlock", "pop_size", "pop_prev", "pop_links",
                    "pop_last_head", "pop_len"} : pc' = [pc EXCEPT ![c] = l]
    BY <1>10 DEF Pop, PopTest, PopNode, PopHead, PopPrev, PopLastTail,
       PopLastHead, PopLinks, PopLen
  <2>3. l \in Labels /\ l \notin OfferLabels BY <1>l DEF PopHandLabels
  <2>4. pc[c] \notin OfferLabels BY <1>0 DEF TypeOK, ConsumerLabels, PopHandLabels
  <2> QED BY <1>h, <2>1, <2>2, <2>3, <2>4
<1>11. ASSUME NEW c \in Consumers, PopSize(c) PROVE [Fifo!Next]_(Fifo!vars)
  <2>1. /\ pc[c] = "pop_size" /\ order' = Tail(order)
        /\ data' = data /\ node' = node /\ buf' = buf
        /\ \/ pc' = [pc EXCEPT ![c] = "pop_head"]
           \/ pc' = [pc EXCEPT ![c] = "pop_last_tail"]
    BY <1>11 DEF PopSize
  <2>2. order # <<>> /\ node[c] = order[1]
    <3>1. order # <<>> /\ node[c] = head BY <1>0, <2>1 DEF ListInv, PopStage
    <3>2. \A t \in Threads : pc[t] \notin PushingLabels \cup PoppingLabels
      BY <1>0, <2>1 DEF MutualExclusion, InCritical, CriticalLabels, PushingLabels,
                  PoppingLabels, UnlockLabels, PopHandLabels
    <3> QED BY <1>0, <3>1, <3>2 DEF ListInv, Settled
  <2>3. Taken[c] = NoPacket BY <2>1 DEF Taken, Holding
  <2>4. Queue # <<>> /\ Head(Queue) = data[node[c]]
    BY <1>a, <2>2 DEF Queue
  <2>5. Taken' = [Taken EXCEPT ![c] = Head(Queue)]
    <3>1. node[c] \in Node BY <1>a, <2>2
    <3>2. Holding(c)' BY <1>0, <2>1, <3>1 DEF Holding, TypeOK
    <3>3. \A d \in Consumers \ {c} : Holding(d)' <=> Holding(d)
      BY <1>0, <2>1 DEF Holding, TypeOK
    <3> QED BY <2>1, <2>4, <3>2, <3>3 DEF Taken
  <2>6. Queue' = Tail(Queue)
    <3>1. /\ Len(order') = Len(order) - 1 /\ Len(order) \in Nat
          /\ DOMAIN order = 1 .. Len(order) /\ DOMAIN order' = 1 .. Len(order) - 1
          /\ \A i \in 1 .. Len(order) - 1 : order'[i] = order[i + 1]
      BY <1>a, <2>1, <2>2
    <3>2. Queue \in Seq(Packets \cup {NoPacket}) /\ Len(Queue) = Len(order)
      BY <1>0, <1>a, <3>1 DEF Queue, TypeOK
    <3> QED BY <2>1, <2>4, <3>1, <3>2 DEF Queue
  <2>7. Offered' = Offered BY <1>0, <1>f, <2>1 DEF TypeOK
  <2> QED BY <2>3, <2>4, <2>5, <2>6, <2>7 DEF Fifo!Next, Fifo!Take
<1>12. ASSUME NEW c \in Consumers, Process(c) PROVE [Fifo!Next]_(Fifo!vars)
  BY <1>0, <1>h, <1>l, <1>12 DEF Process, Holding, TypeOK
<1>13. ASSUME NEW c \in Consumers, Free(c) PROVE [Fifo!Next]_(Fifo!vars)
  <2>1. /\ pc[c] = "free" /\ order' = order /\ data' = data /\ buf' = buf
        /\ node' = [node EXCEPT ![c] = NULL] /\ pc' = [pc EXCEPT ![c] = "empty_lock"]
    BY <1>13 DEF Free
  <2>2. node[c] \in Node BY <1>0, <2>1 DEF HandInv, PopHandLabels
  <2>3. Holding(c) BY <2>1, <2>2 DEF Holding
  <2>4. data[node[c]] \in Packets BY <1>0, <1>c, <2>3 DEF HandInv
  <2>5. Taken[c] # NoPacket BY <2>3, <2>4 DEF Taken
  <2>6. Taken' = [Taken EXCEPT ![c] = NoPacket]
    BY <1>0, <2>1 DEF Taken, Holding, TypeOK
  <2>7. Queue' = Queue /\ Offered' = Offered
    BY <1>0, <1>d, <1>f, <2>1 DEF TypeOK
  <2> QED BY <2>5, <2>6, <2>7 DEF Fifo!Next, Fifo!Finish
<1>14. CASE UNCHANGED vars
  BY <1>14, <1>g DEF vars, Queue, Offered, Taken, Holding
<1> QED BY <1>1, <1>2, <1>3, <1>4, <1>5, <1>6, <1>7, <1>8, <1>9, <1>10, <1>11,
           <1>12, <1>13, <1>14 DEF Next, Work

(* The linked list under its spin lock implements the bounded first-in     *)
(* first-out channel of PacketFifo.                                        *)
THEOREM Refinement == Spec => ImplementsFifo
<1> QED BY RefinesInit, RefinesStep, Invariance, PTL
        DEF Spec, ImplementsFifo, Fifo!Spec

(* Three facts about cardinalities.                                        *)
LEMMA ImageBound ==
  ASSUME NEW S, IsFiniteSet(S), NEW T, NEW f \in [S -> T]
  PROVE  /\ IsFiniteSet({f[x] : x \in S})
         /\ Cardinality({f[x] : x \in S}) \in Nat
         /\ Cardinality(S) \in Nat
         /\ Cardinality({f[x] : x \in S}) <= Cardinality(S)
<1>1. f \in Surjection(S, {f[x] : x \in S})
  BY DEF Surjection
<1> QED BY <1>1, FS_Surjection, FS_CardinalityType

LEMMA SeqRangeBound ==
  ASSUME NEW T, NEW s \in Seq(T)
  PROVE  /\ IsFiniteSet({s[i] : i \in 1 .. Len(s)})
         /\ Cardinality({s[i] : i \in 1 .. Len(s)}) <= Len(s)
<1>1. IsFiniteSet(1 .. Len(s)) /\ Cardinality(1 .. Len(s)) = Len(s)
  <2>1. Len(s) \in Nat OBVIOUS
  <2> QED BY <2>1, FS_Interval
<1>2. s \in [1 .. Len(s) -> T] OBVIOUS
<1> QED BY <1>1, <1>2, ImageBound

LEMMA UnionBound ==
  ASSUME NEW A, IsFiniteSet(A), NEW B, IsFiniteSet(B)
  PROVE  /\ IsFiniteSet(A \cup B)
         /\ Cardinality(A) \in Nat /\ Cardinality(B) \in Nat
         /\ Cardinality(A \cup B) \in Nat
         /\ Cardinality(A \cup B) <= Cardinality(A) + Cardinality(B)
<1>1. Cardinality(A \cap B) \in Nat
  BY FS_Subset, FS_CardinalityType
<1>2. /\ IsFiniteSet(A \cup B)
      /\ Cardinality(A \cup B) = Cardinality(A) + Cardinality(B) - Cardinality(A \cap B)
  BY FS_Union
<1>3. /\ Cardinality(A) \in Nat /\ Cardinality(B) \in Nat
      /\ Cardinality(A \cup B) \in Nat
  BY <1>2, FS_CardinalityType
<1> QED BY <1>1, <1>2, <1>3

(* The nodes allocated at any time are bounded: those in the queue, those  *)
(* of the producers that have passed the size test, one per consumer.      *)
THEOREM MemoryCorrect == Spec => []MemoryBound
<1> DEFINE Queued == {order[i] : i \in 1 .. Len(order)}
           PH == Holders \cap Producers
           CH == Holders \cap Consumers
           PN == {node[p] : p \in PH}
           CN == {node[c] : c \in CH}
<1>1. ASSUME IInv PROVE MemoryBound
  <2>0. TypeOK /\ HandInv /\ EveryNodeHasOneOwner /\ CountInv
    BY <1>1 DEF IInv
  <2>1. alloc = Queued \cup (PN \cup CN)
    <3>1. order \in Seq(Node) BY <2>0 DEF TypeOK
    <3>2. ToSet(order) = Queued BY <3>1 DEF ToSet
    <3>3. Holders = PH \cup CH BY DEF Holders
    <3> QED BY <2>0, <3>2, <3>3 DEF EveryNodeHasOneOwner
  <2>2. IsFiniteSet(Queued) /\ Cardinality(Queued) <= Len(order)
    <3>1. order \in Seq(Node) BY <2>0 DEF TypeOK
    <3> QED BY <3>1, SeqRangeBound
  <2>3. IsFiniteSet(PH) /\ Cardinality(PH) <= Cardinality(Passed)
    <3>1. PH \subseteq Passed
      BY <2>0, ThreadsAssumption DEF Passed, HandInv, Holders, Holding
    <3> QED BY <3>1, PassedCardinality, FS_Subset
  <2>4. IsFiniteSet(CH) /\ Cardinality(CH) <= Cardinality(Consumers)
    <3>1. CH \subseteq Consumers OBVIOUS
    <3> QED BY <3>1, ThreadsAssumption, FS_Subset
  <2>5. IsFiniteSet(PN) /\ Cardinality(PN) <= Cardinality(PH)
    <3> DEFINE f == [p \in PH |-> node[p]]
    <3>1. f \in [PH -> Pointer] BY <2>0 DEF TypeOK
    <3>2. PN = {f[p] : p \in PH} OBVIOUS
    <3> HIDE DEF PN, PH, f
    <3>3. /\ IsFiniteSet({f[p] : p \in PH})
          /\ Cardinality({f[p] : p \in PH}) <= Cardinality(PH)
      BY <2>3, <3>1, ImageBound
    <3> QED BY <3>2, <3>3
  <2>6. IsFiniteSet(CN) /\ Cardinality(CN) <= Cardinality(CH)
    <3> DEFINE f == [c \in CH |-> node[c]]
    <3>1. f \in [CH -> Pointer] BY <2>0 DEF TypeOK
    <3>2. CN = {f[c] : c \in CH} OBVIOUS
    <3> HIDE DEF CN, CH, f
    <3>3. /\ IsFiniteSet({f[c] : c \in CH})
          /\ Cardinality({f[c] : c \in CH}) <= Cardinality(CH)
      BY <2>4, <3>1, ImageBound
    <3> QED BY <3>2, <3>3
  <2> HIDE DEF Queued, PN, CN, PH, CH
  <2>7. /\ IsFiniteSet(PN \cup CN)
        /\ Cardinality(PN \cup CN) <= Cardinality(PN) + Cardinality(CN)
    BY <2>5, <2>6, UnionBound
  <2>8. Cardinality(alloc) <= Cardinality(Queued) + Cardinality(PN \cup CN)
    BY <2>1, <2>2, <2>7, UnionBound
  <2>9. size = Len(order) /\ size + Cardinality(Passed) <= MAX_PCK + Cardinality(Producers)
    BY <2>0 DEF CountInv
  <2>10. /\ Len(order) \in Nat /\ MAX_PCK \in Nat
         /\ Cardinality(Passed) \in Nat /\ Cardinality(Producers) \in Nat
         /\ Cardinality(Consumers) \in Nat
    BY <2>0, PassedCardinality, DataAssumption, ThreadsAssumption,
       FS_CardinalityType DEF TypeOK
  <2>11. /\ Cardinality(Queued) \in Nat /\ Cardinality(PN \cup CN) \in Nat
         /\ Cardinality(alloc) \in Nat
    BY <2>1, <2>2, <2>7, UnionBound
  <2>12. /\ Cardinality(PN) \in Nat /\ Cardinality(CN) \in Nat
         /\ Cardinality(PH) \in Nat /\ Cardinality(CH) \in Nat
    BY <2>3, <2>4, <2>5, <2>6, FS_CardinalityType
  <2> HIDE DEF MAX_LEN, Passed
  <2>13. Cardinality(PN \cup CN) <= Cardinality(Passed) + Cardinality(Consumers)
    BY <2>3, <2>4, <2>5, <2>6, <2>7, <2>10, <2>11, <2>12
  <2>14. Cardinality(Queued) <= Len(order) BY <2>2
  <2> QED BY <2>8, <2>9, <2>10, <2>11, <2>13, <2>14 DEF MemoryBound
<1> QED BY <1>1, Invariance, PTL

(* With one consumer, only that consumer makes the queue shorter.          *)
LEMMA StillNotEmptyStep ==
  ASSUME \A c, d \in Consumers : c = d, IInv, StillNotEmpty, [Next]_vars
  PROVE  StillNotEmpty'
<1> USE ThreadsAssumption DEF StillNotEmpty, Goto, lockVars, listVars, nodeVars, localVars, TypeOK
<1>0. TypeOK /\ size \in Nat BY DEF IInv, CountInv
<1> USE <1>0
<1>1. ASSUME NEW t \in Threads, AtomicLock(t) PROVE StillNotEmpty'
  BY <1>1 DEF AtomicLock, AfterLock, LockLabels
<1>2. ASSUME NEW t \in Threads, AtomicUnlock(t) PROVE StillNotEmpty'
  BY <1>2 DEF AtomicUnlock, AfterUnlock, UnlockLabels
<1>3. ASSUME NEW t \in Threads, ReadSize(t) PROVE StillNotEmpty'
  BY <1>3 DEF ReadSize
<1>4. ASSUME NEW p \in Producers,
             Receive(p) \/ ReceiveFails(p) \/ LogSize(p) \/ Reject(p) \/ Allocate(p)
      PROVE  StillNotEmpty'
  BY <1>4 DEF Receive, ReceiveFails, LogSize, Reject, Allocate
<1>5. ASSUME NEW p \in Producers, Push(p) PROVE StillNotEmpty'
  BY <1>5 DEF Push, PushTest, PushPrev, PushNext, PushTail, PushFirstTail,
     PushFirstHead, PushFirstLinks, PushSize, PushLen
<1>6. ASSUME NEW c \in Consumers, Pop(c) PROVE StillNotEmpty'
  BY <1>6 DEF Pop, PopTest, PopNode, PopSize, PopHead, PopPrev, PopLastTail,
     PopLastHead, PopLinks, PopLen
<1>7. ASSUME NEW c \in Consumers, Process(c) \/ Free(c) PROVE StillNotEmpty'
  BY <1>7 DEF Process, Free
<1>8. CASE UNCHANGED vars BY <1>8 DEF vars
<1> QED BY <1>1, <1>2, <1>3, <1>4, <1>5, <1>6, <1>7, <1>8 DEF Next, Work

(* With one consumer, as in the program, the pop that follows IsEmptyQueue *)
(* always finds a packet, although it runs under a second acquisition of   *)
(* the lock.                                                               *)
THEOREM PopCorrect ==
  ASSUME \A c, d \in Consumers : c = d
  PROVE  Spec => []PopFindsPacket
<1>1. Init => StillNotEmpty BY ThreadsAssumption DEF Init, StillNotEmpty
<1>2. StillNotEmpty => PopFindsPacket BY DEF StillNotEmpty, PopFindsPacket
<1> QED BY <1>1, <1>2, StillNotEmptyStep, Invariance, PTL DEF Spec

-----------------------------------------------------------------------------
(***************************************************************************)
(* list->len.  What BytesIn computes by recursion is proved by taking the  *)
(* least index at which it would be wrong.                                 *)
(***************************************************************************)

(* Every non-empty set of naturals has a least element.                    *)
LEMMA Least ==
  ASSUME NEW T \in SUBSET Nat, T # {}
  PROVE  \E m \in T : \A y \in T : m <= y
<1>1. IsWellFoundedOn(OpToRel(<, Nat), Nat)
  BY NatLessThanWellFounded
<1>2. PICK m \in T : \A y \in T : ~(<<y, m>> \in OpToRel(<, Nat))
  BY <1>1, WFMin
<1>3. \A y \in T : ~(y < m)
  BY <1>2 DEF OpToRel
<1> QED BY <1>3

(* The partial sums of a.                                                  *)
IsSums(f, n, a) == f = [i \in 0 .. n |-> IF i = 0 THEN 0 ELSE f[i - 1] + a[i]]

LEMMA SumsExist ==
  ASSUME NEW n \in Nat, NEW a \in [1 .. n -> Int]
  PROVE  \E f \in [0 .. n -> Int] : IsSums(f, n, a)
<1> DEFINE T == {m \in 0 .. n : ~ \E f \in [0 .. m -> Int] : IsSums(f, m, a)}
<1>1. SUFFICES ASSUME T # {} PROVE FALSE
  <2>1. n \in 0 .. n OBVIOUS
  <2>2. n \notin T BY <1>1
  <2> QED BY <2>1, <2>2
<1>2. PICK m \in T : \A y \in T : m <= y
  <2>1. T \in SUBSET Nat OBVIOUS
  <2> HIDE DEF T
  <2> QED BY <1>1, <2>1, Least
<1>3. m \in 0 .. n /\ ~ \E f \in [0 .. m -> Int] : IsSums(f, m, a) BY <1>2
<1>4. CASE m = 0
  <2> DEFINE f == [i \in 0 .. m |-> 0]
  <2>1. f \in [0 .. m -> Int] /\ IsSums(f, m, a) BY <1>4 DEF IsSums
  <2> QED BY <1>3, <2>1
<1>5. CASE m > 0
  <2>1. m - 1 \in 0 .. n /\ m - 1 \notin T BY <1>2, <1>3, <1>5
  <2>2. PICK f \in [0 .. m - 1 -> Int] : IsSums(f, m - 1, a) BY <2>1
  <2> DEFINE g == [i \in 0 .. m |-> IF i = m THEN f[m - 1] + a[m] ELSE f[i]]
  <2>3. g \in [0 .. m -> Int] BY <1>3, <1>5
  <2>4. \A i \in 0 .. m - 1 : f[i] = IF i = 0 THEN 0 ELSE f[i - 1] + a[i]
    BY <2>2 DEF IsSums
  <2>5. \A i \in 0 .. m : g[i] = IF i = 0 THEN 0 ELSE g[i - 1] + a[i]
    BY <1>3, <1>5, <2>4
  <2>6. IsSums(g, m, a) BY <2>5 DEF IsSums
  <2> HIDE DEF g
  <2> QED BY <1>3, <2>3, <2>6
<1> QED BY <1>3, <1>4, <1>5

(* Functions that begin together and grow together end together.           *)
LEMMA SumsAgree ==
  ASSUME NEW n \in Nat, NEW f \in [0 .. n -> Int], NEW g \in [0 .. n -> Int],
         f[0] = g[0], \A i \in 1 .. n : f[i] - f[i - 1] = g[i] - g[i - 1]
  PROVE  f[n] = g[n]
<1> DEFINE T == {i \in 0 .. n : f[i] # g[i]}
<1>1. ASSUME T # {} PROVE FALSE
  <2>1. PICK m \in T : \A y \in T : m <= y
    <3>1. T \in SUBSET Nat OBVIOUS
    <3> HIDE DEF T
    <3> QED BY <1>1, <3>1, Least
  <2>2. m \in 1 .. n BY <2>1
  <2>3. m - 1 \in 0 .. n /\ m - 1 \notin T BY <2>1, <2>2
  <2>4. f[m] \in Int /\ g[m] \in Int /\ f[m - 1] \in Int /\ g[m - 1] \in Int
    BY <2>2, <2>3
  <2> QED BY <2>1, <2>2, <2>3, <2>4
<1> QED BY <1>1

LEMMA PacketLenType == \A pkt \in Packets : PacketLen[pkt] \in Int
<1>1. \A k \in 0 .. MAX_LEN : k \in Int BY DEF MAX_LEN
<1> QED BY <1>1, DataAssumption

(* BytesIn is the last of the partial sums.                                *)
LEMMA BytesSums ==
  ASSUME NEW s \in Seq(Node), NEW d, \A i \in 1 .. Len(s) : d[s[i]] \in Packets
  PROVE  \E f \in [0 .. Len(s) -> Int] :
           /\ f[0] = 0
           /\ \A i \in 1 .. Len(s) : f[i] = f[i - 1] + PacketLen[d[s[i]]]
           /\ BytesIn(s, d) = f[Len(s)]
<1> DEFINE a == [i \in 1 .. Len(s) |-> PacketLen[d[s[i]]]]
           n == Len(s)
           h == CHOOSE h : h = [i \in 0 .. Len(s) |-> IF i = 0 THEN 0
                                                      ELSE h[i - 1] + PacketLen[d[s[i]]]]
<1> HIDE DEF h
<1>1. n \in Nat /\ a \in [1 .. n -> Int] BY PacketLenType
<1>2. PICK f \in [0 .. n -> Int] : IsSums(f, n, a)
  <2> HIDE DEF a, n
  <2> QED BY <1>1, SumsExist
<1>3. f = [i \in 0 .. Len(s) |-> IF i = 0 THEN 0 ELSE f[i - 1] + PacketLen[d[s[i]]]]
  <2>1. \A i \in 0 .. n : f[i] = IF i = 0 THEN 0 ELSE f[i - 1] + a[i]
    BY <1>2 DEF IsSums
  <2>2. \A i \in 1 .. n : a[i] = PacketLen[d[s[i]]] OBVIOUS
  <2> HIDE DEF a
  <2>3. \A i \in 0 .. n : i # 0 => i \in 1 .. n BY <1>1
  <2>4. \A i \in 0 .. n : f[i] = IF i = 0 THEN 0 ELSE f[i - 1] + PacketLen[d[s[i]]]
    BY <2>1, <2>2, <2>3
  <2>5. f = [i \in 0 .. n |-> f[i]] OBVIOUS
  <2> QED BY <2>4, <2>5
<1>4. h = [i \in 0 .. Len(s) |-> IF i = 0 THEN 0 ELSE h[i - 1] + PacketLen[d[s[i]]]]
  BY <1>3 DEF h
<1>5. BytesIn(s, d) = h[Len(s)] BY DEF BytesIn, h
<1>6. /\ h[0] = 0
      /\ \A i \in 1 .. n : h[i] = h[i - 1] + a[i] /\ a[i] = PacketLen[d[s[i]]]
  <2>1. \A i \in 0 .. n : h[i] = IF i = 0 THEN 0 ELSE h[i - 1] + PacketLen[d[s[i]]]
    BY <1>4
  <2>2. \A i \in 1 .. n : i \in 0 .. n /\ i # 0 /\ a[i] = PacketLen[d[s[i]]] BY <1>1
  <2>3. 0 \in 0 .. n BY <1>1
  <2> HIDE DEF a, n
  <2> QED BY <2>1, <2>2, <2>3
<1> HIDE DEF a
<1>7. h \in [0 .. n -> Int]
  <2> DEFINE T == {i \in 0 .. n : h[i] \notin Int}
  <2>1. ASSUME T # {} PROVE FALSE
    <3>1. PICK m \in T : \A y \in T : m <= y
      <4>1. T \in SUBSET Nat OBVIOUS
      <4> HIDE DEF T
      <4> QED BY <2>1, <4>1, Least
    <3>2. m \in 1 .. n BY <1>1, <1>6, <3>1
    <3>3. m - 1 \in 0 .. n /\ m - 1 \notin T BY <1>1, <3>1, <3>2
    <3>4. h[m - 1] \in Int /\ a[m] \in Int BY <1>1, <3>2, <3>3
    <3>5. h[m] \in Int BY <1>6, <3>2, <3>4
    <3> QED BY <3>1, <3>5
  <2>2. \A i \in 0 .. n : h[i] \in Int BY <2>1
  <2> QED BY <1>4, <2>2
<1>8. h[0] = 0 /\ \A i \in 1 .. n : h[i] = h[i - 1] + PacketLen[d[s[i]]]
  BY <1>6
<1> QED BY <1>5, <1>7, <1>8

LEMMA BytesType ==
  ASSUME NEW s \in Seq(Node), NEW d, \A i \in 1 .. Len(s) : d[s[i]] \in Packets
  PROVE  BytesIn(s, d) \in Int
BY BytesSums

(* Only the content of the nodes of s counts.                              *)
LEMMA BytesSame ==
  ASSUME NEW s \in Seq(Node), NEW d, NEW e,
         \A i \in 1 .. Len(s) : d[s[i]] \in Packets /\ e[s[i]] = d[s[i]]
  PROVE  BytesIn(s, e) = BytesIn(s, d)
<1>1. PICK f \in [0 .. Len(s) -> Int] :
        /\ f[0] = 0 /\ \A i \in 1 .. Len(s) : f[i] = f[i - 1] + PacketLen[d[s[i]]]
        /\ BytesIn(s, d) = f[Len(s)]
  BY BytesSums
<1>2. PICK g \in [0 .. Len(s) -> Int] :
        /\ g[0] = 0 /\ \A i \in 1 .. Len(s) : g[i] = g[i - 1] + PacketLen[e[s[i]]]
        /\ BytesIn(s, e) = g[Len(s)]
  BY BytesSums
<1>3. \A i \in 1 .. Len(s) : f[i] - f[i - 1] = g[i] - g[i - 1]
  <2>1. SUFFICES ASSUME NEW i \in 1 .. Len(s) PROVE f[i] - f[i - 1] = g[i] - g[i - 1]
    OBVIOUS
  <2>2. PacketLen[d[s[i]]] \in Int /\ PacketLen[e[s[i]]] = PacketLen[d[s[i]]]
    BY PacketLenType
  <2>3. i - 1 \in 0 .. Len(s) /\ i \in 0 .. Len(s) OBVIOUS
  <2>4. f[i] \in Int /\ f[i - 1] \in Int /\ g[i] \in Int /\ g[i - 1] \in Int BY <2>3
  <2>5. f[i] = f[i - 1] + PacketLen[d[s[i]]] BY <1>1
  <2>6. g[i] = g[i - 1] + PacketLen[d[s[i]]] BY <1>2, <2>2
  <2> QED BY <2>2, <2>4, <2>5, <2>6
<1>4. Len(s) \in Nat OBVIOUS
<1> QED BY <1>1, <1>2, <1>3, <1>4, SumsAgree

LEMMA BytesAppend ==
  ASSUME NEW s \in Seq(Node), NEW n \in Node, NEW d, d[n] \in Packets,
         \A i \in 1 .. Len(s) : d[s[i]] \in Packets
  PROVE  BytesIn(Append(s, n), d) = BytesIn(s, d) + PacketLen[d[n]]
<1> DEFINE t == Append(s, n)
<1>1. /\ t \in Seq(Node) /\ Len(t) = Len(s) + 1 /\ t[Len(s) + 1] = n
      /\ \A i \in 1 .. Len(s) : t[i] = s[i]
      /\ Len(s) \in Nat
  OBVIOUS
<1> HIDE DEF t
<1>2. \A i \in 1 .. Len(t) : d[t[i]] \in Packets BY <1>1
<1>3. PICK f \in [0 .. Len(s) -> Int] :
        /\ f[0] = 0 /\ \A i \in 1 .. Len(s) : f[i] = f[i - 1] + PacketLen[d[s[i]]]
        /\ BytesIn(s, d) = f[Len(s)]
  BY BytesSums
<1>4. PICK g \in [0 .. Len(t) -> Int] :
        /\ g[0] = 0 /\ \A i \in 1 .. Len(t) : g[i] = g[i - 1] + PacketLen[d[t[i]]]
        /\ BytesIn(t, d) = g[Len(t)]
  BY <1>1, <1>2, BytesSums
<1> DEFINE h == [i \in 0 .. Len(s) |-> g[i]]
<1>5. h \in [0 .. Len(s) -> Int] /\ h[0] = f[0] BY <1>1, <1>3, <1>4
<1>6. \A i \in 1 .. Len(s) : f[i] - f[i - 1] = h[i] - h[i - 1]
  <2>1. SUFFICES ASSUME NEW i \in 1 .. Len(s) PROVE f[i] - f[i - 1] = h[i] - h[i - 1]
    OBVIOUS
  <2>2. PacketLen[d[s[i]]] \in Int /\ PacketLen[d[t[i]]] = PacketLen[d[s[i]]]
    BY <1>1, PacketLenType
  <2>3. i - 1 \in 0 .. Len(s) /\ i \in 0 .. Len(s) /\ i \in 1 .. Len(t) BY <1>1
  <2>4. h[i] = g[i] /\ h[i - 1] = g[i - 1] /\ g[i - 1] \in Int BY <1>1, <2>3
  <2>5. f[i] = f[i - 1] + PacketLen[d[s[i]]] /\ g[i] = g[i - 1] + PacketLen[d[t[i]]]
        /\ f[i - 1] \in Int
    BY <1>3, <1>4, <2>3
  <2> HIDE DEF h
  <2> QED BY <2>2, <2>4, <2>5
<1> HIDE DEF h
<1>7. h[Len(s)] = f[Len(s)] BY <1>1, <1>5, <1>6, SumsAgree
<1>8. g[Len(s)] = f[Len(s)] BY <1>1, <1>7 DEF h
<1>9. g[Len(t)] = g[Len(s)] + PacketLen[d[n]] BY <1>1, <1>4
<1> QED BY <1>3, <1>4, <1>8, <1>9 DEF t

LEMMA BytesTail ==
  ASSUME NEW s \in Seq(Node), s # <<>>, NEW d,
         \A i \in 1 .. Len(s) : d[s[i]] \in Packets
  PROVE  BytesIn(s, d) = BytesIn(Tail(s), d) + PacketLen[d[s[1]]]
<1> DEFINE t == Tail(s)
           w == PacketLen[d[s[1]]]
<1>1. /\ t \in Seq(Node) /\ Len(t) = Len(s) - 1 /\ Len(s) \in Nat \ {0} /\ Len(t) \in Nat
      /\ \A i \in 1 .. Len(t) : t[i] = s[i + 1]
  OBVIOUS
<1> HIDE DEF t
<1>2. \A i \in 1 .. Len(t) : d[t[i]] \in Packets BY <1>1
<1>w. w \in Int BY <1>1, PacketLenType
<1>3. PICK f \in [0 .. Len(s) -> Int] :
        /\ f[0] = 0 /\ \A i \in 1 .. Len(s) : f[i] = f[i - 1] + PacketLen[d[s[i]]]
        /\ BytesIn(s, d) = f[Len(s)]
  BY BytesSums
<1>4. PICK g \in [0 .. Len(t) -> Int] :
        /\ g[0] = 0 /\ \A i \in 1 .. Len(t) : g[i] = g[i - 1] + PacketLen[d[t[i]]]
        /\ BytesIn(t, d) = g[Len(t)]
  BY <1>1, <1>2, BytesSums
<1> DEFINE h == [i \in 0 .. Len(t) |-> f[i + 1] - w]
<1>5. h \in [0 .. Len(t) -> Int] /\ h[0] = g[0]
  <2>1. f[1] = w BY <1>1, <1>3, <1>w
  <2>2. \A i \in 0 .. Len(t) : f[i + 1] \in Int BY <1>1
  <2> HIDE DEF w
  <2>3. h \in [0 .. Len(t) -> Int] BY <1>w, <2>2
  <2>4. h[0] = f[1] - w BY <1>1
  <2> QED BY <1>w, <1>4, <2>1, <2>3, <2>4
<1>6. \A i \in 1 .. Len(t) : h[i] - h[i - 1] = g[i] - g[i - 1]
  <2>1. SUFFICES ASSUME NEW i \in 1 .. Len(t) PROVE h[i] - h[i - 1] = g[i] - g[i - 1]
    OBVIOUS
  <2>2. PacketLen[d[t[i]]] \in Int /\ PacketLen[d[t[i]]] = PacketLen[d[s[i + 1]]]
    BY <1>1, <1>2, PacketLenType
  <2>3. i - 1 \in 0 .. Len(t) /\ i \in 0 .. Len(t) /\ i + 1 \in 1 .. Len(s)
        /\ i \in 0 .. Len(s) /\ i + 1 \in 0 .. Len(s)
    BY <1>1
  <2>4. h[i] = f[i + 1] - w /\ h[i - 1] = f[i] - w BY <2>3
  <2>5. f[i] \in Int /\ f[i + 1] \in Int /\ g[i] \in Int /\ g[i - 1] \in Int BY <2>3
  <2>6. f[i + 1] = f[i] + PacketLen[d[s[i + 1]]] BY <1>3, <2>3
  <2>7. g[i] = g[i - 1] + PacketLen[d[t[i]]] BY <1>4
  <2> HIDE DEF h, w
  <2>8. f[i + 1] - f[i] = PacketLen[d[t[i]]]
    BY <2>2, <2>5, <2>6
  <2>9. g[i] - g[i - 1] = PacketLen[d[t[i]]]
    BY <2>2, <2>5, <2>7
  <2> QED BY <1>w, <2>4, <2>5, <2>8, <2>9
<1> HIDE DEF h, w
<1>7. h[Len(t)] = g[Len(t)] BY <1>1, <1>5, <1>6, SumsAgree
<1>8. h[Len(t)] = f[Len(s)] - w BY <1>1 DEF h
<1>9. f[Len(s)] \in Int /\ g[Len(t)] \in Int
  <2>1. Len(s) \in 0 .. Len(s) /\ Len(t) \in 0 .. Len(t) BY <1>1
  <2> QED BY <2>1
<1>10. BytesIn(s, d) = BytesIn(t, d) + w BY <1>w, <1>3, <1>4, <1>7, <1>8, <1>9
<1> QED BY <1>10 DEF t, w

(* What a step may do to the bytes of the nodes in the queue.              *)
LEMMA QueuedHasPackets ==
  ASSUME IInv
  PROVE  /\ order \in Seq(Node)
         /\ \A i \in 1 .. Len(order) : order[i] \in alloc /\ data[order[i]] \in Packets
         /\ \A t \in Threads : pc[t] \in PopHandLabels => data[node[t]] \in Packets
         /\ \A t \in Threads : pc[t] = "push_len" => data[node[t]] \in Packets
<1>1. order \in Seq(Node) BY DEF IInv, TypeOK
<1>2. \A n \in alloc : data[n] \in Packets BY DEF IInv, HandInv
<1>3. \A i \in 1 .. Len(order) : order[i] \in alloc
  BY <1>1 DEF IInv, EveryNodeHasOneOwner, ToSet
<1>4. ASSUME NEW t \in Threads, pc[t] \in PopHandLabels PROVE data[node[t]] \in Packets
  <2>1. t \in Consumers
    BY <1>4 DEF IInv, TypeOK, ProducerLabels, OfferLabels, HandLabels, PopHandLabels
  <2>2. t \in Holders
    BY <1>4, <2>1, DataAssumption DEF IInv, HandInv, Holders, Holding, PopHandLabels
  <2> QED BY <1>2, <2>2 DEF IInv, EveryNodeHasOneOwner
<1>5. ASSUME NEW t \in Threads, pc[t] = "push_len" PROVE data[node[t]] \in Packets
  <2>1. t \in Producers
    BY <1>5 DEF IInv, TypeOK, ConsumerLabels, PopHandLabels
  <2>2. order # <<>> /\ node[t] = Last1(order)
    BY <1>5, <2>1 DEF IInv, HandInv, HandLabels
  <2>3. Len(order) \in 1 .. Len(order) BY <1>1, <2>2
  <2> QED BY <1>2, <1>3, <2>2, <2>3 DEF Last1
<1> QED BY <1>1, <1>2, <1>3, <1>4, <1>5

(* Inside the critical section a thread is alone with list->len.           *)
LEMMA LenStep == IInv /\ LenInv /\ [Next]_vars => LenInv'
<1> SUFFICES ASSUME IInv, LenInv, [Next]_vars PROVE LenInv' OBVIOUS
<1> DEFINE B == BytesIn(order, data)
           Lag == LagLabels \cup {"push_len"}
<1>0. TypeOK /\ MutualExclusion BY DEF IInv
<1>t. pc \in [Threads -> Labels] /\ node \in [Threads -> Pointer] /\ len \in Int
      /\ data \in [Node -> Packets \cup {NoPacket}]
  BY <1>0 DEF TypeOK, Labels
<1>d. /\ order \in Seq(Node)
      /\ \A i \in 1 .. Len(order) : order[i] \in alloc /\ data[order[i]] \in Packets
      /\ \A t \in Threads : pc[t] \in PopHandLabels => data[node[t]] \in Packets
      /\ \A t \in Threads : pc[t] = "push_len" => data[node[t]] \in Packets
  BY QueuedHasPackets
<1>b. B \in Int BY <1>d, BytesType
<1>c. Lag \subseteq CriticalLabels
  BY DEF LagLabels, CriticalLabels, UnlockLabels, HandLabels, PopHandLabels
<1>a. ASSUME NEW t \in Threads, pc[t] \in CriticalLabels
      PROVE  \A u \in Threads \ {t} : pc[u] \notin Lag
  BY <1>0, <1>a, <1>c DEF MutualExclusion, InCritical
<1>p. (\A p \in Producers : pc[p] \notin LagLabels) /\ (\A c \in Consumers : pc[c] # "push_len")
  BY <1>0 DEF TypeOK, LagLabels, ProducerLabels, OfferLabels, HandLabels, PopHandLabels,
              ConsumerLabels
<1> HIDE DEF B
(* A step that leaves list->len and the queued packets alone. *)
<1>1. ASSUME NEW t \in Threads, NEW l, pc' = [pc EXCEPT ![t] = l],
             len' = len, B' = B,
             l \in Lag <=> pc[t] \in Lag,
             pc[t] \in Lag => l # "push_len" /\ pc[t] # "push_len",
             \A u \in Threads : pc[u] \in Lag =>
               node'[u] = node[u] /\ data'[node[u]] = data[node[u]]
      PROVE  LenInv'
  <2>1. \A u \in Threads : pc'[u] \in Lag <=> pc[u] \in Lag
    BY <1>t, <1>1
  <2>2. \A u \in Threads : pc'[u] = "push_len" <=> pc[u] = "push_len"
    BY <1>t, <1>1
  <2>3. \A u \in Threads : pc'[u] \in LagLabels <=> pc[u] \in LagLabels
    <3>1. "push_len" \notin LagLabels BY DEF LagLabels, PopHandLabels
    <3> QED BY <2>1, <2>2, <3>1
  <2>4. ASSUME NEW p \in Producers, pc'[p] = "push_len"
        PROVE  len' + PacketLen[data'[node'[p]]] = B'
    <3>1. pc[p] = "push_len" BY <2>2, <2>4
    <3> QED BY <1>1, <3>1 DEF LenInv, B
  <2>5. ASSUME NEW c \in Consumers, pc'[c] \in LagLabels
        PROVE  len' = B' + PacketLen[data'[node'[c]]]
    <3>1. pc[c] \in LagLabels BY <2>3, <2>5
    <3> QED BY <1>1, <3>1 DEF LenInv, B
  <2>6. ASSUME \A u \in Threads : pc'[u] \notin Lag PROVE len' = B'
    BY <1>1, <2>1, <2>6 DEF LenInv, B
  <2> QED BY <2>4, <2>5, <2>6 DEF LenInv, B
(* The same for a step that writes no packet. *)
<1>2. ASSUME NEW t \in Threads, NEW l, pc' = [pc EXCEPT ![t] = l],
             len' = len, order' = order, data' = data,
             l \in Lag <=> pc[t] \in Lag,
             pc[t] \in Lag => l # "push_len" /\ pc[t] # "push_len",
             \A u \in Threads : pc[u] \in Lag => node'[u] = node[u]
      PROVE  LenInv'
  <2>1. B' = B BY <1>2 DEF B
  <2>2. \A u \in Threads : pc[u] \in Lag =>
          node'[u] = node[u] /\ data'[node[u]] = data[node[u]]
    BY <1>2
  <2> HIDE DEF Lag
  <2> QED BY <1>1, <1>2, <2>1, <2>2
<1> USE DEF Goto, listVars, nodeVars, localVars
<1>3. ASSUME NEW t \in Threads, AtomicLock(t) PROVE LenInv'
  <2>1. AfterLock(pc[t]) \notin Lag /\ pc[t] \notin Lag
    BY <1>3 DEF AtomicLock, AfterLock, LockLabels, LagLabels, PopHandLabels
  <2> HIDE DEF Lag
  <2> QED BY <1>2, <1>3, <2>1 DEF AtomicLock
<1>4. ASSUME NEW t \in Threads, AtomicUnlock(t) PROVE LenInv'
  <2>1. AfterUnlock(t) \notin Lag /\ pc[t] \notin Lag
    BY <1>4 DEF AtomicUnlock, AfterUnlock, UnlockLabels, LagLabels, PopHandLabels
  <2> HIDE DEF Lag
  <2> QED BY <1>2, <1>4, <2>1 DEF AtomicUnlock
<1> USE DEF LagLabels, PopHandLabels
<1>5. ASSUME NEW t \in Threads, ReadSize(t) PROVE LenInv'
  BY <1>2, <1>5 DEF ReadSize
<1>6. ASSUME NEW p \in Producers, Receive(p) \/ ReceiveFails(p) \/ LogSize(p) \/ Reject(p)
      PROVE  LenInv'
  BY <1>2, <1>6 DEF Receive, ReceiveFails, LogSize, Reject
<1>7. ASSUME NEW p \in Producers, Allocate(p) PROVE LenInv'
  <2>1. PICK n \in Node \ alloc : /\ alloc' = alloc \cup {n}
                                  /\ node' = [node EXCEPT ![p] = n]
                                  /\ data' = [data EXCEPT ![n] = buf[p]]
    BY <1>7 DEF Allocate
  <2>2. \A m \in alloc : data'[m] = data[m] BY <1>t, <2>1
  <2>3. order' = order /\ len' = len /\ pc[p] = "enqueue"
        /\ pc' = [pc EXCEPT ![p] = "push_lock"]
    BY <1>7 DEF Allocate
  <2>4. BytesIn(order, data') = BytesIn(order, data) BY <1>d, <2>2, BytesSame
  <2>5. B' = B BY <2>3, <2>4 DEF B
  <2>6. \A u \in Threads : pc[u] \in Lag => node[u] \in alloc
    <3>1. \A c \in Consumers : pc[c] \in LagLabels => c \in Holders
      BY DataAssumption DEF IInv, HandInv, Holders, Holding
    <3>2. \A q \in Producers : pc[q] = "push_len" => node[q] \in alloc
      <4>1. SUFFICES ASSUME NEW q \in Producers, pc[q] = "push_len" PROVE node[q] \in alloc
        OBVIOUS
      <4>2. order # <<>> /\ node[q] = Last1(order)
        BY <4>1 DEF IInv, HandInv, HandLabels
      <4>3. Len(order) \in 1 .. Len(order) BY <1>d, <4>2
      <4> QED BY <1>d, <4>2, <4>3 DEF Last1
    <3> QED BY <1>p, <3>1, <3>2 DEF IInv, EveryNodeHasOneOwner
  <2>7. \A u \in Threads : pc[u] \in Lag =>
          node'[u] = node[u] /\ data'[node[u]] = data[node[u]]
    <3>1. \A u \in Threads : pc[u] \in Lag => u # p BY <2>3
    <3> HIDE DEF Lag
    <3> QED BY <1>t, <2>1, <2>2, <2>6, <3>1
  <2>8. pc[p] \notin Lag /\ "push_lock" \notin Lag BY <2>3
  <2> HIDE DEF Lag
  <2> QED BY <1>1, <2>3, <2>5, <2>7, <2>8
<1>8. ASSUME NEW p \in Producers, Push(p), ~PushSize(p), ~PushLen(p) PROVE LenInv'
  BY <1>2, <1>8 DEF Push, PushTest, PushPrev, PushNext, PushTail, PushFirstTail,
     PushFirstHead, PushFirstLinks
<1>9. ASSUME NEW p \in Producers, PushSize(p) PROVE LenInv'
  <2>1. /\ pc[p] = "push_size" /\ pc' = [pc EXCEPT ![p] = "push_len"]
        /\ order' = Append(order, node[p]) /\ len' = len /\ data' = data /\ node' = node
    BY <1>9 DEF PushSize
  <2>2. pc[p] \in CriticalLabels BY <2>1 DEF CriticalLabels, HandLabels
  <2>3. \A u \in Threads : pc[u] \notin Lag BY <1>a, <2>1, <2>2
  <2>4. len = B BY <2>3 DEF LenInv, B
  <2>5. node[p] \in Node /\ data[node[p]] \in Packets
    BY <2>1 DEF IInv, HandInv, HandLabels, OfferLabels
  <2>6. B' = B + PacketLen[data[node[p]]]
    BY <1>d, <2>1, <2>5, BytesAppend DEF B
  <2>7. pc'[p] = "push_len" /\ \A u \in Threads \ {p} : pc'[u] \notin Lag
    BY <1>t, <2>1, <2>3
  <2>8. \A c \in Consumers : pc'[c] \notin LagLabels
    BY <2>7, ThreadsAssumption
  <2> HIDE DEF Lag
  <2> QED BY <2>1, <2>4, <2>6, <2>7, <2>8 DEF LenInv, B, Lag
<1>10. ASSUME NEW p \in Producers, PushLen(p) PROVE LenInv'
  <2>1. /\ pc[p] = "push_len" /\ pc' = [pc EXCEPT ![p] = "push_unlock"]
        /\ len' = len + PacketLen[data[node[p]]] /\ order' = order /\ data' = data
    BY <1>10 DEF PushLen
  <2>2. pc[p] \in CriticalLabels BY <2>1 DEF CriticalLabels
  <2>3. \A u \in Threads \ {p} : pc[u] \notin Lag BY <1>a, <2>2
  <2>4. \A u \in Threads : pc'[u] \notin Lag BY <1>t, <2>1, <2>3
  <2>5. len' = B' BY <2>1 DEF LenInv, B
  <2> HIDE DEF LagLabels
  <2> QED BY <2>4, <2>5 DEF LenInv, B
<1>11. ASSUME NEW c \in Consumers, Pop(c), ~PopSize(c), ~PopLen(c) PROVE LenInv'
  <2>1. CASE PopTest(c) BY <1>2, <2>1 DEF PopTest
  <2>2. CASE PopNode(c)
    <3>1. pc[c] = "pop_node" /\ \A u \in Threads : pc[u] \in Lag => node'[u] = node[u]
      BY <1>t, <2>2 DEF PopNode
    <3> QED BY <1>2, <2>2, <3>1 DEF PopNode
  <2>3. CASE PopHead(c) BY <1>2, <2>3 DEF PopHead
  <2>4. CASE PopPrev(c) BY <1>2, <2>4 DEF PopPrev
  <2>5. CASE PopLastTail(c) BY <1>2, <2>5 DEF PopLastTail
  <2>6. CASE PopLastHead(c) BY <1>2, <2>6 DEF PopLastHead
  <2>7. CASE PopLinks(c) BY <1>2, <2>7 DEF PopLinks
  <2> QED BY <1>11, <2>1, <2>2, <2>3, <2>4, <2>5, <2>6, <2>7 DEF Pop
<1>12. ASSUME NEW c \in Consumers, PopSize(c) PROVE LenInv'
  <2>1. /\ pc[c] = "pop_size"
        /\ \/ pc' = [pc EXCEPT ![c] = "pop_head"]
           \/ pc' = [pc EXCEPT ![c] = "pop_last_tail"]
        /\ order' = Tail(order) /\ len' = len /\ data' = data /\ node' = node
    BY <1>12 DEF PopSize
  <2>2. pc[c] \in CriticalLabels BY <2>1 DEF CriticalLabels
  <2>3. \A u \in Threads : pc[u] \notin Lag BY <1>a, <2>1, <2>2
  <2>4. len = B BY <2>3 DEF LenInv, B
  <2>5. order # <<>> /\ node[c] = order[1]
    <3>1. order # <<>> /\ node[c] = head BY <2>1 DEF IInv, ListInv, PopStage
    <3>2. \A t \in Threads : pc[t] \notin PushingLabels \cup PoppingLabels
      <4>1. PushingLabels \cup PoppingLabels \subseteq CriticalLabels
        BY DEF CriticalLabels, PushingLabels, PoppingLabels, HandLabels, UnlockLabels
      <4> QED BY <1>0, <2>1, <2>2, <4>1
          DEF MutualExclusion, InCritical, PushingLabels, PoppingLabels
    <3> QED BY <3>1, <3>2 DEF IInv, ListInv, Settled
  <2>6. B = B' + PacketLen[data[node[c]]]
    BY <1>d, <2>1, <2>5, BytesTail DEF B
  <2>7. \A u \in Threads \ {c} : pc'[u] \notin Lag
    BY <1>t, <2>1, <2>3
  <2>8. pc'[c] \in LagLabels BY <1>t, <2>1
  <2>9. \A p \in Producers : pc'[p] # "push_len" BY <2>7, ThreadsAssumption
  <2>10. \A d \in Consumers : pc'[d] \in LagLabels => d = c BY <2>7
  <2> HIDE DEF Lag, LagLabels
  <2> QED BY <2>1, <2>4, <2>6, <2>8, <2>9, <2>10 DEF LenInv, B, Lag
<1>13. ASSUME NEW c \in Consumers, PopLen(c) PROVE LenInv'
  <2>1. /\ pc[c] = "pop_len" /\ pc' = [pc EXCEPT ![c] = "pop_unlock"]
        /\ len' = len - PacketLen[data[node[c]]] /\ order' = order /\ data' = data
    BY <1>13 DEF PopLen
  <2>2. pc[c] \in CriticalLabels BY <2>1 DEF CriticalLabels
  <2>3. \A u \in Threads \ {c} : pc[u] \notin Lag BY <1>a, <2>2
  <2>4. \A u \in Threads : pc'[u] \notin Lag BY <1>t, <2>1, <2>3
  <2>5. PacketLen[data[node[c]]] \in Int BY <1>d, <2>1, PacketLenType
  <2>6. len' = B' BY <1>b, <2>1, <2>5 DEF LenInv, B
  <2> HIDE DEF LagLabels
  <2> QED BY <2>4, <2>6 DEF LenInv, B
<1>14. ASSUME NEW c \in Consumers, Process(c) \/ Free(c) PROVE LenInv'
  <2>1. \A u \in Threads : pc[u] \in Lag => node'[u] = node[u]
    BY <1>t, <1>14 DEF Process, Free
  <2> QED BY <1>2, <1>14, <2>1 DEF Process, Free
<1>15. CASE UNCHANGED vars
  BY <1>15 DEF vars, lockVars, LenInv
<1> QED BY <1>3, <1>4, <1>5, <1>6, <1>7, <1>8, <1>9, <1>10, <1>11, <1>12, <1>13,
           <1>14, <1>15 DEF Next, Work

(* Whenever the lock is free list->len is the number of bytes queued       *)
(* (BufferInQueue, BufferOutQueue).                                        *)
THEOREM LenCorrect == Spec => []LenIsQueuedBytes
<1>1. ASSUME Init PROVE LenInv
  <2>1. /\ order = <<>> /\ len = 0 /\ \A t \in Threads : pc[t] \in {"recv", "empty_lock"}
    BY <1>1 DEF Init
  <2>2. BytesIn(order, data) = 0
    <3>1. order \in Seq(Node) /\ Len(order) = 0 BY <2>1
    <3>2. \A i \in 1 .. Len(order) : data[order[i]] \in Packets BY <3>1
    <3>3. PICK f \in [0 .. Len(order) -> Int] : f[0] = 0 /\ BytesIn(order, data) = f[Len(order)]
      BY <3>1, <3>2, BytesSums
    <3> QED BY <3>1, <3>3
  <2> QED BY <2>1, <2>2 DEF LenInv, LagLabels, PopHandLabels
<1>2. ASSUME IInv, LenInv PROVE LenIsQueuedBytes
  <2>1. SUFFICES ASSUME lock = 0 PROVE len = BytesIn(order, data)
    BY DEF LenIsQueuedBytes
  <2>2. \A t \in Threads : pc[t] \notin CriticalLabels
    BY <1>2, <2>1 DEF IInv, MutualExclusion, InCritical
  <2>3. LagLabels \cup {"push_len"} \subseteq CriticalLabels
    BY DEF LagLabels, CriticalLabels, UnlockLabels, HandLabels, PopHandLabels
  <2> QED BY <1>2, <2>2, <2>3 DEF LenInv
<1> QED BY <1>1, <1>2, LenStep, Invariance, PTL DEF Spec
=============================================================================
