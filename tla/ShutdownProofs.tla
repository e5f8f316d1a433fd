--------------------------- MODULE ShutdownProofs ---------------------------
(***************************************************************************)
(* Proofs about Shutdown, for any number of threads and signals, any       *)
(* MAX_PCK and any amount of memory.                                       *)
(*                                                                         *)
(* SharedTypeOK is what of TypeOK survives a teardown that frees the list  *)
(* under the other threads.  With it the types are inductive.  AloneIsSafe *)
(* and NestedIsSafe need more: until the signal comes the queue's own      *)
(* invariant IInv holds (BufQueueProofs), and IInv gives a walk from head  *)
(* over list->size distinct nodes, wherever in a push or a pop the signal  *)
(* strikes (WalkFromHead); LIST_DESTROY then takes one node off that walk  *)
(* in each turn of its loop.  A second handler on top of the first finds   *)
(* what the first has left: AloneStage says what that is while the first   *)
(* is at a harmless step, DoomedStage what it is afterwards.               *)
(***************************************************************************)
EXTENDS Shutdown, BufQueueProofs

(* The shared memory keeps these types even while it is being freed.       *)
SharedTypeOK ==
  /\ head \in Pointer /\ tail \in Pointer /\ size \in Int
  /\ next \in [Node -> Pointer] /\ alloc \in SUBSET Node
  /\ node \in [Threads -> Pointer]
  /\ pc \in [Threads -> Labels]

Points == {"none", "queue", "exit"} \cup Resources
Steps  == {"none", "test", "zero", "while", "next", "free_node", "free", "null", "exit"}

HandlerTypeOK == hpc \in [Signals -> Points \X Steps]

ShutdownInv ==
  /\ SharedTypeOK /\ HandlerTypeOK /\ ShutdownTypeOK

-----------------------------------------------------------------------------
(* What a teardown that nobody disturbs relies on.                         *)

(* k different nodes, all of them malloc'ed, each linked to the next one,  *)
(* beginning with c.                                                       *)
IsWalk(w, c, k) ==
  /\ k > 0 => w[1] = c
  /\ \A i \in 1 .. k : w[i] \in alloc
  /\ \A i, j \in 1 .. k : w[i] = w[j] => i = j
  /\ \A i \in 1 .. k - 1 : next[w[i]] = w[i + 1]

CanWalk(c, k) == k >= 0 /\ \E w \in [1 .. k -> alloc] : IsWalk(w, c, k)

(* The resources that the handler has still to free once it is at r; what  *)
(* it does with the file and the vector index depends on ptr and indexed.  *)
Pending(r) ==
  CASE r \in {"handle", "v_index"} -> {"re", "match_data", "hselog"}
    [] r = "re"         -> {"re", "match_data", "hselog"}
    [] r = "match_data" -> {"match_data", "hselog"}
    [] r = "queue"      -> {"hselog"}
    [] r = "hselog"     -> {"hselog"}
    [] OTHER            -> {}

(* The queue as the innermost handler s finds it at each point.            *)
QueueStage(s) ==
  LET r == hpc[s][1]
      step == hpc[s][2]
  IN  /\ r \in {"handle", "v_index", "re", "match_data"}
           \/ (r = "queue" /\ step = "test") => CanWalk(head, size)
      /\ r = "queue" /\ step = "while" => CanWalk(curr[s], size)
      /\ r = "queue" /\ step \in {"next", "free_node"} =>
           size >= 0 /\ CanWalk(curr[s], size + 1)
      /\ r = "queue" /\ step = "free_node" => following[s] = next[curr[s]]
      /\ r \in {"handle", "v_index", "re", "match_data"}
           \/ (r = "queue" /\ step # "null") => queueLive /\ g_queue

(* The file and the vector index, at each point: a handler that begins now *)
(* can count on both up to the free of v_index, and on neither later.      *)
DatabaseStage(s) ==
  LET r == hpc[s][1]
  IN  /\ r \in {"handle", "v_index"} => "v_index" \in live
      /\ hpc[s] \in Harmless /\ "handle" \in ptr => "handle" \in live
      /\ r \in {"handle", "v_index"} => hpc[s] \in Harmless \cup {<<"handle", "null">>}
      /\ hpc[s] = <<"handle", "free">> => "handle" \in ptr
      /\ hpc[s] = <<"handle", "null">> => "handle" \in ptr \ live
      /\ "v_index" \in live /\ ~indexed =>
           hpc[s] = <<"v_index", "free">> \/ <<"v_index", "free">> \in struck
      /\ r \notin {"handle", "v_index"} =>
           "v_index" \notin live \/ <<"v_index", "free">> \in struck

AloneStage(s) ==
  /\ hpc[s][1] # "none"
  /\ IF hpc[s][2] = "null" THEN Pending(hpc[s][1]) \ {hpc[s][1]} \subseteq live
                           ELSE Pending(hpc[s][1]) \subseteq live
  /\ hpc[s][1] \in {"hselog", "exit"} => ~g_queue
  /\ QueueStage(s)
  /\ DatabaseStage(s)

(* The handler s has begun too late: it is on its way to what the one      *)
(* below it has freed.                                                     *)
DoomedStage(s) ==
  \/ "v_index" \notin live /\ hpc[s] \in {<<"handle", "test">>, <<"handle", "free">>,
                                          <<"handle", "null">>, <<"v_index", "test">>}
  \/ "handle" \in ptr \ live /\ hpc[s] \in {<<"handle", "test">>, <<"handle", "free">>}

(* Nothing has been signalled.                                             *)
Quiet ==
  /\ IInv
  /\ fate = "running" /\ live = Resources /\ ptr = Resources /\ indexed
  /\ queueLive /\ g_queue
  /\ \A s \in Signals : hpc[s] = <<"none", "none">>

(* All handlers are on the stack of t.                                     *)
OnlyOn(t) == stack[t] # <<>> /\ \A u \in AllThreads \ {t} : stack[u] = <<>>

Doomed == ~(struck \subseteq Harmless) /\ <<"v_index", "free">> \notin struck

AloneInv ==
  /\ ~Handling => Quiet /\ ~disturbed /\ struck = {}
  /\ Handling /\ ~disturbed =>
       \E t \in AllThreads :
         /\ OnlyOn(t)
         /\ struck \subseteq Harmless => fate # "undefined" /\ AloneStage(Last(stack[t]))
         /\ Doomed => fate # "exited" /\ DoomedStage(Last(stack[t]))

-----------------------------------------------------------------------------
(* The types.                                                              *)

(* The actions of Shutdown leave the queue alone by naming its variables.  *)
LEMMA SharedTypeSame ==
  SharedTypeOK /\ UNCHANGED <<head, tail, size, next, alloc, node, pc>>
    => SharedTypeOK'
BY DEF SharedTypeOK

(* A thread that works on its packet or holds the lock is at none of the   *)
(* labels at which a null test comes first, and moves to some label.       *)
LEMMA WorkMoves ==
  ASSUME NEW t \in Threads, Work(t) \/ (t \in Producers /\ ReceiveFails(t))
  PROVE  /\ pc[t] \notin TestedLabels
         /\ \E l \in Labels : pc' = [pc EXCEPT ![t] = l]
<1> USE DEF Goto, TestedLabels
<1>0. /\ {"recv", "stopped", "size_unlock", "empty_unlock", "log_unlock", "push_lock",
          "enqueue", "log_lock", "push_len", "push_unlock", "empty_lock", "pop_lock",
          "pop_node", "pop_size", "pop_unlock", "process", "free"} \subseteq Labels
      /\ HandLabels \subseteq Labels /\ PopHandLabels \subseteq Labels
  BY DEF Labels, ProducerLabels, ConsumerLabels, OfferLabels, HandLabels, PopHandLabels
<1>1. CASE AtomicUnlock(t)
  BY <1>0, <1>1 DEF AtomicUnlock, AfterUnlock, UnlockLabels
<1>2. CASE ReadSize(t)
  BY <1>0, <1>2 DEF ReadSize
<1>3. CASE ReceiveFails(t) \/ LogSize(t) \/ Reject(t) \/ Allocate(t)
  BY <1>0, <1>3 DEF ReceiveFails, LogSize, Reject, Allocate
<1>4. CASE Push(t)
  BY <1>0, <1>4 DEF Push, PushTest, PushPrev, PushNext, PushTail, PushFirstTail,
     PushFirstHead, PushFirstLinks, PushSize, PushLen, HandLabels
<1>5. CASE Pop(t)
  BY <1>0, <1>5 DEF Pop, PopTest, PopNode, PopSize, PopHead, PopPrev, PopLastTail,
     PopLastHead, PopLinks, PopLen, PopHandLabels
<1>6. CASE Process(t) \/ Free(t)
  BY <1>0, <1>6 DEF Process, Free
<1> QED BY <1>1, <1>2, <1>3, <1>4, <1>5, <1>6 DEF Work

LEMMA LockMoves ==
  ASSUME NEW t \in Threads, AtomicLock(t)
  PROVE  \E l \in Labels : pc' = [pc EXCEPT ![t] = l]
<1>1. AfterLock(pc[t]) \in {"size_read", "push_test", "log_read", "empty_read", "pop_test"}
  BY DEF AtomicLock, LockLabels, AfterLock
<1>2. {"size_read", "push_test", "log_read", "empty_read", "pop_test"} \subseteq Labels
  BY DEF Labels, ProducerLabels, ConsumerLabels, OfferLabels, HandLabels
<1> QED BY <1>1, <1>2 DEF AtomicLock

(* What the threads write while the list is being freed has its type: the  *)
(* one field that is read through a node is read through a malloc'ed one.  *)
LEMMA WorkType ==
  ASSUME SharedTypeOK, NEW t \in Threads, Sound(t),
         Work(t) \/ (t \in Producers /\ ReceiveFails(t))
  PROVE  SharedTypeOK'
<1>0. pc' \in [Threads -> Labels] BY WorkMoves DEF SharedTypeOK
<1> USE <1>0, DataAssumption DEF SharedTypeOK, Pointer, Goto, listVars, nodeVars, localVars
<1>1. CASE AtomicUnlock(t) BY <1>1 DEF AtomicUnlock
<1>2. CASE ReadSize(t) BY <1>2 DEF ReadSize
<1>3. CASE ReceiveFails(t) \/ LogSize(t) \/ Reject(t)
  BY <1>3 DEF ReceiveFails, LogSize, Reject
<1>4. CASE Allocate(t) BY <1>4 DEF Allocate
<1>5. CASE Push(t)
  <2>1. CASE PushTest(t) BY <2>1 DEF PushTest
  <2>2. CASE PushPrev(t) BY <2>2 DEF PushPrev
  <2>3. CASE PushNext(t) BY <2>3 DEF PushNext
  <2>4. CASE PushTail(t) BY <2>4 DEF PushTail
  <2>5. CASE PushFirstTail(t) BY <2>5 DEF PushFirstTail
  <2>6. CASE PushFirstHead(t) BY <2>6 DEF PushFirstHead
  <2>7. CASE PushFirstLinks(t) BY <2>7 DEF PushFirstLinks
  <2>8. CASE PushSize(t) BY <2>8 DEF PushSize
  <2>9. CASE PushLen(t) BY <2>9 DEF PushLen
  <2> QED BY <1>5, <2>1, <2>2, <2>3, <2>4, <2>5, <2>6, <2>7, <2>8, <2>9 DEF Push
<1>6. CASE Pop(t)
  <2>1. CASE PopTest(t) BY <2>1 DEF PopTest
  <2>2. CASE PopNode(t) BY <2>2 DEF PopNode
  <2>3. CASE PopSize(t) BY <2>3 DEF PopSize
  <2>4. CASE PopHead(t)
    <3>1. node[t] \in Node BY <2>4 DEF PopHead, Sound, Dereferences
    <3> QED BY <2>4, <3>1 DEF PopHead
  <2>5. CASE PopPrev(t) BY <2>5 DEF PopPrev
  <2>6. CASE PopLastTail(t) BY <2>6 DEF PopLastTail
  <2>7. CASE PopLastHead(t) BY <2>7 DEF PopLastHead
  <2>8. CASE PopLinks(t) BY <2>8 DEF PopLinks
  <2>9. CASE PopLen(t) BY <2>9 DEF PopLen
  <2> QED BY <1>6, <2>1, <2>2, <2>3, <2>4, <2>5, <2>6, <2>7, <2>8, <2>9 DEF Pop
<1>7. CASE Process(t) \/ Free(t) BY <1>7 DEF Process, Free
<1> QED BY <1>1, <1>2, <1>3, <1>4, <1>5, <1>6, <1>7 DEF Work

(* A step of the threads: the shared types, and who has passed a null test.*)
LEMMA ThreadStepType ==
  ASSUME SharedTypeOK, checked \subseteq {t \in Threads : pc[t] \in TestedLabels},
         late \in 0 .. MaxLate, NEW t \in Threads, ThreadStep(t)
  PROVE  /\ SharedTypeOK'
         /\ checked' \subseteq {u \in Threads : pc'[u] \in TestedLabels}
         /\ late' \in 0 .. MaxLate
<1> USE DEF ThreadStep
<1>t. pc \in [Threads -> Labels] BY DEF SharedTypeOK
<1>1. CASE CheckQueue(t)
  <2>1. SharedTypeOK' BY <1>1, SharedTypeSame DEF CheckQueue, vars, listVars, lockVars, nodeVars, localVars
  <2>2. pc' = pc /\ late' = late BY <1>1 DEF CheckQueue, vars, lockVars
  <2> QED BY <1>1, <2>1, <2>2 DEF CheckQueue
<1>2. CASE Lock(t)
  <2>1. PICK l \in Labels : pc' = [pc EXCEPT ![t] = l]
    BY <1>2, LockMoves DEF Lock
  <2>2. SharedTypeOK'
    BY <1>2, <2>1 DEF Lock, AtomicLock, SharedTypeOK, listVars, nodeVars, localVars
  <2> QED BY <1>2, <2>1, <2>2, <1>t DEF Lock
<1>3. CASE Proceed(t)
  <2>1. Work(t) \/ (t \in Producers /\ ReceiveFails(t)) BY <1>3 DEF Proceed
  <2>2. SharedTypeOK' BY <2>1, WorkType
  <2>3. PICK l \in Labels : pc' = [pc EXCEPT ![t] = l] BY <2>1, WorkMoves
  <2>4. t \notin checked BY <2>1, WorkMoves
  <2> QED BY <1>3, <1>t, <2>2, <2>3, <2>4 DEF Proceed
<1>4. CASE t \in Producers /\ SkipQueue(t)
  <2>1. {"enqueue", "recv"} \subseteq Labels
    BY DEF Labels, ProducerLabels, OfferLabels
  <2>2. SharedTypeOK'
    BY <1>4, <2>1 DEF SkipQueue, SharedTypeOK, listVars, nodeVars, localVars
  <2> QED BY <1>4, <1>t, <2>2 DEF SkipQueue
<1>5. CASE t \in Producers /\ ReceiveLate(t)
  <2>1. "size_lock" \in Labels
    BY DEF Labels, ProducerLabels, OfferLabels
  <2>2. SharedTypeOK'
    BY <1>5, <2>1 DEF ReceiveLate, Receive, Goto, SharedTypeOK, listVars, nodeVars
  <2>3. late' \in 0 .. MaxLate
    BY <1>5, SignalAssumption DEF ReceiveLate
  <2> QED BY <1>5, <1>t, <2>2, <2>3 DEF ReceiveLate, Receive, Goto, TestedLabels
<1> QED BY <1>1, <1>2, <1>3, <1>4, <1>5

LEMMA ShutdownInitInv == ShutdownInit => ShutdownInv
<1> SUFFICES ASSUME ShutdownInit PROVE ShutdownInv OBVIOUS
<1>1. Init /\ IInv BY InitInv DEF ShutdownInit
<1>2. SharedTypeOK BY <1>1 DEF IInv, TypeOK, SharedTypeOK, Labels
<1>3. HandlerTypeOK BY DEF ShutdownInit, HandlerTypeOK, Points, Steps
<1>4. ShutdownTypeOK
  <2>1. stack \in [AllThreads -> Seq(Signals)] BY DEF ShutdownInit
  <2>2. curr \in [Signals -> Pointer] /\ following \in [Signals -> Pointer]
    BY DEF ShutdownInit, Pointer
  <2>3. late \in 0 .. MaxLate BY SignalAssumption DEF ShutdownInit
  <2> QED BY <2>1, <2>2, <2>3 DEF ShutdownInit, ShutdownTypeOK
<1> QED BY <1>2, <1>3, <1>4 DEF ShutdownInv

(* A step that leaves the queue, the handlers and the pointers alone.      *)
LEMMA ThreadStepInv ==
  ASSUME ShutdownInv, NEW t \in Threads, ThreadStep(t)
  PROVE  ShutdownInv'
<1>1. /\ SharedTypeOK'
      /\ checked' \subseteq {u \in Threads : pc'[u] \in TestedLabels}
      /\ late' \in 0 .. MaxLate
  BY ThreadStepType DEF ShutdownInv, ShutdownTypeOK
<1>2. UNCHANGED <<fate, resourceVars, handlerVars>> /\ disturbed' \in BOOLEAN
  BY DEF ThreadStep, ShutdownInv, ShutdownTypeOK
<1>3. ShutdownTypeOK'
  BY <1>1, <1>2 DEF ShutdownInv, ShutdownTypeOK, resourceVars, handlerVars
<1>4. HandlerTypeOK'
  BY <1>2 DEF ShutdownInv, HandlerTypeOK, handlerVars
<1> QED BY <1>1, <1>3, <1>4 DEF ShutdownInv

(* A step that only changes fate, disturbed and the list's memory.         *)
LEMMA FateStepInv ==
  ASSUME ShutdownInv, UNCHANGED <<vars, resourceVars, handlerVars, checked, late>>,
         fate' \in {"running", "exited", "undefined"}, disturbed' \in BOOLEAN
  PROVE  ShutdownInv'
<1>1. SharedTypeOK'
  BY SharedTypeSame DEF ShutdownInv, vars, lockVars, listVars, nodeVars, localVars
<1>2. ShutdownTypeOK'
  BY DEF ShutdownInv, ShutdownTypeOK, resourceVars, handlerVars, vars, lockVars
<1>3. HandlerTypeOK'
  BY DEF ShutdownInv, HandlerTypeOK, handlerVars
<1> QED BY <1>1, <1>2, <1>3 DEF ShutdownInv

LEMMA DeliverInv ==
  ASSUME ShutdownInv, NEW s \in Signals, NEW t \in AllThreads, Deliver(s, t)
  PROVE  ShutdownInv'
<1> USE DEF Deliver
<1>1. SharedTypeOK'
  BY SharedTypeSame DEF ShutdownInv, vars, lockVars, listVars, nodeVars, localVars
<1>2. stack' \in [AllThreads -> Seq(Signals)] /\ disturbed' \in BOOLEAN
  <2>1. stack \in [AllThreads -> Seq(Signals)] /\ disturbed \in BOOLEAN
    BY DEF ShutdownInv, ShutdownTypeOK
  <2>2. stack' \in [AllThreads -> Seq(Signals)] BY <2>1
  <2>3. (disturbed \/ Handling) \in BOOLEAN /\ disturbed' \in {disturbed, disturbed \/ Handling}
    BY <2>1
  <2> QED BY <2>1, <2>2, <2>3
<1>3. ShutdownTypeOK'
  BY <1>2 DEF ShutdownInv, ShutdownTypeOK, resourceVars, vars, lockVars
<1>4. HandlerTypeOK'
  BY DEF ShutdownInv, HandlerTypeOK, Points, Resources, Steps
<1> QED BY <1>1, <1>3, <1>4 DEF ShutdownInv

(* What the handlers leave alone while they release the other resources.   *)
LEMMA HandlerTypes ==
  ASSUME ShutdownInv,
         UNCHANGED <<pc, head, tail, next, node, fate, stack, checked, late, disturbed>>,
         indexed' \in BOOLEAN, alloc' \subseteq alloc, size' \in Int,
         live' \subseteq live, ptr' \subseteq ptr,
         queueLive' \in BOOLEAN, g_queue' \in BOOLEAN,
         curr' \in [Signals -> Pointer], following' \in [Signals -> Pointer]
  PROVE  SharedTypeOK' /\ ShutdownTypeOK'
<1>1. SharedTypeOK' BY DEF ShutdownInv, SharedTypeOK
<1>2. ShutdownTypeOK' BY DEF ShutdownInv, ShutdownTypeOK
<1> QED BY <1>1, <1>2

LEMMA NextResourceType ==
  ASSUME NEW r \in Resources
  PROVE  /\ NextResource(r) \in Points \X Steps
         /\ NextResource(r)[1] \notin {r, "none"} /\ NextResource(r)[2] \in {"test", "exit"}
BY DEF Resources, NextResource, Points, Steps

(* The handler's own steps.                                                *)
LEMMA ResourceStepInv ==
  ASSUME ShutdownInv, NEW s \in Signals, NEW r \in Resources,
         TestResource(s, r) \/ FreeResource(s, r) \/ ClearPointer(s, r)
  PROVE  ShutdownInv'
<1>0. curr \in [Signals -> Pointer] /\ following \in [Signals -> Pointer]
      /\ size \in Int /\ queueLive \in BOOLEAN /\ g_queue \in BOOLEAN /\ indexed \in BOOLEAN
      /\ hpc \in [Signals -> Points \X Steps] /\ alloc \in SUBSET Node
  BY DEF ShutdownInv, ShutdownTypeOK, SharedTypeOK, HandlerTypeOK
<1>1. /\ UNCHANGED <<vars, fate, indexed, queueLive, g_queue, stack, curr, following,
                     checked, late, disturbed>>
      /\ live' \subseteq live /\ ptr' \subseteq ptr
  BY DEF TestResource, FreeResource, ClearPointer, resourceVars, historyVars
<1>2. SharedTypeOK' /\ ShutdownTypeOK'
  BY <1>0, <1>1, HandlerTypes DEF vars, lockVars, listVars, nodeVars, localVars
<1>3. <<r, "free">> \in Points \X Steps /\ <<r, "null">> \in Points \X Steps
  BY DEF Points, Steps
<1>4. NextResource(r) \in Points \X Steps BY NextResourceType
<1>5. HandlerTypeOK'
  BY <1>0, <1>3, <1>4 DEF TestResource, FreeResource, ClearPointer, HandlerTypeOK
<1> QED BY <1>2, <1>5 DEF ShutdownInv

LEMMA IndexStepInv ==
  ASSUME ShutdownInv, NEW s \in Signals, TestLength(s) \/ ZeroLength(s)
  PROVE  ShutdownInv'
<1>0. curr \in [Signals -> Pointer] /\ following \in [Signals -> Pointer]
      /\ size \in Int /\ queueLive \in BOOLEAN /\ g_queue \in BOOLEAN /\ indexed \in BOOLEAN
      /\ hpc \in [Signals -> Points \X Steps] /\ alloc \in SUBSET Node
  BY DEF ShutdownInv, ShutdownTypeOK, SharedTypeOK, HandlerTypeOK
<1>1. /\ UNCHANGED <<vars, fate, live, ptr, queueLive, g_queue, stack, curr, following,
                     checked, late, disturbed>>
      /\ indexed' \in BOOLEAN
  BY <1>0 DEF TestLength, ZeroLength, resourceVars, historyVars
<1>2. SharedTypeOK' /\ ShutdownTypeOK'
  BY <1>0, <1>1, HandlerTypes DEF vars, lockVars, listVars, nodeVars, localVars
<1>3. <<"v_index", "zero">> \in Points \X Steps /\ <<"v_index", "free">> \in Points \X Steps
      /\ NextResource("v_index") \in Points \X Steps
  BY DEF Points, Steps, NextResource, Resources
<1>4. HandlerTypeOK' BY <1>0, <1>3 DEF TestLength, ZeroLength, HandlerGoto, HandlerTypeOK
<1> QED BY <1>2, <1>4 DEF ShutdownInv

LEMMA QueueStepInv ==
  ASSUME ShutdownInv, NEW s \in Signals,
         \/ BufferDestroy(s) \/ DestroyWhile(s) \/ DestroyNext(s) \/ DestroyNode(s)
         \/ DestroyList(s) \/ ClearQueue(s)
  PROVE  ShutdownInv'
<1>0. /\ curr \in [Signals -> Pointer] /\ following \in [Signals -> Pointer]
      /\ size \in Int /\ queueLive \in BOOLEAN /\ g_queue \in BOOLEAN /\ indexed \in BOOLEAN
      /\ hpc \in [Signals -> Points \X Steps]
      /\ head \in Pointer /\ next \in [Node -> Pointer] /\ alloc \in SUBSET Node
  BY DEF ShutdownInv, ShutdownTypeOK, SharedTypeOK, HandlerTypeOK
<1>d. BufferDestroy(s) \/ DestroyWhile(s) \/ DestroyNext(s) \/ DestroyNode(s)
      \/ DestroyList(s) \/ ClearQueue(s)
  OBVIOUS
<1>1. UNCHANGED <<pc, head, tail, next, node, fate, live, ptr, indexed, stack, checked, late,
                  disturbed>>
  BY <1>d DEF BufferDestroy, DestroyWhile, DestroyNext, DestroyNode, DestroyList, ClearQueue,
     vars, lockVars, listVars, nodeVars, localVars, resourceVars, historyVars
<1>2. alloc' \subseteq alloc /\ size' \in Int
  BY <1>0, <1>d DEF BufferDestroy, DestroyWhile, DestroyNext, DestroyNode, DestroyList,
     ClearQueue, vars, listVars, nodeVars
<1>3. queueLive' \in BOOLEAN /\ g_queue' \in BOOLEAN
  BY <1>0, <1>d DEF BufferDestroy, DestroyWhile, DestroyNext, DestroyNode, DestroyList,
     ClearQueue, resourceVars
<1>4. curr' \in [Signals -> Pointer] /\ following' \in [Signals -> Pointer]
  BY <1>0, <1>d DEF BufferDestroy, DestroyWhile, DestroyNext, DestroyNode, DestroyList,
     ClearQueue
<1>5. SharedTypeOK' /\ ShutdownTypeOK'
  BY <1>0, <1>1, <1>2, <1>3, <1>4, HandlerTypes
<1>6. PICK pt \in {<<"queue", "while">>, <<"queue", "next">>, <<"queue", "free">>,
                   <<"queue", "free_node">>, <<"queue", "null">>, <<"hselog", "test">>} :
        hpc' = [hpc EXCEPT ![s] = pt]
  BY <1>0, <1>d DEF BufferDestroy, DestroyWhile, DestroyNext, DestroyNode, DestroyList,
     ClearQueue, HandlerGoto, HandlerAt
<1>7. pt \in Points \X Steps BY DEF Points, Steps, Resources
<1>8. HandlerTypeOK' BY <1>0, <1>6, <1>7 DEF HandlerTypeOK
<1> QED BY <1>5, <1>8 DEF ShutdownInv

LEMMA ShutdownInvStep == ShutdownInv /\ [ShutdownNext]_allVars => ShutdownInv'
<1> SUFFICES ASSUME ShutdownInv, [ShutdownNext]_allVars PROVE ShutdownInv'
  OBVIOUS
<1>0. disturbed \in BOOLEAN /\ fate \in {"running", "exited", "undefined"}
      /\ Handling \in BOOLEAN
  BY DEF ShutdownInv, ShutdownTypeOK, Handling
<1>1. ASSUME NEW t \in Threads, ThreadStep(t) PROVE ShutdownInv'
  BY <1>1, ThreadStepInv
<1>2. ASSUME NEW t \in Threads, Undefined(t) PROVE ShutdownInv'
  BY <1>0, <1>2, FateStepInv DEF Undefined
<1>3. ASSUME NEW s \in Signals, NEW t \in AllThreads, Deliver(s, t) PROVE ShutdownInv'
  BY <1>3, DeliverInv
<1>4. ASSUME NEW s \in Signals, HandlerStep(s) PROVE ShutdownInv'
  <2>1. ASSUME NEW r \in Resources,
               TestResource(s, r) \/ FreeResource(s, r) \/ ClearPointer(s, r)
        PROVE  ShutdownInv'
    BY <2>1, ResourceStepInv
  <2>2. CASE Exit(s) BY <1>0, <2>2, FateStepInv DEF Exit, historyVars
  <2>3. CASE HandlerUndefined(s) BY <1>0, <2>3, FateStepInv DEF HandlerUndefined, historyVars
  <2> QED BY <1>4, <2>1, <2>2, <2>3, QueueStepInv, IndexStepInv DEF HandlerStep
<1>5. CASE UNCHANGED allVars
  BY <1>0, <1>5, FateStepInv DEF allVars, shutdownVars, historyVars
<1> QED BY <1>1, <1>2, <1>3, <1>4, <1>5 DEF ShutdownNext

(* The invariant holds however many handlers and threads interleave.       *)
THEOREM ShutdownInvariance == ShutdownSpec => []ShutdownInv
<1> QED BY ShutdownInitInv, ShutdownInvStep, PTL DEF ShutdownSpec

(* The handlers and the threads keep the types of what they share.         *)
THEOREM ShutdownTypeCorrect == ShutdownSpec => []ShutdownTypeOK
<1>1. ShutdownInv => ShutdownTypeOK BY DEF ShutdownInv
<1> QED BY <1>1, ShutdownInvariance, PTL

-----------------------------------------------------------------------------
(* A teardown that nobody disturbs.                                        *)

(* The list that s orders, from its first node by the next links.          *)
LEMMA WalkOfList ==
  ASSUME IInv, order # <<>>, head = order[1], Linked(order)
  PROVE  CanWalk(head, size)
<1>1. order \in Seq(Node) /\ size = Len(order) /\ Len(order) \in Nat
  BY DEF IInv, TypeOK, CountInv
<1>2. \A i \in 1 .. Len(order) : order[i] \in alloc
  BY <1>1 DEF IInv, EveryNodeHasOneOwner, ToSet
<1>3. \A i, j \in 1 .. Len(order) : order[i] = order[j] => i = j
  BY <1>1 DEF IInv, EveryNodeHasOneOwner
<1>4. order \in [1 .. size -> alloc] BY <1>1, <1>2
<1>5. IsWalk(order, head, size)
  BY <1>1, <1>2, <1>3 DEF IsWalk, Linked
<1> QED BY <1>1, <1>4, <1>5 DEF CanWalk

(* Wherever the signal strikes, list->size counts no more nodes than can   *)
(* be reached from list->head.                                             *)
LEMMA WalkFromHead == IInv => CanWalk(head, size)
<1> SUFFICES ASSUME IInv PROVE CanWalk(head, size) OBVIOUS
<1>1. order \in Seq(Node) /\ size = Len(order) /\ Len(order) \in Nat
  BY DEF IInv, TypeOK, CountInv
<1>2. order = <<>> => CanWalk(head, size)
  <2>1. SUFFICES ASSUME order = <<>> PROVE CanWalk(head, size) OBVIOUS
  <2>2. size = 0 BY <1>1, <2>1
  <2>3. order \in [1 .. size -> alloc] BY <1>1, <2>1, <2>2
  <2>4. IsWalk(order, head, size) BY <2>2 DEF IsWalk
  <2>5. size >= 0 BY <2>2
  <2> QED BY <2>3, <2>4, <2>5 DEF CanWalk
<1>3. CASE \A t \in Threads : pc[t] \notin PushingLabels \cup PoppingLabels
  <2>1. Settled(order) BY <1>3 DEF IInv, ListInv
  <2> QED BY <1>2, <2>1, WalkOfList DEF Settled
<1>4. ASSUME NEW p \in Producers, pc[p] \in PushingLabels PROVE CanWalk(head, size)
  <2>1. PushStage(p) BY DEF IInv, ListInv
  <2> QED BY <1>2, <1>4, <2>1, WalkOfList DEF PushStage, PushingLabels
<1>5. ASSUME NEW c \in Consumers, pc[c] \in PoppingLabels PROVE CanWalk(head, size)
  <2>1. PopStage(c) BY DEF IInv, ListInv
  <2>2. CASE pc[c] = "pop_head"
    <3>1. /\ order # <<>> /\ node[c] = head /\ next[head] = order[1] /\ Linked(order)
      BY <2>1, <2>2 DEF PopStage
    <3>2. node[c] \in Node /\ c \in Holders
      BY <2>2, DataAssumption DEF IInv, HandInv, ConsumerHand, PopHandLabels, Holders, Holding,
         Threads
    <3>3. head \in alloc /\ \A i \in 1 .. Len(order) : head # order[i]
      BY <1>1, <3>1, <3>2 DEF IInv, EveryNodeHasOneOwner, ToSet
    <3>4. \A i \in 1 .. Len(order) : order[i] \in alloc
      BY <1>1 DEF IInv, EveryNodeHasOneOwner, ToSet
    <3>5. \A i, j \in 1 .. Len(order) : order[i] = order[j] => i = j
      BY <1>1 DEF IInv, EveryNodeHasOneOwner
    <3> DEFINE w == [i \in 1 .. size |-> IF i = 1 THEN head ELSE order[i - 1]]
    <3>6. w \in [1 .. size -> alloc] BY <1>1, <3>3, <3>4
    <3>7. IsWalk(w, head, size)
      <4>1. size > 0 => w[1] = head BY <1>1
      <4>2. \A i \in 1 .. size : w[i] \in alloc BY <3>6
      <4>3. \A i, j \in 1 .. size : w[i] = w[j] => i = j
        BY <1>1, <3>3, <3>5
      <4>4. \A i \in 1 .. size - 1 : next[w[i]] = w[i + 1]
        BY <1>1, <3>1 DEF Linked
      <4> QED BY <4>1, <4>2, <4>3, <4>4 DEF IsWalk
    <3> QED BY <1>1, <3>6, <3>7 DEF CanWalk
  <2>3. CASE pc[c] = "pop_prev"
    BY <2>1, <2>3, WalkOfList DEF PopStage
  <2>4. CASE pc[c] \in {"pop_last_tail", "pop_last_head"}
    BY <1>2, <2>1, <2>4 DEF PopStage
  <2> QED BY <1>5, <2>2, <2>3, <2>4 DEF PoppingLabels
<1>6. \A p \in Producers : pc[p] \notin PoppingLabels
  BY DEF IInv, TypeOK, PoppingLabels, ProducerLabels, OfferLabels, HandLabels
<1>7. \A c \in Consumers : pc[c] \notin PushingLabels
  BY DEF IInv, TypeOK, PushingLabels, ConsumerLabels, PopHandLabels
<1> QED BY <1>3, <1>4, <1>5, <1>6, <1>7 DEF Threads

(* The node a walk begins with is malloc'ed; the walk goes on from its next*)
(* link, over one node less, once it has been freed.                       *)
LEMMA WalkOn ==
  ASSUME NEW c, NEW k \in Nat, CanWalk(c, k + 1)
  PROVE  /\ c \in alloc
         /\ \A a : (alloc' = alloc \ {c} /\ next' = next /\ a = next[c])
                      => CanWalk(a, k)'
<1>1. PICK w \in [1 .. k + 1 -> alloc] : IsWalk(w, c, k + 1) BY DEF CanWalk
<1>2. w[1] = c /\ c \in alloc BY <1>1 DEF IsWalk
<1>3. ASSUME NEW a, alloc' = alloc \ {c}, next' = next, a = next[c]
      PROVE  \E v \in [1 .. k -> alloc'] : IsWalk(v, a, k)'
  <2> DEFINE v == [i \in 1 .. k |-> w[i + 1]]
  <2>1. \A i \in 1 .. k : w[i + 1] \in alloc /\ w[i + 1] # c
    BY <1>1, <1>2 DEF IsWalk
  <2>2. v \in [1 .. k -> alloc'] BY <1>3, <2>1
  <2>3. k > 0 => v[1] = a BY <1>1, <1>2, <1>3 DEF IsWalk
  <2>4. \A i, j \in 1 .. k : v[i] = v[j] => i = j BY <1>1 DEF IsWalk
  <2>5. \A i \in 1 .. k - 1 : next'[v[i]] = v[i + 1]
    BY <1>1, <1>3 DEF IsWalk
  <2>6. \A i \in 1 .. k : v[i] \in alloc' BY <2>2
  <2> HIDE DEF v
  <2>7. IsWalk(v, a, k)' BY <2>3, <2>4, <2>5, <2>6 DEF IsWalk
  <2> QED BY <2>2, <2>7
<1> QED BY <1>2, <1>3 DEF CanWalk

(* Before a signal comes every step is a step of the running queue.        *)
LEMMA QuietStep ==
  ASSUME ShutdownInv, Quiet, ~Handling, ~disturbed,
         NEW t \in Threads, ThreadStep(t)
  PROVE  Quiet' /\ ~Handling' /\ ~disturbed' /\ struck' = struck
<1>1. UNCHANGED <<fate, live, ptr, indexed, queueLive, g_queue, stack, hpc, struck>>
      /\ ~disturbed'
  BY DEF ThreadStep, resourceVars, handlerVars
<1>2. [Next]_vars
  <2>1. CASE CheckQueue(t) BY <2>1 DEF CheckQueue
  <2>2. CASE Lock(t) BY <2>2 DEF Lock, Next
  <2>3. CASE Proceed(t) BY <2>3 DEF Proceed, Next
  <2>4. CASE t \in Producers /\ ReceiveLate(t) BY <2>4 DEF ReceiveLate, Next
  <2>5. CASE SkipQueue(t) BY <2>5 DEF SkipQueue, Quiet
  <2> QED BY <2>1, <2>2, <2>3, <2>4, <2>5 DEF ThreadStep
<1>3. IInv' BY <1>2, Inductive DEF Quiet
<1> QED BY <1>1, <1>3 DEF Quiet, Handling

(* Nothing has been freed: no thread does what has no defined outcome.     *)
LEMMA QuietIsDefined ==
  ASSUME Quiet, NEW t \in Threads
  PROVE  ~Undefined(t)
<1>1. Dereferences(t) \subseteq alloc
  BY SafeAccess DEF Quiet, NoDanglingAccess
<1>2. pc[t] = "pop_size" => node[t] # NULL
  <2>1. t \in Producers => pc[t] # "pop_size"
    BY DEF Quiet, IInv, TypeOK, ProducerLabels, OfferLabels, HandLabels
  <2> QED BY <2>1, DataAssumption DEF Quiet, IInv, HandInv, ConsumerHand, Threads
<1>3. Sound(t) BY <1>1, <1>2 DEF Sound, Quiet
<1>4. \A r \in Resources : Usable(r) BY DEF Usable, Quiet
<1> QED BY <1>3, <1>4 DEF Undefined, Quiet

(* The new handler is the innermost on its thread.                         *)
LEMMA DeliverStack ==
  ASSUME ShutdownInv, NEW s \in Signals, NEW t \in AllThreads, Deliver(s, t)
  PROVE  /\ stack'[t] # <<>> /\ Last(stack'[t]) = s
         /\ \A u \in AllThreads \ {t} : stack'[u] = stack[u]
         /\ hpc'[s] = <<"handle", "test">>
<1>1. stack \in [AllThreads -> Seq(Signals)] /\ stack' = [stack EXCEPT ![t] = Append(@, s)]
  BY DEF Deliver, ShutdownInv, ShutdownTypeOK
<1>2. stack[t] \in Seq(Signals) /\ stack'[t] = Append(stack[t], s) BY <1>1
<1>3. stack'[t] # <<>> /\ Last(stack'[t]) = s BY <1>2 DEF Last
<1>4. \A u \in AllThreads \ {t} : stack'[u] = stack[u] BY <1>1
<1>5. hpc'[s] = <<"handle", "test">> BY DEF Deliver, ShutdownInv, HandlerTypeOK
<1> QED BY <1>3, <1>4, <1>5

(* The signal finds a queue that can be walked.                            *)
LEMMA FirstDelivery ==
  ASSUME ShutdownInv, Quiet, ~Handling, ~disturbed, struck = {},
         NEW s \in Signals, NEW t \in AllThreads, Deliver(s, t)
  PROVE  AloneInv'
<1>0. \A u \in AllThreads : stack[u] = <<>> BY DEF Handling
<1>1. /\ UNCHANGED <<head, size, next, alloc, curr, following, struck>>
      /\ UNCHANGED <<fate, live, ptr, indexed, queueLive, g_queue>> /\ ~disturbed'
  BY <1>0 DEF Deliver, vars, listVars, nodeVars, resourceVars
<1>2. OnlyOn(t)' /\ Last(stack'[t]) = s /\ hpc'[s] = <<"handle", "test">>
  BY <1>0, DeliverStack DEF OnlyOn
<1>3. Handling' BY <1>2 DEF Handling, OnlyOn
<1>5. CanWalk(head, size)' BY <1>1, WalkFromHead DEF Quiet, CanWalk, IsWalk
<1>6. QueueStage(s)' BY <1>1, <1>2, <1>5 DEF QueueStage, Quiet
<1>7. DatabaseStage(s)' BY <1>1, <1>2 DEF DatabaseStage, Quiet, Resources, Harmless
<1>8. AloneStage(s)' BY <1>1, <1>2, <1>6, <1>7 DEF AloneStage, Pending, Quiet, Resources
<1>9. ~Doomed' /\ fate' # "undefined" BY <1>1 DEF Doomed, Quiet
<1> QED BY <1>1, <1>2, <1>3, <1>8, <1>9 DEF AloneInv

(* A second handler on top of one that is at a harmless step finds a whole *)
(* queue, and whatever of the database is not freed.                       *)
LEMMA NestedAlone ==
  ASSUME ShutdownInv, NEW s \in Signals, NEW t \in AllThreads, Deliver(s, t),
         NEW o \in Signals, AloneStage(o), hpc[o] \in Harmless,
         struck' = struck \cup {hpc[o]}
  PROVE  AloneStage(s)'
<1>1. UNCHANGED <<head, size, next, alloc, live, ptr, indexed, queueLive, g_queue>>
  BY DEF Deliver, vars, listVars, nodeVars, resourceVars
<1>2. hpc'[s] = <<"handle", "test">> BY DeliverStack
<1>3. hpc[o][1] \in {"handle", "v_index"} /\ hpc[o][2] # "null" BY DEF Harmless
<1>4. CanWalk(head, size) /\ queueLive /\ g_queue BY <1>3 DEF AloneStage, QueueStage
<1>5. CanWalk(head, size)' BY <1>1, <1>4 DEF CanWalk, IsWalk
<1>6. QueueStage(s)' BY <1>1, <1>2, <1>4, <1>5 DEF QueueStage
<1>7. DatabaseStage(o) BY DEF AloneStage
<1>8. DatabaseStage(s)' BY <1>1, <1>2, <1>3, <1>7 DEF DatabaseStage, Harmless
<1>9. {"re", "match_data", "hselog"} \subseteq live BY <1>3 DEF AloneStage, Pending
<1> QED BY <1>1, <1>2, <1>6, <1>8, <1>9 DEF AloneStage, Pending

(* On top of one at a later step it is bound to use what is freed.         *)
LEMMA NestedDoomed ==
  ASSUME ShutdownInv, NEW s \in Signals, NEW t \in AllThreads, Deliver(s, t),
         NEW o \in Signals, struck' = struck \cup {hpc[o]}, Doomed',
         struck \subseteq Harmless => AloneStage(o),
         Doomed => DoomedStage(o)
  PROVE  DoomedStage(s)'
<1>1. UNCHANGED <<live, ptr>> BY DEF Deliver, resourceVars
<1>2. hpc'[s] = <<"handle", "test">> BY DeliverStack
<1>3. "v_index" \notin live \/ "handle" \in ptr \ live
  <2>1. CASE struck \subseteq Harmless
    <3>1. hpc[o] \notin Harmless /\ <<"v_index", "free">> \notin struck BY <2>1 DEF Doomed
    <3>2. DatabaseStage(o) BY <2>1 DEF AloneStage
    <3> QED BY <3>1, <3>2 DEF DatabaseStage
  <2>2. CASE ~(struck \subseteq Harmless)
    <3>1. Doomed BY <2>2 DEF Doomed
    <3> QED BY <3>1 DEF DoomedStage
  <2> QED BY <2>1, <2>2
<1> QED BY <1>1, <1>2, <1>3 DEF DoomedStage

(* The innermost handler, on its way through the resources.                *)
LEMMA AloneResource ==
  ASSUME ShutdownInv, NEW s \in Signals, AloneStage(s), NEW r \in Resources,
         TestResource(s, r) \/ FreeResource(s, r) \/ ClearPointer(s, r)
  PROVE  AloneStage(s)'
<1>1. /\ UNCHANGED <<head, size, next, alloc, curr, following, indexed, queueLive, g_queue,
                     struck>>
      /\ live' = live \ {r} \/ live' = live
  BY DEF TestResource, FreeResource, ClearPointer, vars, listVars, nodeVars, resourceVars,
     historyVars
<1>2. CanWalk(head, size)' <=> CanWalk(head, size)
  BY <1>1 DEF CanWalk, IsWalk
<1>3. hpc[s] = <<r, hpc[s][2]>> /\ hpc[s][1] = r /\ hpc[s][2] \in {"test", "free", "null"}
      /\ (hpc[s][2] # "free" => live' = live)
  BY DEF TestResource, FreeResource, ClearPointer, HandlerAt, resourceVars
<1>h. hpc \in [Signals -> Points \X Steps] BY DEF ShutdownInv, HandlerTypeOK
<1>4. \/ hpc'[s] = NextResource(r) /\ (hpc[s][2] = "free" => r = "v_index")
      \/ hpc'[s] = <<r, "free">> /\ hpc[s][2] = "test"
      \/ hpc'[s] = <<r, "null">> /\ hpc[s][2] = "free"
  BY <1>h DEF TestResource, FreeResource, ClearPointer, HandlerAt
<1>g. r = "hselog" => ~g_queue' BY <1>1, <1>3 DEF AloneStage
<1>q. r \in {"handle", "v_index", "re", "match_data"} =>
        CanWalk(head, size)' /\ queueLive' /\ g_queue'
  BY <1>1, <1>2, <1>3 DEF AloneStage, QueueStage
<1>p. /\ hpc[s][2] # "null" => Pending(r) \subseteq live
      /\ hpc[s][2] = "null" => Pending(r) \ {r} \subseteq live
  BY <1>3 DEF AloneStage
<1>d. DatabaseStage(s) BY DEF AloneStage
<1>5. DatabaseStage(s)'
  <2>1. CASE r = "handle"
    <3>1. CASE TestResource(s, r)
      <4>1. hpc[s] = <<"handle", "test">> /\ UNCHANGED <<live, ptr>>
            /\ hpc'[s] = IF "handle" \in ptr THEN <<"handle", "free">> ELSE <<"v_index", "test">>
        BY <1>h, <2>1, <3>1 DEF TestResource, HandlerAt, NextResource, resourceVars
      <4> QED BY <1>1, <1>d, <4>1 DEF DatabaseStage, Harmless
    <3>2. CASE FreeResource(s, r)
      <4>1. hpc[s] = <<"handle", "free">> /\ live' = live \ {"handle"} /\ ptr' = ptr
            /\ hpc'[s] = <<"handle", "null">>
        BY <1>h, <2>1, <3>2 DEF FreeResource, HandlerAt
      <4> QED BY <1>1, <1>d, <4>1 DEF DatabaseStage, Harmless
    <3>3. CASE ClearPointer(s, r)
      <4>1. hpc[s] = <<"handle", "null">> /\ live' = live /\ ptr' = ptr \ {"handle"}
            /\ hpc'[s] = <<"v_index", "test">>
        BY <1>h, <2>1, <3>3 DEF ClearPointer, HandlerAt, NextResource
      <4> QED BY <1>1, <1>d, <4>1 DEF DatabaseStage, Harmless
    <3> QED BY <3>1, <3>2, <3>3
  <2>2. CASE r = "v_index"
    <3>1. hpc[s] = <<"v_index", "free">> /\ live' = live \ {"v_index"}
          /\ hpc'[s] = <<"re", "test">>
      <4>1. hpc[s] # <<"v_index", "null">> BY <1>d, <1>3, <2>2 DEF DatabaseStage, Harmless
      <4> QED BY <1>h, <2>2, <4>1 DEF TestResource, FreeResource, ClearPointer, HandlerAt,
            NextResource
    <3> QED BY <1>1, <3>1 DEF DatabaseStage, Harmless
  <2>3. CASE r \notin {"handle", "v_index"}
    <3>1. hpc'[s][1] \notin {"handle", "v_index"}
      BY <1>4, <2>3 DEF NextResource, Resources
    <3>2. "v_index" \in live' <=> "v_index" \in live BY <1>1, <2>3
    <3>3. "v_index" \notin live \/ <<"v_index", "free">> \in struck
      BY <1>d, <1>3, <2>3 DEF DatabaseStage
    <3>4. hpc'[s] \notin Harmless \cup {<<"handle", "null">>, <<"handle", "free">>}
      BY <3>1 DEF Harmless
    <3> QED BY <1>1, <3>1, <3>2, <3>3, <3>4 DEF DatabaseStage
  <2> QED BY <2>1, <2>2, <2>3
<1>6. CASE hpc'[s] = <<r, "free">> /\ hpc[s][2] = "test"
  BY <1>1, <1>3, <1>5, <1>6, <1>g, <1>q, <1>p DEF AloneStage, QueueStage, Resources
<1>7. CASE hpc'[s] = <<r, "null">> /\ hpc[s][2] = "free"
  BY <1>1, <1>3, <1>5, <1>7, <1>g, <1>q, <1>p DEF AloneStage, QueueStage, Resources
<1>8. CASE hpc'[s] = NextResource(r) /\ (hpc[s][2] = "free" => r = "v_index")
  <2>1. Pending(NextResource(r)[1]) \subseteq Pending(r) \ {r}
        \/ (r \in {"match_data", "hselog"} /\ Pending(NextResource(r)[1]) \subseteq Pending(r))
    BY DEF Pending, NextResource, Resources
  <2>2. NextResource(r)[2] # "null" /\ NextResource(r)[1] # "none"
        /\ (NextResource(r)[1] \in {"hselog", "exit"} => r = "hselog")
    BY DEF NextResource, Resources
  <2>3. Pending(NextResource(r)[1]) \subseteq live'
    BY <1>1, <1>3, <1>8, <1>p, <2>1 DEF Pending, NextResource, Resources
  <2>4. QueueStage(s)'
    BY <1>8, <1>q DEF QueueStage, NextResource, Resources
  <2> QED BY <1>5, <1>8, <1>g, <2>2, <2>3, <2>4 DEF AloneStage
<1> QED BY <1>4, <1>6, <1>7, <1>8

(* The vector index: length is tested, and set to 0.                       *)
LEMMA AloneIndex ==
  ASSUME ShutdownInv, NEW s \in Signals, AloneStage(s), TestLength(s) \/ ZeroLength(s)
  PROVE  AloneStage(s)'
<1>h. hpc \in [Signals -> Points \X Steps] /\ indexed \in BOOLEAN
  BY DEF ShutdownInv, HandlerTypeOK, ShutdownTypeOK
<1>1. UNCHANGED <<head, size, next, alloc, curr, following, live, ptr, queueLive, g_queue,
                  struck>>
  BY DEF TestLength, ZeroLength, vars, listVars, nodeVars, resourceVars, historyVars
<1>2. hpc[s][1] = "v_index" /\ hpc[s][2] # "null"
  BY DEF TestLength, ZeroLength, HandlerAt
<1>3. CanWalk(head, size)' /\ queueLive' /\ g_queue'
  BY <1>1, <1>2 DEF AloneStage, QueueStage, CanWalk, IsWalk
<1>4. {"re", "match_data", "hselog"} \subseteq live BY <1>2 DEF AloneStage, Pending
<1>d. DatabaseStage(s) BY DEF AloneStage
<1>5. CASE TestLength(s)
  <2>1. /\ hpc[s] = <<"v_index", "test">> /\ indexed' = indexed
        /\ hpc'[s] = IF indexed THEN <<"v_index", "zero">> ELSE <<"re", "test">>
    BY <1>h, <1>5 DEF TestLength, HandlerAt, NextResource, resourceVars
  <2>2. DatabaseStage(s)' BY <1>1, <1>d, <2>1 DEF DatabaseStage, Harmless
  <2> QED BY <1>1, <1>3, <1>4, <2>1, <2>2 DEF AloneStage, QueueStage, Pending
<1>6. CASE ZeroLength(s)
  <2>1. hpc[s] = <<"v_index", "zero">> /\ hpc'[s] = <<"v_index", "free">>
    BY <1>h, <1>6 DEF ZeroLength, HandlerAt, HandlerGoto
  <2>2. DatabaseStage(s)' BY <1>1, <1>d, <2>1 DEF DatabaseStage, Harmless
  <2> QED BY <1>1, <1>3, <1>4, <2>1, <2>2 DEF AloneStage, QueueStage, Pending
<1> QED BY <1>5, <1>6

(* LIST_DESTROY, one node after the other, and the end of the queue.       *)
LEMMA AloneQueue ==
  ASSUME ShutdownInv, NEW s \in Signals, AloneStage(s),
         \/ BufferDestroy(s) \/ DestroyWhile(s) \/ DestroyNext(s) \/ DestroyNode(s)
         \/ DestroyList(s) \/ ClearQueue(s)
  PROVE  AloneStage(s)'
<1>0. /\ curr \in [Signals -> Pointer] /\ following \in [Signals -> Pointer]
      /\ size \in Int /\ hpc \in [Signals -> Points \X Steps]
  BY DEF ShutdownInv, ShutdownTypeOK, SharedTypeOK, HandlerTypeOK
<1>1. /\ live' = live /\ hpc[s][1] = "queue"
      /\ indexed' = indexed /\ ptr' = ptr /\ struck' = struck
  BY DEF BufferDestroy, DestroyWhile, DestroyNext, DestroyNode, DestroyList, ClearQueue,
     HandlerAt, resourceVars, historyVars
<1>d. ASSUME hpc'[s][1] \in {"queue", "hselog"} PROVE DatabaseStage(s)'
  <2>1. DatabaseStage(s) BY DEF AloneStage
  <2>2. "v_index" \notin live \/ <<"v_index", "free">> \in struck
    BY <1>1, <2>1 DEF DatabaseStage
  <2>3. hpc'[s] \notin Harmless \cup {<<"handle", "null">>, <<"handle", "free">>}
    BY <1>d DEF Harmless
  <2> QED BY <1>1, <1>d, <2>2, <2>3 DEF DatabaseStage
<1>2. "hselog" \in live
  BY <1>1 DEF AloneStage, Pending
<1>3. CASE BufferDestroy(s)
  <2>1. hpc[s] = <<"queue", "test">> BY <1>3 DEF BufferDestroy, HandlerAt
  <2>2. CanWalk(head, size) /\ queueLive /\ g_queue
    BY <2>1 DEF AloneStage, QueueStage
  <2>3. /\ curr'[s] = head /\ hpc'[s] = <<"queue", "while">>
        /\ UNCHANGED <<size, next, alloc, queueLive, g_queue>>
    BY <1>0, <1>3, <2>2 DEF BufferDestroy, HandlerGoto, vars, listVars, nodeVars, resourceVars
  <2>4. CanWalk(curr[s], size)' BY <2>2, <2>3 DEF CanWalk, IsWalk
  <2> QED BY <1>1, <1>2, <1>d, <2>2, <2>3, <2>4 DEF AloneStage, QueueStage, Pending
<1>4. CASE DestroyWhile(s)
  <2>1. hpc[s] = <<"queue", "while">> BY <1>4 DEF DestroyWhile, HandlerAt
  <2>2. CanWalk(curr[s], size) /\ queueLive /\ g_queue
    BY <2>1 DEF AloneStage, QueueStage
  <2>3. /\ size' = size - 1
        /\ hpc'[s] = <<"queue", IF size # 0 THEN "next" ELSE "free">>
        /\ UNCHANGED <<curr, next, alloc, queueLive, g_queue>>
    BY <1>0, <1>4 DEF DestroyWhile, HandlerGoto, nodeVars, resourceVars
  <2>4. CanWalk(curr[s], size + 1)'
    BY <1>0, <2>2, <2>3 DEF CanWalk, IsWalk
  <2>5. size >= 0 BY <2>2 DEF CanWalk
  <2>6. size # 0 => size' >= 0 BY <1>0, <2>3, <2>5
  <2> QED BY <1>1, <1>2, <1>d, <2>2, <2>3, <2>4, <2>6 DEF AloneStage, QueueStage, Pending
<1>5. CASE DestroyNext(s)
  <2>1. hpc[s] = <<"queue", "next">> BY <1>5 DEF DestroyNext, HandlerAt
  <2>2. size >= 0 /\ CanWalk(curr[s], size + 1) /\ queueLive /\ g_queue
    BY <2>1 DEF AloneStage, QueueStage
  <2>3. /\ following'[s] = next[curr[s]] /\ hpc'[s] = <<"queue", "free_node">>
        /\ UNCHANGED <<curr, size, next, alloc, queueLive, g_queue>>
    BY <1>0, <1>5 DEF DestroyNext, HandlerGoto, vars, listVars, nodeVars, resourceVars
  <2>4. CanWalk(curr[s], size + 1)' BY <2>2, <2>3 DEF CanWalk, IsWalk
  <2> QED BY <1>1, <1>2, <1>d, <2>2, <2>3, <2>4 DEF AloneStage, QueueStage, Pending
<1>6. CASE DestroyNode(s)
  <2>1. hpc[s] = <<"queue", "free_node">> BY <1>6 DEF DestroyNode, HandlerAt
  <2>2. size >= 0 /\ CanWalk(curr[s], size + 1) /\ following[s] = next[curr[s]]
        /\ queueLive /\ g_queue
    BY <2>1 DEF AloneStage, QueueStage
  <2>3. /\ curr'[s] = following[s] /\ hpc'[s] = <<"queue", "while">>
        /\ alloc' = alloc \ {curr[s]}
        /\ UNCHANGED <<size, next, queueLive, g_queue>>
    BY <1>0, <1>6 DEF DestroyNode, HandlerGoto, listVars, resourceVars
  <2>4. CanWalk(curr[s], size)'
    <3>1. size \in Nat BY <1>0, <2>2
    <3> QED BY <2>2, <2>3, <3>1, WalkOn
  <2> QED BY <1>1, <1>2, <1>d, <2>2, <2>3, <2>4 DEF AloneStage, QueueStage, Pending
<1>7. CASE DestroyList(s)
  <2>1. hpc'[s] = <<"queue", "null">>
    BY <1>0, <1>7 DEF DestroyList, HandlerGoto
  <2> QED BY <1>1, <1>2, <1>d, <2>1 DEF AloneStage, QueueStage, Pending
<1>8. CASE ClearQueue(s)
  <2>1. hpc'[s] = <<"hselog", "test">> /\ ~g_queue'
    BY <1>0, <1>8 DEF ClearQueue, HandlerGoto
  <2> QED BY <1>1, <1>2, <1>d, <2>1 DEF AloneStage, QueueStage, Pending
<1> QED BY <1>3, <1>4, <1>5, <1>6, <1>7, <1>8

(* Nothing that the handler needs has been freed before it.                *)
LEMMA AloneIsDefined ==
  ASSUME ShutdownInv, NEW s \in Signals, AloneStage(s)
  PROVE  ~HandlerUndefined(s)
<1>d. DatabaseStage(s) BY DEF AloneStage
<1>1. ~(\E step \in {"test", "zero"} : HandlerAt(s, "v_index", step) /\ "v_index" \notin live)
  BY <1>d DEF HandlerAt, DatabaseStage
<1>2. ASSUME NEW r \in Resources PROVE ~(HandlerAt(s, r, "free") /\ r \notin live)
  <2>1. CASE r \in {"handle", "v_index"}
    BY <1>d, <2>1 DEF HandlerAt, DatabaseStage, Harmless
  <2>2. CASE r \notin {"handle", "v_index"}
    BY <2>2 DEF HandlerAt, AloneStage, Pending, Resources
  <2> QED BY <2>1, <2>2
<1>3. ~(HandlerAt(s, "queue", "test") /\ g_queue /\ ~queueLive)
      /\ ~(HandlerAt(s, "queue", "while") /\ ~(queueLive /\ g_queue))
      /\ ~(HandlerAt(s, "queue", "free") /\ ~(queueLive /\ g_queue))
  BY DEF HandlerAt, AloneStage, QueueStage
<1>4. ~(HandlerAt(s, "queue", "next") /\ curr[s] \notin alloc)
      /\ ~(HandlerAt(s, "queue", "free_node") /\ curr[s] \notin alloc)
  <2>1. SUFFICES ASSUME hpc[s] = <<"queue", "next">> \/ hpc[s] = <<"queue", "free_node">>
                 PROVE  curr[s] \in alloc
    BY DEF HandlerAt
  <2>2. size >= 0 /\ CanWalk(curr[s], size + 1) BY <2>1 DEF AloneStage, QueueStage
  <2>3. size \in Nat BY <2>2 DEF ShutdownInv, SharedTypeOK
  <2> QED BY <2>2, <2>3, WalkOn
<1> QED BY <1>1, <1>2, <1>3, <1>4 DEF HandlerUndefined

LEMMA AloneStageSame ==
  ASSUME NEW s \in Signals, AloneStage(s),
         UNCHANGED <<vars, resourceVars, handlerVars, struck>>
  PROVE  AloneStage(s)'
<1>1. UNCHANGED <<head, size, next, alloc, curr, following, hpc, live, ptr, indexed, queueLive,
                  g_queue, struck>>
  BY DEF vars, listVars, nodeVars, resourceVars, handlerVars
<1>2. QueueStage(s)' BY <1>1 DEF AloneStage, QueueStage, CanWalk, IsWalk
<1>3. DatabaseStage(s)' BY <1>1 DEF AloneStage, DatabaseStage
<1> QED BY <1>1, <1>2, <1>3 DEF AloneStage

(* A doomed handler does not get past what is freed.                       *)
LEMMA DoomedStep ==
  ASSUME ShutdownInv, NEW s \in Signals, DoomedStage(s), HandlerStep(s), fate # "exited"
  PROVE  DoomedStage(s)' /\ fate' # "exited"
<1>0. hpc \in [Signals -> Points \X Steps] BY DEF ShutdownInv, HandlerTypeOK
<1>1. hpc[s] \in {<<"handle", "test">>, <<"handle", "free">>, <<"handle", "null">>,
                  <<"v_index", "test">>}
  BY DEF DoomedStage
<1>2. CASE TestResource(s, "handle")
  <2>1. fate' = fate /\ live' = live /\ ptr' = ptr /\ hpc[s] = <<"handle", "test">>
        /\ hpc'[s] = IF "handle" \in ptr THEN <<"handle", "free">> ELSE <<"v_index", "test">>
    BY <1>0, <1>2 DEF TestResource, HandlerAt, NextResource, resourceVars
  <2> QED BY <2>1 DEF DoomedStage
<1>3. CASE FreeResource(s, "handle")
  <2>1. fate' = fate /\ live' = live \ {"handle"} /\ "handle" \in live
        /\ hpc'[s] = <<"handle", "null">>
    BY <1>0, <1>3 DEF FreeResource, HandlerAt
  <2> QED BY <2>1 DEF DoomedStage
<1>4. CASE ClearPointer(s, "handle")
  <2>1. fate' = fate /\ live' = live /\ hpc'[s] = <<"v_index", "test">>
        /\ hpc[s] = <<"handle", "null">>
    BY <1>0, <1>4 DEF ClearPointer, HandlerAt, NextResource
  <2> QED BY <2>1 DEF DoomedStage
<1>5. CASE HandlerUndefined(s)
  <2>1. fate' = "undefined" /\ UNCHANGED <<live, ptr, hpc>>
    BY <1>5 DEF HandlerUndefined, resourceVars, handlerVars
  <2> QED BY <2>1 DEF DoomedStage
<1>6. ~TestLength(s)
  BY DEF TestLength, HandlerAt, DoomedStage
<1>7. ~ZeroLength(s) /\ ~BufferDestroy(s) /\ ~DestroyWhile(s) /\ ~DestroyNext(s)
      /\ ~DestroyNode(s) /\ ~DestroyList(s) /\ ~ClearQueue(s) /\ ~Exit(s)
  BY <1>1 DEF ZeroLength, BufferDestroy, DestroyWhile, DestroyNext, DestroyNode, DestroyList,
     ClearQueue, Exit, HandlerAt
<1>8. ASSUME NEW r \in Resources,
             TestResource(s, r) \/ FreeResource(s, r) \/ ClearPointer(s, r)
      PROVE  r = "handle"
  BY <1>1, <1>8 DEF TestResource, FreeResource, ClearPointer, HandlerAt
<1> QED BY <1>2, <1>3, <1>4, <1>5, <1>6, <1>7, <1>8 DEF HandlerStep

LEMMA QuietSame ==
  Quiet /\ UNCHANGED <<vars, fate, resourceVars, handlerVars>> => Quiet'
BY Inductive DEF Quiet, resourceVars, handlerVars

LEMMA AloneInit == ShutdownInit => AloneInv
BY InitInv DEF ShutdownInit, AloneInv, Quiet, Handling

(* What a step of a handler never changes.                                 *)
LEMMA HandlerKeeps ==
  ASSUME NEW s \in Signals, HandlerStep(s)
  PROVE  HandlerRuns(s) /\ stack' = stack /\ disturbed' = disturbed /\ struck' = struck
<1>1. ASSUME NEW r \in Resources,
             TestResource(s, r) \/ FreeResource(s, r) \/ ClearPointer(s, r)
      PROVE  HandlerRuns(s) /\ stack' = stack /\ disturbed' = disturbed /\ struck' = struck
  BY <1>1 DEF TestResource, FreeResource, ClearPointer, HandlerAt, historyVars
<1>2. CASE \/ TestLength(s) \/ ZeroLength(s) \/ BufferDestroy(s) \/ DestroyWhile(s)
           \/ DestroyNext(s) \/ DestroyNode(s) \/ DestroyList(s) \/ ClearQueue(s) \/ Exit(s)
  BY <1>2 DEF TestLength, ZeroLength, BufferDestroy, DestroyWhile, DestroyNext, DestroyNode,
     DestroyList, ClearQueue, Exit, HandlerAt, handlerVars, historyVars
<1>3. CASE HandlerUndefined(s)
  BY <1>3 DEF HandlerUndefined, HandlerAt, handlerVars, historyVars
<1> QED BY <1>1, <1>2, <1>3 DEF HandlerStep

(* The innermost handler goes on as long as nobody has struck too late.    *)
LEMMA AloneHandler ==
  ASSUME ShutdownInv, NEW s \in Signals, AloneStage(s), HandlerStep(s), fate # "undefined"
  PROVE  AloneStage(s)' /\ fate' # "undefined"
<1>1. ASSUME NEW r \in Resources,
             TestResource(s, r) \/ FreeResource(s, r) \/ ClearPointer(s, r)
      PROVE  AloneStage(s)' /\ fate' = fate
  BY <1>1, AloneResource DEF TestResource, FreeResource, ClearPointer
<1>2. CASE TestLength(s) \/ ZeroLength(s)
  BY <1>2, AloneIndex DEF TestLength, ZeroLength
<1>3. CASE \/ BufferDestroy(s) \/ DestroyWhile(s) \/ DestroyNext(s) \/ DestroyNode(s)
           \/ DestroyList(s) \/ ClearQueue(s)
  <2>1. fate' = fate
    BY <1>3 DEF BufferDestroy, DestroyWhile, DestroyNext, DestroyNode, DestroyList, ClearQueue
  <2> QED BY <1>3, <2>1, AloneQueue
<1>4. CASE Exit(s)
  <2>1. fate' # "undefined" /\ struck' = struck BY <1>4 DEF Exit, historyVars
  <2> QED BY <1>4, <2>1, AloneStageSame DEF Exit
<1>5. ~HandlerUndefined(s) BY AloneIsDefined
<1> QED BY <1>1, <1>2, <1>3, <1>4, <1>5 DEF HandlerStep

(* Once its handler has begun, only that handler, or one on top of it, can *)
(* take a step that leaves the teardown undisturbed.                       *)
LEMMA AloneStep == ShutdownInv /\ AloneInv /\ [ShutdownNext]_allVars => AloneInv'
<1> SUFFICES ASSUME ShutdownInv, AloneInv, [ShutdownNext]_allVars PROVE AloneInv'
  OBVIOUS
<1>0. disturbed \in BOOLEAN /\ Handling \in BOOLEAN
  BY DEF ShutdownInv, ShutdownTypeOK, Handling
<1>t. stack \in [AllThreads -> Seq(Signals)] BY DEF ShutdownInv, ShutdownTypeOK
<1>1. CASE ~Handling
  <2>1. Quiet /\ ~disturbed /\ struck = {} BY <1>1 DEF AloneInv
  <2>2. ASSUME NEW s \in Signals PROVE ~HandlerStep(s)
    <3>1. ~HandlerRuns(s) BY <1>1 DEF HandlerRuns, Handling
    <3> QED BY <3>1, HandlerKeeps
  <2>3. CASE UNCHANGED allVars
    BY <1>1, <2>1, <2>3, QuietSame DEF AloneInv, allVars, shutdownVars, resourceVars,
       handlerVars, historyVars, Handling
  <2>4. ASSUME NEW t \in Threads, ThreadStep(t) PROVE AloneInv'
    <3>1. Quiet' /\ ~Handling' /\ ~disturbed' /\ struck' = {}
      BY <1>1, <2>1, <2>4, QuietStep
    <3> QED BY <3>1 DEF AloneInv
  <2> QED BY <1>1, <2>1, <2>2, <2>3, <2>4, QuietIsDefined, FirstDelivery
      DEF ShutdownNext
<1>2. CASE Handling
  <2>1. ASSUME NEW t \in Threads, ThreadStep(t) \/ Undefined(t) PROVE AloneInv'
    <3>1. stack' = stack /\ disturbed'
      BY <1>2, <2>1 DEF ThreadStep, Undefined, handlerVars
    <3> QED BY <1>2, <3>1 DEF AloneInv, Handling
  <2>2. ASSUME disturbed, stack' = stack, disturbed' PROVE AloneInv'
    BY <1>2, <2>2 DEF AloneInv, Handling
  <2>3. ASSUME NEW s \in Signals, HandlerStep(s) PROVE AloneInv'
    <3>1. HandlerRuns(s) /\ stack' = stack /\ disturbed' = disturbed /\ struck' = struck
      BY <2>3, HandlerKeeps
    <3>2. CASE ~disturbed
      <4>1. PICK t \in AllThreads :
              /\ OnlyOn(t)
              /\ struck \subseteq Harmless => fate # "undefined" /\ AloneStage(Last(stack[t]))
              /\ Doomed => fate # "exited" /\ DoomedStage(Last(stack[t]))
        BY <1>2, <3>2 DEF AloneInv
      <4>2. Last(stack[t]) = s BY <3>1, <4>1 DEF HandlerRuns, OnlyOn
      <4>3. OnlyOn(t)' /\ Handling' BY <1>2, <3>1, <4>1 DEF OnlyOn, Handling
      <4>4. struck \subseteq Harmless => AloneStage(s)' /\ fate' # "undefined"
        BY <2>3, <4>1, <4>2, AloneHandler
      <4>5. Doomed => DoomedStage(s)' /\ fate' # "exited"
        BY <2>3, <4>1, <4>2, DoomedStep
      <4>6. Doomed' <=> Doomed BY <3>1 DEF Doomed
      <4>7. Last(stack'[t]) = s BY <3>1, <4>2
      <4> QED BY <3>1, <3>2, <4>3, <4>4, <4>5, <4>6, <4>7 DEF AloneInv
    <3> QED BY <1>0, <2>2, <3>1, <3>2
  <2>4. ASSUME NEW s \in Signals, NEW t \in AllThreads, Deliver(s, t) PROVE AloneInv'
    <3>1. stack'[t] # <<>> /\ Last(stack'[t]) = s
          /\ \A u \in AllThreads \ {t} : stack'[u] = stack[u]
      BY <2>4, DeliverStack
    <3>2. Handling' BY <3>1 DEF Handling
    <3>3. CASE disturbed \/ stack[t] = <<>>
      <4>1. disturbed' BY <1>2, <2>4, <3>3 DEF Deliver
      <4> QED BY <3>2, <4>1 DEF AloneInv
    <3>4. CASE ~disturbed /\ stack[t] # <<>>
      <4>1. PICK u \in AllThreads :
              /\ OnlyOn(u)
              /\ struck \subseteq Harmless => fate # "undefined" /\ AloneStage(Last(stack[u]))
              /\ Doomed => fate # "exited" /\ DoomedStage(Last(stack[u]))
        BY <1>2, <3>4 DEF AloneInv
      <4>2. u = t BY <3>4, <4>1 DEF OnlyOn
      <4>3. PICK o \in Signals : o = Last(stack[t]) BY <1>t, <3>4 DEF Last
      <4>4. struck' = struck \cup {hpc[o]} /\ fate' = fate /\ fate = "running"
        BY <2>4, <3>4, <4>3 DEF Deliver
      <4>5. OnlyOn(t)' BY <3>1, <4>1, <4>2 DEF OnlyOn
      <4>6. struck \subseteq Harmless => AloneStage(o) BY <4>1, <4>2, <4>3
      <4>7. Doomed => DoomedStage(o) BY <4>1, <4>2, <4>3
      <4>8. struck' \subseteq Harmless => AloneStage(s)'
        BY <2>4, <4>3, <4>4, <4>6, NestedAlone
      <4>9. Doomed' => DoomedStage(s)'
        BY <2>4, <4>3, <4>4, <4>6, <4>7, NestedDoomed
      <4> QED BY <3>1, <3>2, <4>4, <4>5, <4>8, <4>9 DEF AloneInv
    <3> QED BY <1>0, <3>3, <3>4
  <2>5. CASE UNCHANGED allVars
    <3>1. stack' = stack /\ fate' = fate /\ struck' = struck /\ disturbed' = disturbed
          /\ UNCHANGED <<vars, resourceVars, handlerVars>>
      BY <2>5 DEF allVars, shutdownVars, handlerVars, historyVars
    <3>2. CASE ~disturbed
      <4>1. PICK t \in AllThreads :
              /\ OnlyOn(t)
              /\ struck \subseteq Harmless => fate # "undefined" /\ AloneStage(Last(stack[t]))
              /\ Doomed => fate # "exited" /\ DoomedStage(Last(stack[t]))
        BY <1>2, <3>2 DEF AloneInv
      <4>2. PICK s \in Signals : s = Last(stack[t]) BY <1>t, <4>1 DEF Last, OnlyOn
      <4>3. OnlyOn(t)' /\ Handling' /\ Last(stack'[t]) = s
        BY <1>2, <3>1, <4>1, <4>2 DEF OnlyOn, Handling
      <4>4. struck \subseteq Harmless => AloneStage(s)'
        BY <3>1, <4>1, <4>2, AloneStageSame
      <4>u. UNCHANGED <<live, ptr, hpc>> BY <3>1 DEF resourceVars, handlerVars
      <4>5. DoomedStage(s) => DoomedStage(s)' BY <4>u DEF DoomedStage
      <4>6. Doomed' <=> Doomed BY <3>1 DEF Doomed
      <4>7. Doomed => DoomedStage(s) BY <4>1, <4>2
      <4>8. /\ struck' \subseteq Harmless => fate' # "undefined"
            /\ Doomed' => fate' # "exited"
        BY <3>1, <4>1, <4>6
      <4> QED BY <3>1, <3>2, <4>3, <4>4, <4>5, <4>6, <4>7, <4>8 DEF AloneInv
    <3> QED BY <1>0, <2>2, <3>1, <3>2
  <2> QED BY <2>1, <2>3, <2>4, <2>5 DEF ShutdownNext
<1> QED BY <1>0, <1>1, <1>2

(* What the innermost of the handlers on one thread relies on.             *)
THEOREM AloneInvariance == ShutdownSpec => []AloneInv
<1> QED BY AloneInit, AloneStep, ShutdownInvariance, PTL DEF ShutdownSpec

(* The signal handler of dns_client.c, undisturbed: wherever in a push or  *)
(* a pop it has interrupted a thread, it frees everything once, and never  *)
(* touches what it has freed, until it exits.                              *)
THEOREM AloneCorrect == ShutdownSpec => []AloneIsSafe
<1>1. AloneInv => AloneIsSafe BY DEF AloneInv, AloneIsSafe, Quiet
<1> QED BY <1>1, AloneInvariance, PTL

(* One handler on top of another, on one thread: harmless up to the free   *)
(* of the vector index, and never without an access to freed memory later, *)
(* for any number of signals.                                              *)
THEOREM NestedCorrect == ShutdownSpec => []NestedIsSafe
<1>1. AloneInv => NestedIsSafe
  BY DEF AloneInv, NestedIsSafe, Quiet, Doomed
<1> QED BY <1>1, AloneInvariance, PTL
=============================================================================
