------------------------------ MODULE BufQueue ------------------------------
(***************************************************************************)
(* The packet queue of ioemnetd (queue.c, queue.h) together with the two   *)
(* loops that use it: udp_server_loop, which puts packets, and main_loop,  *)
(* which takes them (dns_client.c).                                        *)
(*                                                                         *)
(* The queue is a doubly linked list in malloc'ed memory, guarded by a     *)
(* compare-and-swap spin lock.  Every read or write of shared memory is a  *)
(* step of its own, inside the critical sections too, so that a lock that  *)
(* failed to exclude would corrupt the list here as it would in C.  An     *)
(* assignment or ++/-- of one field is one step, in program order; only    *)
(* the two links that a thread writes in its own node are written at once. *)
(*                                                                         *)
(* The program has one producer and one consumer; the queue's functions    *)
(* are written for any number, and so is the model.                        *)
(*                                                                         *)
(* A definition X_Y just before a definition X is X with a plausible       *)
(* mistake, Y.  No action uses one: the properties are tried against them. *)
(***************************************************************************)
EXTENDS Integers, FiniteSets, Sequences, SequencesExt

CONSTANTS
  Producers,   \* the threads that run udp_server_loop
  Consumers,   \* the threads that run main_loop
  Packets,     \* the datagrams that may arrive
  PacketLen,   \* the length of each of them
  Node,        \* the addresses malloc may return for a List_Node
  MAX_PCK,     \* dns_client.c's bound on the queue, 1000 in the code
  NULL,
  WILD,        \* the content of a link that was never written
  NoPacket

MIN_LEN == 20      \* the shortest and the longest packet BufferInQueue takes
MAX_LEN == 1024

ASSUME ThreadsAssumption ==
  /\ Producers \cap Consumers = {}
  /\ IsFiniteSet(Producers) /\ IsFiniteSet(Consumers)

ASSUME DataAssumption ==
  /\ PacketLen \in [Packets -> 0 .. MAX_LEN]   \* recvfrom reads at most MAX_LEN
  /\ MAX_PCK \in Nat
  /\ NULL \notin Node /\ WILD \notin Node /\ NULL # WILD
  /\ NoPacket \notin Packets

Threads == Producers \cup Consumers
Pointer == Node \cup {NULL, WILD}

VARIABLES
  lock,                     \* queue.c's static int lock
  head, tail, size, len,    \* *g_queue
  prev, next, data,         \* the fields of the nodes
  alloc,                    \* the addresses malloc has handed out
  order,                    \* history: the nodes in the list, oldest first
  pc,                       \* the next step of each thread
  buf,                      \* udp_server_loop's buffer: the last datagram
  seen,                     \* the list->size a thread read under the lock
  node                      \* pnew, ppop: the node a thread works on

lockVars  == <<lock, pc>>
listVars  == <<head, tail, size, len>>
nodeVars  == <<prev, next, data, alloc>>
localVars == <<buf, seen, node>>
vars == <<lockVars, listVars, nodeVars, localVars, order>>

Goto(t, from, to) == pc[t] = from /\ pc' = [pc EXCEPT ![t] = to]

(* QueueInit has run, both threads have started, nothing has arrived.      *)
Init ==
  /\ lock = 0
  /\ head = NULL /\ tail = NULL /\ size = 0 /\ len = 0
  /\ prev = [n \in Node |-> WILD]
  /\ next = [n \in Node |-> WILD]
  /\ data = [n \in Node |-> NoPacket]
  /\ alloc = {}
  /\ order = <<>>
  /\ pc = [t \in Threads |-> IF t \in Producers THEN "recv" ELSE "empty_lock"]
  /\ buf = [p \in Producers |-> NoPacket]
  /\ seen = [t \in Threads |-> 0]
  /\ node = [t \in Threads |-> NULL]

-----------------------------------------------------------------------------
(* The spin lock.  LOCK() succeeds on the compare-and-swap from 0 to 1;    *)
(* a failed attempt is a stuttering step.  UNLOCK() is the swap from 1 to  *)
(* 0, and would spin as LOCK() does if the lock were not held.             *)

AfterLock(label) ==
  CASE label = "size_lock"  -> "size_read"
    [] label = "push_lock"  -> "push_test"
    [] label = "log_lock"   -> "log_read"
    [] label = "empty_lock" -> "empty_read"
    [] label = "pop_lock"   -> "pop_test"

(* The producer pushes without looking at the size it read ...             *)
AfterUnlock_NoSizeTest(t) ==
  CASE pc[t] = "size_unlock"  -> "enqueue"
    [] pc[t] = "push_unlock"  -> "log_lock"
    [] pc[t] = "log_unlock"   -> "recv"
    [] pc[t] = "empty_unlock" -> IF seen[t] = 0 THEN "empty_lock" ELSE "pop_lock"
    [] pc[t] = "pop_unlock"   -> IF node[t] = NULL THEN "empty_lock" ELSE "process"

(* ... the consumer pops without asking whether there is anything ...      *)
AfterUnlock_NoEmptyTest(t) ==
  CASE pc[t] = "size_unlock"  -> IF seen[t] > MAX_PCK THEN "recv" ELSE "enqueue"
    [] pc[t] = "push_unlock"  -> "log_lock"
    [] pc[t] = "log_unlock"   -> "recv"
    [] pc[t] = "empty_unlock" -> "pop_lock"
    [] pc[t] = "pop_unlock"   -> IF node[t] = NULL THEN "empty_lock" ELSE "process"

(* ... or without taking the lock again.                                   *)
AfterUnlock_NoSecondLock(t) ==
  CASE pc[t] = "size_unlock"  -> IF seen[t] > MAX_PCK THEN "recv" ELSE "enqueue"
    [] pc[t] = "push_unlock"  -> "log_lock"
    [] pc[t] = "log_unlock"   -> "recv"
    [] pc[t] = "empty_unlock" -> IF seen[t] = 0 THEN "empty_lock" ELSE "pop_test"
    [] pc[t] = "pop_unlock"   -> IF node[t] = NULL THEN "empty_lock" ELSE "process"

(* Where a thread goes from each UNLOCK(), on the values it has read:      *)
(* a full queue drops the packet, an empty one sends the consumer to sleep.*)
AfterUnlock(t) ==
  CASE pc[t] = "size_unlock"  -> IF seen[t] > MAX_PCK THEN "recv" ELSE "enqueue"
    [] pc[t] = "push_unlock"  -> "log_lock"
    [] pc[t] = "log_unlock"   -> "recv"
    [] pc[t] = "empty_unlock" -> IF seen[t] = 0 THEN "empty_lock" ELSE "pop_lock"
    [] pc[t] = "pop_unlock"   -> IF node[t] = NULL THEN "empty_lock" ELSE "process"

LockLabels   == {"size_lock", "push_lock", "log_lock", "empty_lock", "pop_lock"}
UnlockLabels == {"size_unlock", "push_unlock", "log_unlock", "empty_unlock", "pop_unlock"}

(* Read the lock word and write it, instead of a compare-and-swap: two     *)
(* threads may both have read 0.                                           *)
AtomicLock_NoSwap(t) ==
  /\ pc[t] \in LockLabels
  /\ lock' = 1
  /\ pc' = [pc EXCEPT ![t] = AfterLock(pc[t])]
  /\ UNCHANGED <<listVars, nodeVars, localVars, order>>

(* A counting lock.                                                        *)
AtomicLock_Counts(t) ==
  /\ pc[t] \in LockLabels
  /\ lock' = lock + 1
  /\ pc' = [pc EXCEPT ![t] = AfterLock(pc[t])]
  /\ UNCHANGED <<listVars, nodeVars, localVars, order>>

AtomicLock(t) ==
  /\ pc[t] \in LockLabels
  /\ lock = 0
  /\ lock' = 1
  /\ pc' = [pc EXCEPT ![t] = AfterLock(pc[t])]
  /\ UNCHANGED <<listVars, nodeVars, localVars, order>>

(* A full queue returns without UNLOCK() ...                               *)
AtomicUnlock_NotWhenFull(t) ==
  /\ pc[t] \in UnlockLabels
  /\ lock = 1
  /\ lock' = IF pc[t] = "size_unlock" /\ seen[t] > MAX_PCK THEN 1 ELSE 0
  /\ pc' = [pc EXCEPT ![t] = AfterUnlock(t)]
  /\ UNCHANGED <<listVars, nodeVars, localVars, order>>

(* ... or an empty one does.                                               *)
AtomicUnlock_NotWhenEmpty(t) ==
  /\ pc[t] \in UnlockLabels
  /\ lock = 1
  /\ lock' = IF pc[t] = "empty_unlock" /\ seen[t] = 0 THEN 1 ELSE 0
  /\ pc' = [pc EXCEPT ![t] = AfterUnlock(t)]
  /\ UNCHANGED <<listVars, nodeVars, localVars, order>>

AtomicUnlock(t) ==
  /\ pc[t] \in UnlockLabels
  /\ lock = 1
  /\ lock' = 0
  /\ pc' = [pc EXCEPT ![t] = AfterUnlock(t)]
  /\ UNCHANGED <<listVars, nodeVars, localVars, order>>

-----------------------------------------------------------------------------
(* udp_server_loop and GetQueueSize.                                       *)

Receive(p) ==
  /\ Goto(p, "recv", "size_lock")
  /\ \E pkt \in Packets : buf' = [buf EXCEPT ![p] = pkt]
  /\ UNCHANGED <<lock, listVars, nodeVars, seen, node, order>>

(* recvfrom reports an error: the loop ends and the socket is closed.      *)
ReceiveFails(p) ==
  /\ Goto(p, "recv", "stopped")
  /\ UNCHANGED <<lock, listVars, nodeVars, localVars, order>>

(* GetQueueSize before the packet is queued, and IsEmptyQueue, keep what   *)
(* they read; GetQueueSize after it is only printed.                       *)
ReadSize(t) ==
  /\ \/ Goto(t, "size_read", "size_unlock")
     \/ Goto(t, "empty_read", "empty_unlock")
  /\ seen' = [seen EXCEPT ![t] = size]
  /\ UNCHANGED <<lock, listVars, nodeVars, buf, node, order>>

LogSize(p) ==
  /\ Goto(p, "log_read", "log_unlock")
  /\ UNCHANGED <<lock, listVars, nodeVars, localVars, order>>

-----------------------------------------------------------------------------
(* BufferInQueue.                                                          *)

ValidLength(pkt) == PacketLen[pkt] \in MIN_LEN .. MAX_LEN

(* DATA_INVALID, or MEM_MALLOC_FAIL: the packet is gone, the loop goes on. *)
Reject(p) ==
  /\ Goto(p, "enqueue", "recv")
  /\ UNCHANGED <<lock, listVars, nodeVars, localVars, order>>

(* malloc, and the copy of the datagram; the links are not yet written.    *)
Allocate(p) ==
  /\ Goto(p, "enqueue", "push_lock")
  /\ ValidLength(buf[p])
  /\ \E n \in Node \ alloc :
       /\ alloc' = alloc \cup {n}
       /\ node' = [node EXCEPT ![p] = n]
       /\ data' = [data EXCEPT ![n] = buf[p]]
       /\ prev' = [prev EXCEPT ![n] = WILD]
       /\ next' = [next EXCEPT ![n] = WILD]
  /\ UNCHANGED <<lock, listVars, buf, seen, order>>

(* LIST_RPUSH, on a list with a head ...                                   *)
PushTest(p) ==
  /\ \/ Goto(p, "push_test", "push_prev") /\ head # NULL
     \/ Goto(p, "push_test", "push_first_tail") /\ head = NULL
  /\ UNCHANGED <<lock, listVars, nodeVars, localVars, order>>

PushPrev(p) ==
  /\ Goto(p, "push_prev", "push_next")
  /\ prev' = [prev EXCEPT ![node[p]] = tail]
  /\ next' = [next EXCEPT ![node[p]] = NULL]
  /\ UNCHANGED <<lock, listVars, data, alloc, localVars, order>>

(* The old last node is not linked to the new one.                         *)
PushNext_Unlinked(p) ==
  /\ Goto(p, "push_next", "push_tail")
  /\ UNCHANGED <<lock, listVars, nodeVars, localVars, order>>

PushNext(p) ==
  /\ Goto(p, "push_next", "push_tail")
  /\ next' = [next EXCEPT ![tail] = node[p]]
  /\ UNCHANGED <<lock, listVars, prev, data, alloc, localVars, order>>

PushTail(p) ==
  /\ Goto(p, "push_tail", "push_size")
  /\ tail' = node[p]
  /\ UNCHANGED <<lock, head, size, len, nodeVars, localVars, order>>

(* ... and on an empty one.                                                *)
PushFirstTail(p) ==
  /\ Goto(p, "push_first_tail", "push_first_head")
  /\ tail' = node[p]
  /\ UNCHANGED <<lock, head, size, len, nodeVars, localVars, order>>

PushFirstHead(p) ==
  /\ Goto(p, "push_first_head", "push_first_links")
  /\ head' = tail
  /\ UNCHANGED <<lock, tail, size, len, nodeVars, localVars, order>>

(* The links of the first node stay unwritten.                             *)
PushFirstLinks_Unwritten(p) ==
  /\ Goto(p, "push_first_links", "push_size")
  /\ UNCHANGED <<lock, listVars, nodeVars, localVars, order>>

PushFirstLinks(p) ==
  /\ Goto(p, "push_first_links", "push_size")
  /\ prev' = [prev EXCEPT ![node[p]] = NULL]
  /\ next' = [next EXCEPT ![node[p]] = NULL]
  /\ UNCHANGED <<lock, listVars, data, alloc, localVars, order>>

(* ++list->size: from here on the packet is in the queue.                  *)
PushSize(p) ==
  /\ Goto(p, "push_size", "push_len")
  /\ size' = size + 1
  /\ order' = Append(order, node[p])
  /\ UNCHANGED <<lock, head, tail, len, nodeVars, localVars>>

PushLen(p) ==
  /\ Goto(p, "push_len", "push_unlock")
  /\ len' = len + PacketLen[data[node[p]]]
  /\ node' = [node EXCEPT ![p] = NULL]
  /\ UNCHANGED <<lock, head, tail, size, nodeVars, buf, seen, order>>

-----------------------------------------------------------------------------
(* BufferOutQueue: LIST_LPOP, after IsEmptyQueue has said "not empty" under*)
(* an earlier acquisition of the lock.                                     *)

PopTest(c) ==
  /\ \/ Goto(c, "pop_test", "pop_node") /\ size # 0
     \/ Goto(c, "pop_test", "pop_unlock") /\ size = 0
  /\ UNCHANGED <<lock, listVars, nodeVars, localVars, order>>

(* Take the newest node.                                                   *)
PopNode_FromTail(c) ==
  /\ Goto(c, "pop_node", "pop_size")
  /\ node' = [node EXCEPT ![c] = tail]
  /\ UNCHANGED <<lock, listVars, nodeVars, buf, seen, order>>

PopNode(c) ==
  /\ Goto(c, "pop_node", "pop_size")
  /\ node' = [node EXCEPT ![c] = head]
  /\ UNCHANGED <<lock, listVars, nodeVars, buf, seen, order>>

(* list->size-- for --list->size.                                          *)
PopSize_PostDecrement(c) ==
  /\ \/ Goto(c, "pop_size", "pop_head") /\ size # 0
     \/ Goto(c, "pop_size", "pop_last_tail") /\ size = 0
  /\ size' = size - 1
  /\ order' = Tail(order)
  /\ UNCHANGED <<lock, head, tail, len, nodeVars, localVars>>

(* --list->size: from here on the packet has left the queue.               *)
PopSize(c) ==
  /\ \/ Goto(c, "pop_size", "pop_head") /\ size - 1 # 0
     \/ Goto(c, "pop_size", "pop_last_tail") /\ size - 1 = 0
  /\ size' = size - 1
  /\ order' = Tail(order)
  /\ UNCHANGED <<lock, head, tail, len, nodeVars, localVars>>

PopHead(c) ==
  /\ Goto(c, "pop_head", "pop_prev")
  /\ head' = next[node[c]]
  /\ UNCHANGED <<lock, tail, size, len, nodeVars, localVars, order>>

PopPrev(c) ==
  /\ Goto(c, "pop_prev", "pop_links")
  /\ prev' = [prev EXCEPT ![head] = NULL]
  /\ UNCHANGED <<lock, listVars, next, data, alloc, localVars, order>>

PopLastTail(c) ==
  /\ Goto(c, "pop_last_tail", "pop_last_head")
  /\ tail' = NULL
  /\ UNCHANGED <<lock, head, size, len, nodeVars, localVars, order>>

PopLastHead(c) ==
  /\ Goto(c, "pop_last_head", "pop_links")
  /\ head' = NULL
  /\ UNCHANGED <<lock, tail, size, len, nodeVars, localVars, order>>

PopLinks(c) ==
  /\ Goto(c, "pop_links", "pop_len")
  /\ prev' = [prev EXCEPT ![node[c]] = NULL]
  /\ next' = [next EXCEPT ![node[c]] = NULL]
  /\ UNCHANGED <<lock, listVars, data, alloc, localVars, order>>

(* The bytes of the node stay counted.                                     *)
PopLen_Unchanged(c) ==
  /\ Goto(c, "pop_len", "pop_unlock")
  /\ UNCHANGED <<lock, listVars, nodeVars, localVars, order>>

PopLen(c) ==
  /\ Goto(c, "pop_len", "pop_unlock")
  /\ len' = len - PacketLen[data[node[c]]]
  /\ UNCHANGED <<lock, head, tail, size, nodeVars, localVars, order>>

(* main_loop parses, looks up and logs the packet, then frees the node.    *)
Process(c) ==
  /\ Goto(c, "process", "free")
  /\ UNCHANGED <<lock, listVars, nodeVars, localVars, order>>

(* The next packet overwrites the pointer of this one.                     *)
Free_Leaks(c) ==
  /\ Goto(c, "free", "empty_lock")
  /\ node' = [node EXCEPT ![c] = NULL]
  /\ UNCHANGED <<lock, listVars, nodeVars, buf, seen, order>>

Free(c) ==
  /\ Goto(c, "free", "empty_lock")
  /\ alloc' = alloc \ {node[c]}
  /\ node' = [node EXCEPT ![c] = NULL]
  /\ UNCHANGED <<lock, listVars, prev, next, data, buf, seen, order>>

-----------------------------------------------------------------------------
Push(p) ==
  \/ PushTest(p) \/ PushPrev(p) \/ PushNext(p) \/ PushTail(p)
  \/ PushFirstTail(p) \/ PushFirstHead(p) \/ PushFirstLinks(p)
  \/ PushSize(p) \/ PushLen(p)

Pop(c) ==
  \/ PopTest(c) \/ PopNode(c) \/ PopSize(c) \/ PopHead(c) \/ PopPrev(c)
  \/ PopLastTail(c) \/ PopLastHead(c) \/ PopLinks(c) \/ PopLen(c)

(* What a thread does by itself once it has a packet or the lock.          *)
Work(t) ==
  \/ AtomicUnlock(t) \/ ReadSize(t)
  \/ t \in Producers /\ (LogSize(t) \/ Reject(t) \/ Allocate(t) \/ Push(t))
  \/ t \in Consumers /\ (Pop(t) \/ Process(t) \/ Free(t))

Next ==
  \/ \E t \in Threads : AtomicLock(t) \/ Work(t)
  \/ \E p \in Producers : Receive(p) \/ ReceiveFails(p)

Spec == Init /\ [][Next]_vars

(* The scheduler runs every thread.  A thread that spins gets the lock in  *)
(* the end: whoever releases it sleeps for MAIN_FUNC_CYCLE or blocks in    *)
(* recvfrom before it comes back.  Nothing makes a packet arrive.          *)
Fairness == \A t \in Threads : WF_vars(Work(t)) /\ SF_vars(AtomicLock(t))

FairSpec == Spec /\ Fairness
=============================================================================
