---------------------------- MODULE BufQueueInv ----------------------------
(***************************************************************************)
(* What must hold of BufQueue: its safety and liveness properties, the     *)
(* inductive invariant behind them, and the refinement mapping to          *)
(* PacketFifo.  BufQueueProofs proves what TLC checks here.                *)
(***************************************************************************)
EXTENDS BufQueue

-----------------------------------------------------------------------------
(* The labels, by what a thread at them is doing.                          *)

HandLabels ==       \* a producer has a node that is not yet in the queue
  {"push_lock", "push_test", "push_prev", "push_next", "push_tail",
   "push_first_tail", "push_first_head", "push_first_links", "push_size"}

PopHandLabels ==    \* a consumer has a node that has left the queue
  {"pop_head", "pop_prev", "pop_last_tail", "pop_last_head", "pop_links",
   "pop_len", "process", "free"}

CriticalLabels ==   \* between LOCK() and the end of UNLOCK()
  UnlockLabels \cup (HandLabels \ {"push_lock"}) \cup
  {"size_read", "log_read", "empty_read", "push_len", "pop_test", "pop_node",
   "pop_size"} \cup (PopHandLabels \ {"process", "free"})

OfferLabels ==      \* a producer has a packet it has not settled
  {"size_lock", "size_read", "size_unlock", "enqueue"} \cup HandLabels

ProducerLabels ==
  OfferLabels \cup {"recv", "stopped", "push_len", "push_unlock", "log_lock",
                    "log_read", "log_unlock"}

ConsumerLabels ==
  PopHandLabels \cup {"empty_lock", "empty_read", "empty_unlock", "pop_lock",
                      "pop_test", "pop_node", "pop_size", "pop_unlock"}

(* Every variable has its C type, and a thread runs the code of its loop.  *)
TypeOK ==
  /\ lock \in {0, 1}
  /\ head \in Pointer /\ tail \in Pointer /\ size \in Int /\ len \in Int
  /\ prev \in [Node -> Pointer] /\ next \in [Node -> Pointer]
  /\ data \in [Node -> Packets \cup {NoPacket}]
  /\ alloc \in SUBSET Node
  /\ order \in Seq(Node)
  /\ pc \in [Threads -> ProducerLabels \cup ConsumerLabels]
  /\ \A p \in Producers : pc[p] \in ProducerLabels
  /\ \A c \in Consumers : pc[c] \in ConsumerLabels
  /\ buf \in [Producers -> Packets \cup {NoPacket}]
  /\ seen \in [Threads -> Int]
  /\ node \in [Threads -> Pointer]

-----------------------------------------------------------------------------
(* Safety.                                                                 *)

InCritical(t) == pc[t] \in CriticalLabels

(* The lock word is 1 exactly while one thread is between LOCK() and       *)
(* UNLOCK(), so no two threads touch the list together and the swap in     *)
(* UNLOCK() never has to be tried twice.                                   *)
MutualExclusion ==
  /\ \A t, u \in Threads : InCritical(t) /\ InCritical(u) => t = u
  /\ (lock = 1) <=> \E t \in Threads : InCritical(t)

(* The links between neighbours, both ways.                                *)
Linked(s) ==
  \A i \in 1 .. Len(s) - 1 : next[s[i]] = s[i + 1] /\ prev[s[i + 1]] = s[i]

(* The list in memory is exactly the sequence s of nodes.                  *)
Settled(s) ==
  /\ s = <<>> => head = NULL /\ tail = NULL
  /\ s # <<>> => /\ head = s[1] /\ tail = s[Len(s)]
                 /\ prev[s[1]] = NULL /\ next[s[Len(s)]] = NULL
                 /\ Linked(s)

(* Whenever the lock is free, the list reached from head by the next links *)
(* and from tail by the prev links holds the queued nodes in the order in  *)
(* which they were queued, and list->size counts them.                     *)
ListIsTheQueue ==
  lock = 0 => Settled(order) /\ size = Len(order)

(* The bytes of the packets in the nodes of s, whose content is d.         *)
BytesIn(s, d) ==
  LET sum[i \in 0 .. Len(s)] == IF i = 0 THEN 0 ELSE sum[i - 1] + PacketLen[d[s[i]]]
  IN  sum[Len(s)]

(* ... and list->len is the number of bytes queued.                        *)
LenIsQueuedBytes == lock = 0 => len = BytesIn(order, data)

(* The node that the next step of thread t dereferences.                   *)
Dereferences(t) ==
  CASE pc[t] \in {"push_prev", "push_first_links", "push_len", "pop_head",
                  "pop_links", "pop_len", "process", "free"} -> {node[t]}
    [] pc[t] = "push_next" -> {tail}
    [] pc[t] = "pop_prev"  -> {head}
    [] OTHER               -> {}

(* No thread ever reads, writes or frees memory that is not malloc'ed:     *)
(* neither NULL, nor an unwritten link, nor a freed node.                  *)
NoDanglingAccess == \A t \in Threads : Dereferences(t) \subseteq alloc

(* A thread holds a node of its own: not, or no longer, in the queue.      *)
Holding(t) == node[t] # NULL /\ pc[t] \notin {"push_len", "pop_size"}

Holders == {t \in Threads : Holding(t)}

(* Every malloc'ed node has one owner: the queue, once, or one thread.     *)
(* Nothing leaks, and nothing can be freed twice.                          *)
EveryNodeHasOneOwner ==
  /\ alloc = ToSet(order) \cup {node[t] : t \in Holders}
  /\ \A t \in Holders : node[t] \notin ToSet(order)
  /\ \A t, u \in Holders : node[t] = node[u] => t = u
  /\ \A i, j \in DOMAIN order : order[i] = order[j] => i = j

(* The size test in udp_server_loop and the push run under two separate    *)
(* acquisitions of the lock, and the test is "> MAX_PCK": each producer    *)
(* can take the queue one packet past MAX_PCK, and no further.             *)
QueueBound == size <= MAX_PCK + Cardinality(Producers)

(* The daemon's packet memory is bounded: the queue, and one node in the   *)
(* hands of each consumer.                                                 *)
MemoryBound ==
  Cardinality(alloc) <=
    MAX_PCK + Cardinality(Producers) + Cardinality(Consumers)

(* With one consumer, as in the program, what IsEmptyQueue said still      *)
(* holds when BufferOutQueue pops: the test it makes for "not empty, and   *)
(* yet the pop failed" (queue.c:173) never fires.                          *)
PopFindsPacket == \A c \in Consumers : pc[c] = "pop_test" => size > 0

-----------------------------------------------------------------------------
(***************************************************************************)
(* The inductive invariant: what the list, the hands and the counters look *)
(* like at each label, in the middle of a push or a pop too.               *)
(***************************************************************************)

(* The labels at which the list is not Settled(order).                     *)
PushingLabels == {"push_tail", "push_first_head", "push_first_links", "push_size"}
PoppingLabels == {"pop_head", "pop_prev", "pop_last_tail", "pop_last_head"}

Last1(s) == s[Len(s)]

(* The list while producer p is inside LIST_RPUSH.                         *)
PushStage(p) ==
  /\ pc[p] \in {"push_prev", "push_next", "push_tail"} => order # <<>>
  /\ pc[p] \in {"push_first_tail", "push_first_head", "push_first_links"} =>
       order = <<>>
  /\ pc[p] \in {"push_next", "push_tail"} =>
       prev[node[p]] = tail /\ next[node[p]] = NULL
  /\ pc[p] = "push_tail" =>
       /\ head = order[1] /\ tail = Last1(order) /\ prev[head] = NULL
       /\ Linked(order) /\ next[tail] = node[p]
  /\ pc[p] = "push_first_head"  => head = NULL /\ tail = node[p]
  /\ pc[p] = "push_first_links" => head = node[p] /\ tail = node[p]
  /\ pc[p] = "push_size" =>
       /\ tail = node[p] /\ next[tail] = NULL
       /\ order = <<>> => head = node[p] /\ prev[head] = NULL
       /\ order # <<>> => /\ head = order[1] /\ prev[head] = NULL
                          /\ Linked(order)
                          /\ next[Last1(order)] = tail
                          /\ prev[tail] = Last1(order)

(* The list while consumer c is inside LIST_LPOP.                          *)
PopStage(c) ==
  /\ pc[c] \in {"pop_node", "pop_size", "pop_head", "pop_prev"} => order # <<>>
  /\ pc[c] \in {"pop_last_tail", "pop_last_head"} => order = <<>>
  /\ pc[c] \in {"pop_size", "pop_head"} => node[c] = head
  /\ pc[c] = "pop_head" => next[node[c]] = order[1]
  /\ pc[c] = "pop_prev" => head = order[1]
  /\ pc[c] \in {"pop_head", "pop_prev"} =>
       tail = Last1(order) /\ next[tail] = NULL /\ Linked(order)
  /\ pc[c] = "pop_last_head" => tail = NULL

ListInv ==
  /\ (\A t \in Threads : pc[t] \notin PushingLabels \cup PoppingLabels) =>
       Settled(order)
  /\ \A p \in Producers : PushStage(p)
  /\ \A c \in Consumers : PopStage(c)

(* Which thread has a node, and whose packet it holds.                     *)
ProducerHand(p) ==
  /\ pc[p] \in OfferLabels => buf[p] \in Packets
  /\ IF pc[p] \in HandLabels
       THEN node[p] \in Node /\ data[node[p]] = buf[p]
       ELSE IF pc[p] = "push_len"
              THEN order # <<>> /\ node[p] = Last1(order)
              ELSE node[p] = NULL

ConsumerHand(c) ==
  IF pc[c] \in PopHandLabels \cup {"pop_size"}
    THEN node[c] \in Node
    ELSE IF pc[c] = "pop_unlock" THEN node[c] \in Node \cup {NULL}
                                 ELSE node[c] = NULL

HandInv ==
  /\ \A p \in Producers : ProducerHand(p)
  /\ \A c \in Consumers : ConsumerHand(c)
  /\ \A n \in alloc : data[n] \in Packets

(* The producers that have passed the size test and have not pushed yet.   *)
Passed ==
  {p \in Producers : \/ pc[p] = "size_unlock" /\ seen[p] <= MAX_PCK
                     \/ pc[p] = "enqueue" \/ pc[p] \in HandLabels}

CountInv ==
  /\ size = Len(order)
  /\ size + Cardinality(Passed) <= MAX_PCK + Cardinality(Producers)

(* Between IsEmptyQueue's "not empty" and the pop; inductive on top of IInv*)
(* when there is one consumer.                                             *)
StillNotEmpty ==
  \A c \in Consumers :
    (pc[c] \in {"pop_lock", "pop_test"} \/ (pc[c] = "empty_unlock" /\ seen[c] # 0))
      => size > 0

(* list->len lags behind the list between ++size and len +=, and between  *)
(* --size and len -=; inductive on top of IInv.                            *)
LagLabels == PopHandLabels \ {"process", "free"}

LenInv ==
  /\ \A p \in Producers : pc[p] = "push_len" =>
       len + PacketLen[data[node[p]]] = BytesIn(order, data)
  /\ \A c \in Consumers : pc[c] \in LagLabels =>
       len = BytesIn(order, data) + PacketLen[data[node[c]]]
  /\ (\A t \in Threads : pc[t] \notin LagLabels \cup {"push_len"}) =>
       len = BytesIn(order, data)

IInv ==
  /\ TypeOK /\ MutualExclusion /\ HandInv /\ EveryNodeHasOneOwner
  /\ ListInv /\ CountInv

-----------------------------------------------------------------------------
(* The queue implements a first-in first-out channel: a packet enters it   *)
(* at ++size and leaves it at --size.                                      *)

Queue   == [i \in DOMAIN order |-> data[order[i]]]
Offered == [p \in Producers |-> IF pc[p] \in OfferLabels THEN buf[p] ELSE NoPacket]
Taken   == [c \in Consumers |-> IF Holding(c) THEN data[node[c]] ELSE NoPacket]

Fifo == INSTANCE PacketFifo WITH
  Capacity <- MAX_PCK + Cardinality(Producers),
  queue <- Queue, offered <- Offered, taken <- Taken

(* Whatever the interleaving of pushes and pops, no packet that was put is *)
(* lost, duplicated, reordered or altered before a consumer has it.        *)
ImplementsFifo == Fifo!Spec

(* Liveness, under the fairness of FairSpec.                               *)

(* Every packet that was queued is processed.                              *)
QueuedIsProcessed ==
  \A n \in Node :
    n \in ToSet(order) ~>
      \E c \in Consumers : pc[c] = "process" /\ node[c] = n

(* The UDP thread always comes back to recvfrom: no packet makes it wait   *)
(* for the lock forever.                                                   *)
ProducerReturns ==
  \A p \in Producers : pc[p] \in OfferLabels ~> pc[p] = "recv"
=============================================================================
